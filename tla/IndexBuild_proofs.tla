------------------------- MODULE IndexBuild_proofs -------------------------
(***************************************************************************)
(* Proofs about IndexBuild for every number of pods, starts, documents,    *)
(* uploads and faults: as long as no builder lost its lock there is one    *)
(* builder at a time, and no document has two rows in a channel unless its *)
(* upload met a build.                                                     *)
(***************************************************************************)
EXTENDS IndexBuild, FiniteSetTheorems, SequenceTheorems, TLAPS

-----------------------------------------------------------------------------
\* The types

PlacesFit ==
    /\ \A p \in Pods :
           /\ BuildsChannel(p) => todo[p] # <<>>
           /\ place[p] # "down" => boots[p] >= 1
    /\ \A d \in Uploading : upload[d].left # <<>>
Contents == Lines \cup {None, Torn}
StoresOK ==
    /\ md \subseteq Docs
    /\ rows \in [Channels -> SUBSET Rows]
    /\ corpus \in [Channels -> Contents] /\ tmp \in [Channels -> Contents]
    /\ rewrite \in [Pods -> Rewrite \cup {None}]
    /\ upload \in [Uploaded -> [at: UploadPlaces, left: ChannelLists]]
LocksOK == lock \in Starts \cup {None} /\ blocker \in [Pods -> Starts \cup {None}]
PodsOK ==
    /\ place \in [Pods -> Places]
    /\ todo \in [Pods -> ChannelLists]
    /\ loaded \in [Pods -> SUBSET Docs]
    /\ seen \in [Pods -> SUBSET Rows]
    /\ bm25 \in [Pods -> [Channels -> Contents]]
    /\ boots \in [Pods -> 0 .. MaxBoots]
NotesOK ==
    /\ faults \in 0 .. MaxFaults
    /\ lockLost \in BOOLEAN /\ disturbed \in BOOLEAN /\ raced \subseteq Uploaded
TypeInv == StoresOK /\ LocksOK /\ PodsOK /\ NotesOK /\ PlacesFit

-----------------------------------------------------------------------------
\* The lists of channels

LEMMA ListOfUnready ==
    LET q == Unready(AllChannels[1]) \o Unready(AllChannels[2])
    IN /\ q \in ChannelLists
       /\ \A c \in Channels : Ready(c) \/ \E i \in 1 .. Len(q) : q[i] = c
<1> DEFINE q == Unready(AllChannels[1]) \o Unready(AllChannels[2])
<1>1. AllChannels[1] = "originals" /\ AllChannels[2] = "workspace"
  BY DEF AllChannels
<1>2. CASE Ready("originals") /\ Ready("workspace")
  <2>1. q = <<>>
    BY <1>1, <1>2 DEF Unready
  <2> QED
    BY <1>2, <2>1 DEF ChannelLists, Channels
<1>3. CASE ~Ready("originals") /\ Ready("workspace")
  <2>1. q = <<"originals">>
    BY <1>1, <1>3 DEF Unready
  <2>2. Len(q) = 1 /\ q[1] = "originals"
    BY <2>1
  <2> QED
    BY <1>3, <2>1, <2>2 DEF ChannelLists, Channels
<1>4. CASE Ready("originals") /\ ~Ready("workspace")
  <2>1. q = <<"workspace">>
    BY <1>1, <1>4 DEF Unready
  <2>2. Len(q) = 1 /\ q[1] = "workspace"
    BY <2>1
  <2> QED
    BY <1>4, <2>1, <2>2 DEF ChannelLists, Channels
<1>5. CASE ~Ready("originals") /\ ~Ready("workspace")
  <2>1. q = <<"originals", "workspace">>
    <3>1. q = <<"originals">> \o <<"workspace">>
      BY <1>1, <1>5 DEF Unready
    <3>2. <<"originals">> \o <<"workspace">> = <<"originals", "workspace">>
      <4> DEFINE a == <<"originals">>
                 b == <<"workspace">>
                 ab == <<"originals", "workspace">>
      <4>1. /\ a \in Seq(Channels) /\ Len(a) = 1 /\ a[1] = "originals"
            /\ b \in Seq(Channels) /\ Len(b) = 1 /\ b[1] = "workspace"
        BY DEF Channels
      <4>0. /\ ab \in Seq(Channels) /\ Len(ab) = 2
            /\ ab[1] = "originals" /\ ab[2] = "workspace"
        BY DEF Channels
      <4>2. /\ a \o b \in Seq(Channels) /\ Len(a \o b) = 2
            /\ (a \o b)[1] = a[1] /\ (a \o b)[2] = b[1]
        BY <4>1, ConcatProperties
      <4>3. \A i \in 1 .. Len(a \o b) : (a \o b)[i] = ab[i]
        BY <4>0, <4>1, <4>2
      <4>4. a \o b = ab
        BY <4>0, <4>2, <4>3, SeqEqual
      <4> QED
        BY <4>4 DEF a, b, ab
    <3> QED
      BY <3>1, <3>2
  <2>2. Len(q) = 2 /\ q[1] = "originals" /\ q[2] = "workspace"
    BY <2>1
  <2> QED
    BY <1>5, <2>1, <2>2 DEF ChannelLists, Channels
<1> QED
  BY <1>2, <1>3, <1>4, <1>5

LEMMA TailOfList ==
    ASSUME NEW q \in ChannelLists, q # <<>>
    PROVE  /\ Tail(q) \in ChannelLists /\ Head(q) \in Channels
           /\ \A c : (\E i \in 1 .. Len(q) : q[i] = c) =>
                  c = Head(q) \/ \E i \in 1 .. Len(Tail(q)) : Tail(q)[i] = c
<1>1. CASE q = <<"originals">>
  <2>1. Tail(q) = <<>> /\ Head(q) = "originals" /\ Len(q) = 1 /\ q[1] = "originals"
    BY <1>1
  <2> QED
    BY <2>1 DEF ChannelLists, Channels
<1>2. CASE q = <<"workspace">>
  <2>1. Tail(q) = <<>> /\ Head(q) = "workspace" /\ Len(q) = 1 /\ q[1] = "workspace"
    BY <1>2
  <2> QED
    BY <2>1 DEF ChannelLists, Channels
<1>3. CASE q = <<"originals", "workspace">>
  <2>1. Tail(q) = <<"workspace">> /\ Head(q) = "originals" /\ Len(q) = 2
        /\ q[1] = "originals" /\ q[2] = "workspace"
    BY <1>3
  <2>2. Len(Tail(q)) = 1 /\ Tail(q)[1] = "workspace"
    BY <2>1
  <2>3. \A i \in 1 .. Len(q) : i = 1 \/ i = 2
    BY <2>1
  <2> QED
    BY <2>1, <2>2, <2>3 DEF ChannelLists, Channels
<1> QED
  BY <1>1, <1>2, <1>3 DEF ChannelLists

\* A list of more than one channel leaves another one.
LEMMA LongTail ==
    ASSUME NEW q \in ChannelLists, q # <<>>
    PROVE  Tail(q) \in ChannelLists /\ (Len(q) # 1 => Tail(q) # <<>>)
<1>1. CASE q = <<"originals">> \/ q = <<"workspace">>
  <2>1. Len(q) = 1
    BY <1>1
  <2> QED
    BY <2>1, TailOfList
<1>2. CASE q = <<"originals", "workspace">>
  <2>1. Tail(q) = <<"workspace">>
    BY <1>2
  <2>2. Len(<<"workspace">>) = 1 /\ Len(<<>>) = 0
    OBVIOUS
  <2>3. Tail(q) # <<>>
    BY <2>1, <2>2
  <2> QED
    BY <2>3, TailOfList
<1> QED
  BY <1>1, <1>2 DEF ChannelLists

-----------------------------------------------------------------------------
\* Type correctness

LEMMA InitTypeInv == Init => TypeInv
<1> SUFFICES ASSUME Init
             PROVE  TypeInv
  OBVIOUS
<1> USE BuildAssumption DEF Init
<1>1. rows \in [Channels -> SUBSET Rows] /\ md \subseteq Docs
  BY DEF Docs
<1>2. corpus \in [Channels -> Contents] /\ tmp \in [Channels -> Contents]
  BY DEF Contents
<1>3. upload \in [Uploaded -> [at: UploadPlaces, left: ChannelLists]]
  BY DEF UploadPlaces, ChannelLists
<1>4. StoresOK
  BY <1>1, <1>2, <1>3 DEF StoresOK
<1>5. LocksOK
  BY DEF LocksOK
<1>6. bm25 \in [Pods -> [Channels -> Contents]]
  BY <1>2
<1>7. PodsOK
  BY <1>6 DEF PodsOK, Places, ChannelLists
<1>8. faults \in 0 .. MaxFaults /\ raced \subseteq Uploaded
  OBVIOUS
<1>9. lockLost \in BOOLEAN /\ disturbed \in BOOLEAN
  OBVIOUS
<1>10. PlacesFit
  BY DEF PlacesFit, BuildsChannel, Uploading
<1> QED
  BY <1>4, <1>5, <1>7, <1>8, <1>9, <1>10 DEF TypeInv, NotesOK

\* What a file holds when somebody may have written to it is of its type, too.
LEMMA UnsureContents == ASSUME NEW x \in Contents PROVE Unsure(x) \in Contents
BY DEF Unsure, Contents

LEMMA NoneAndTorn == None \in Contents /\ Torn \in Contents
BY DEF Contents

\* The .tmp files, as the builders open, fill and rename them.
LEMMA FilesStoresOK ==
    ASSUME TypeInv, NEW p \in Pods, OpenTmp(p) \/ FillTmp(p) \/ ReplaceCorpus(p)
    PROVE  StoresOK'
<1> DEFINE c0 == Head(todo[p])
<1>1. c0 \in Channels
  BY TailOfList DEF TypeInv, PodsOK, PlacesFit, OpenTmp, FillTmp, ReplaceCorpus,
     BuildsChannel
<1>2. loaded[p] \in Contents
  BY DEF TypeInv, PodsOK, Contents, Lines
<1>3. UNCHANGED <<md, rows, upload>>
  BY DEF OpenTmp, FillTmp, ReplaceCorpus
<1>4. ASSUME NEW q \in Pods, rewrite[q] # None
      PROVE  rewrite[q] \in Rewrite
  BY <1>4 DEF TypeInv, StoresOK
<1>5. CASE OpenTmp(p)
  <2> DEFINE others == Open(c0, "tmp")
             opened == [channel |-> c0, file |-> "tmp",
                        agreed |-> \A q \in others : loaded[q] = loaded[p]]
             after(q) == IF q = p THEN opened
                         ELSE IF q \in others
                         THEN [rewrite[q] EXCEPT !.agreed = @ /\ loaded[q] = loaded[p]]
                         ELSE rewrite[q]
  <2>1. tmp' = [tmp EXCEPT ![c0] = Torn] /\ corpus' = corpus
    BY <1>5 DEF OpenTmp
  <2>2. rewrite' = [q \in Pods |-> after(q)]
    BY <1>5, Zenon DEF OpenTmp
  <2>3. opened \in Rewrite
    BY <1>1 DEF Rewrite
  <2>4. ASSUME NEW q \in Pods
        PROVE  after(q) \in Rewrite \cup {None}
    <3>1. CASE q = p
      BY <2>3, <3>1
    <3>2. CASE q # p /\ q \in others
      <4>1. rewrite[q] \in Rewrite
        BY <1>4, <3>2 DEF Open
      <4>2. (rewrite[q].agreed /\ loaded[q] = loaded[p]) \in BOOLEAN
        OBVIOUS
      <4> HIDE DEF others
      <4>3. PICK b \in BOOLEAN : after(q) = [rewrite[q] EXCEPT !.agreed = b]
        BY <3>2, <4>2
      <4> QED
        BY <4>1, <4>3 DEF Rewrite
    <3>3. CASE q # p /\ q \notin others
      BY <3>3 DEF TypeInv, StoresOK
    <3> QED
      BY <3>1, <3>2, <3>3
  <2> HIDE DEF after
  <2>5. rewrite' \in [Pods -> Rewrite \cup {None}]
    BY <2>2, <2>4
  <2> QED
    BY <1>3, <2>1, <2>5, NoneAndTorn DEF TypeInv, StoresOK
<1>6. CASE FillTmp(p)
  <2>1. PICK found \in {loaded[p], Torn} :
            /\ tmp' = [tmp EXCEPT ![c0] = Unsure(found)] \/ tmp' = tmp
            /\ corpus' = [corpus EXCEPT ![c0] = Unsure(found)] \/ corpus' = corpus
    BY <1>6 DEF FillTmp
  <2>2. Unsure(found) \in Contents
    BY <1>2, NoneAndTorn, UnsureContents
  <2>3. rewrite' = [rewrite EXCEPT ![p] = None]
    BY <1>6 DEF FillTmp
  <2> QED
    BY <1>3, <2>1, <2>2, <2>3 DEF TypeInv, StoresOK
<1>7. CASE ReplaceCorpus(p)
  <2>1. /\ corpus' = [corpus EXCEPT ![c0] = tmp[c0]] \/ corpus' = corpus
        /\ tmp' = [tmp EXCEPT ![c0] = Unsure(None)] \/ tmp' = tmp
        /\ rewrite' = [q \in Pods |-> Renamed(rewrite[q], c0)] \/ rewrite' = rewrite
    BY <1>7 DEF ReplaceCorpus, files
  <2>2. corpus' \in [Channels -> Contents] /\ tmp' \in [Channels -> Contents]
    BY <1>1, <2>1, NoneAndTorn, UnsureContents DEF TypeInv, StoresOK
  <2>3. ASSUME NEW q \in Pods
        PROVE  Renamed(rewrite[q], c0) \in Rewrite \cup {None}
    <3>1. CASE rewrite[q] = None
      BY <3>1 DEF Renamed
    <3>2. CASE rewrite[q] # None
      <4>1. PICK r \in Rewrite : r = rewrite[q]
        BY <1>4, <3>2
      <4> QED
        BY <4>1 DEF Renamed, Rewrite
    <3> QED
      BY <3>1, <3>2
  <2>4. rewrite' \in [Pods -> Rewrite \cup {None}]
    BY <2>1, <2>3 DEF TypeInv, StoresOK
  <2> QED
    BY <1>3, <2>2, <2>4 DEF TypeInv, StoresOK
<1> QED
  BY <1>5, <1>6, <1>7

\* An upload's steps; its rows are nobody's.
LEMMA UploadStoresOK ==
    ASSUME TypeInv, NEW d \in Uploaded, UploadStep(d)
    PROVE  StoresOK' /\ (\A e \in Uploading : upload[e].left # <<>>)'
<1> USE DEF TypeInv, StoresOK
<1>1. <<d, None>> \in Rows /\ d \in Docs
  BY DEF Rows, Docs
<1>2. PICK u \in [at: UploadPlaces, left: ChannelLists] :
          /\ upload' = [upload EXCEPT ![d] = u]
          /\ u.at \in {"delete", "upsert"} => u.left # <<>>
  <2>1. CASE UploadFiles(d)
    <3>1. AllChannels \in ChannelLists /\ AllChannels # <<>>
      <4>1. Len(<<"originals", "workspace">>) = 2 /\ Len(<<>>) = 0
        OBVIOUS
      <4> QED
        BY <4>1 DEF AllChannels, ChannelLists
    <3>2. PICK u : u = [at |-> "delete", left |-> AllChannels]
      OBVIOUS
    <3>3. u \in [at: UploadPlaces, left: ChannelLists] /\ u.left # <<>>
      BY <3>1, <3>2 DEF UploadPlaces
    <3>4. upload' = [upload EXCEPT ![d] = u]
      BY <2>1, <3>2 DEF UploadFiles
    <3> QED
      BY <3>3, <3>4
  <2>2. CASE UploadRaises(d)
    <3>1. Ended \in [at: UploadPlaces, left: ChannelLists] /\ Ended.at = "ended"
      BY DEF Ended, UploadPlaces, ChannelLists
    <3> QED
      BY <2>2, <3>1 DEF UploadRaises
  <2>3. CASE UploadDelete(d)
    <3>1. upload[d].left # <<>>
      BY <2>3 DEF UploadDelete, PlacesFit, Uploading
    <3>2. PICK r \in [at: UploadPlaces, left: ChannelLists] : r = upload[d]
      OBVIOUS
    <3>3. PICK u : u = [r EXCEPT !.at = "upsert"]
      OBVIOUS
    <3>4. u \in [at: UploadPlaces, left: ChannelLists] /\ u.left = r.left
      BY <3>3 DEF UploadPlaces
    <3>5. upload' = [upload EXCEPT ![d] = u]
      BY <2>3, <3>2, <3>3 DEF UploadDelete
    <3> QED
      BY <3>1, <3>2, <3>4, <3>5
  <2>4. CASE UploadUpsert(d)
    <3>1. PICK r \in [at: UploadPlaces, left: ChannelLists] : r = upload[d]
      OBVIOUS
    <3>2. r.left # <<>>
      BY <2>4, <3>1 DEF UploadUpsert, PlacesFit, Uploading
    <3>3. Tail(r.left) \in ChannelLists /\ (Len(r.left) # 1 => Tail(r.left) # <<>>)
      BY <3>1, <3>2, LongTail
    <3>4. CASE Len(r.left) = 1
      <4>1. Ended \in [at: UploadPlaces, left: ChannelLists] /\ Ended.at = "ended"
        BY DEF Ended, UploadPlaces, ChannelLists
      <4> QED
        BY <2>4, <3>1, <3>4, <4>1 DEF UploadUpsert
    <3>5. CASE Len(r.left) # 1
      <4>1. PICK u : u = [at |-> "delete", left |-> Tail(r.left)]
        OBVIOUS
      <4>2. u \in [at: UploadPlaces, left: ChannelLists] /\ u.left = Tail(r.left)
        BY <3>3, <4>1 DEF UploadPlaces
      <4>3. upload' = [upload EXCEPT ![d] = u]
        BY <2>4, <3>1, <3>5, <4>1 DEF UploadUpsert
      <4> QED
        BY <3>3, <3>5, <4>2, <4>3
    <3> QED
      BY <3>4, <3>5
  <2> QED
    BY <2>1, <2>2, <2>3, <2>4 DEF UploadStep
<1>3. upload' \in [Uploaded -> [at: UploadPlaces, left: ChannelLists]]
  BY <1>2
<1>4. (\A e \in Uploading : upload[e].left # <<>>)'
  <2> SUFFICES ASSUME NEW e \in Uploaded, upload'[e].at \in {"delete", "upsert"}
               PROVE  upload'[e].left # <<>>
    BY DEF Uploading
  <2>1. upload'[e] = upload[e] \/ upload'[e] = u
    BY <1>2
  <2> QED
    BY <1>2, <2>1 DEF PlacesFit, Uploading
<1>5. md' \subseteq Docs /\ rewrite' = rewrite
  BY <1>1 DEF UploadStep, UploadFiles, UploadRaises, UploadDelete, UploadUpsert, files
<1>6. corpus' \in [Channels -> Contents] /\ tmp' \in [Channels -> Contents]
  <2>1. \/ UNCHANGED <<corpus, tmp>>
        \/ corpus' = [c \in Channels |-> Torn] /\ tmp' = corpus'
    BY DEF UploadStep, UploadFiles, UploadRaises, UploadDelete, UploadUpsert, files
  <2> QED
    BY <2>1, NoneAndTorn
<1>7. rows' \in [Channels -> SUBSET Rows]
  <2> DEFINE c0 == UploadChannel(d)
             kept == {r \in rows[c0] : r[1] # d}
             more == rows[c0] \cup {<<d, None>>}
  <2>1. \/ rows' = rows \/ rows' = [rows EXCEPT ![c0] = kept]
        \/ rows' = [rows EXCEPT ![c0] = more]
    BY DEF UploadStep, UploadFiles, UploadRaises, UploadDelete, UploadUpsert
  <2>2. c0 \in Channels => kept \subseteq Rows /\ more \subseteq Rows
    BY <1>1
  <2> HIDE DEF c0, kept, more
  <2> QED
    BY <2>1, <2>2
<1> QED
  BY <1>3, <1>4, <1>5, <1>6, <1>7

LEMMA NextStoresOK == TypeInv /\ [Next]_vars => StoresOK'
<1> SUFFICES ASSUME TypeInv, [Next]_vars
             PROVE  StoresOK'
  OBVIOUS
<1> USE DEF TypeInv, StoresOK
<1>1. CASE UNCHANGED stores
  BY <1>1 DEF stores, files
<1>2. ASSUME NEW p \in Pods, CommitRows(p)
      PROVE  StoresOK'
  <2> DEFINE c0 == Head(todo[p])
             new == loaded[p] \X {p}
  <2>1. new \subseteq Rows
    BY DEF PodsOK, Rows
  <2>2. UNCHANGED <<md, corpus, tmp, rewrite, upload>>
    BY <1>2 DEF CommitRows, files
  <2>3. rows' = [rows EXCEPT ![c0] = (rows[c0] \ seen[p]) \cup new] \/ rows' = rows
    BY <1>2 DEF CommitRows
  <2> HIDE DEF c0, new
  <2>4. rows' \in [Channels -> SUBSET Rows]
    BY <2>1, <2>3
  <2> QED
    BY <2>2, <2>4
<1>3. ASSUME NEW p \in Pods, Crash(p)
      PROVE  StoresOK'
  <2>1. /\ UNCHANGED <<md, rows, corpus, tmp>>
        /\ rewrite' = [rewrite EXCEPT ![p] = None]
    BY <1>3 DEF Crash
  <2>2. PICK lost : upload' = [d \in Uploaded |-> IF d \in lost THEN Ended ELSE upload[d]]
    BY <1>3 DEF Crash
  <2>3. Ended \in [at: UploadPlaces, left: ChannelLists]
    BY DEF Ended, UploadPlaces, ChannelLists
  <2> QED
    BY <2>1, <2>2, <2>3
<1>4. ASSUME NEW p \in Pods, Step(p), ~OpenTmp(p), ~FillTmp(p), ~ReplaceCorpus(p),
             ~CommitRows(p)
      PROVE  UNCHANGED stores
  BY <1>4 DEF Step, Boot, Warmup, WarmupRaises, Check, NoSchema, Acquire, MustWait,
              WaitDone, GiveUp, NextChannel, DeleteRows, Release
<1>5. ASSUME NEW p \in Pods, Unlocked(p)
      PROVE  UNCHANGED stores
  BY <1>5 DEF Unlocked
<1>6. CASE Expire
  BY <1>1, <1>6 DEF Expire
<1>7. CASE UNCHANGED vars
  BY <1>1, <1>7 DEF vars
<1> HIDE DEF TypeInv, StoresOK
<1> QED
  BY <1>1, <1>2, <1>3, <1>4, <1>5, <1>6, <1>7, FilesStoresOK, UploadStoresOK DEF Next

\* Who holds the lock has started.
LEMMA NextLocksOK == TypeInv /\ [Next]_vars => LocksOK'
<1> SUFFICES ASSUME TypeInv, [Next]_vars
             PROVE  LocksOK'
  OBVIOUS
<1>0. LocksOK
  BY DEF TypeInv
<1>1. ASSUME NEW p \in Pods, Acquire(p)
      PROVE  LocksOK'
  <2>1. boots[p] \in 1 .. MaxBoots
    BY <1>1, BuildAssumption DEF Acquire, TypeInv, PodsOK, PlacesFit
  <2> QED
    BY <1>0, <1>1, <2>1 DEF Acquire, LocksOK, Starts, Start
<1>2. ASSUME lock' \in {lock, None},
             \/ blocker' = blocker
             \/ \E p \in Pods : blocker' = [blocker EXCEPT ![p] = lock]
             \/ \E p \in Pods : blocker' = [blocker EXCEPT ![p] = None]
      PROVE  LocksOK'
  BY <1>0, <1>2 DEF LocksOK
<1>3. ASSUME NEW p \in Pods, Step(p), ~Acquire(p)
      PROVE  LocksOK'
  <2>1. CASE MustWait(p)
    BY <1>2, <2>1 DEF MustWait
  <2>2. CASE Release(p) \/ WaitDone(p) \/ GiveUp(p)
    BY <1>2, <2>2 DEF Release, WaitDone, GiveUp, Returns
  <2>3. CASE ~MustWait(p) /\ ~Release(p) /\ ~WaitDone(p) /\ ~GiveUp(p)
    <3>1. UNCHANGED <<lock, blocker>>
      BY <1>3, <2>3 DEF Step, Boot, Warmup, WarmupRaises, Check, NoSchema, NextChannel,
                        OpenTmp, FillTmp, ReplaceCorpus, DeleteRows, CommitRows
    <3> QED
      BY <1>2, <3>1
  <2> QED
    BY <2>1, <2>2, <2>3
<1>4. ASSUME NEW p \in Pods, Unlocked(p) \/ Crash(p)
      PROVE  LocksOK'
  BY <1>2, <1>4 DEF Unlocked, Crash, Returns
<1>5. CASE Expire
  BY <1>2, <1>5 DEF Expire, pods
<1>6. ASSUME NEW d \in Uploaded, UploadStep(d)
      PROVE  LocksOK'
  <2>1. UNCHANGED <<lock, blocker>>
    BY <1>6 DEF UploadStep, UploadFiles, UploadRaises, UploadDelete, UploadUpsert, pods
  <2> QED
    BY <1>2, <2>1
<1>7. CASE UNCHANGED vars
  BY <1>2, <1>7 DEF vars, pods
<1> QED
  BY <1>1, <1>3, <1>4, <1>5, <1>6, <1>7 DEF Next

\* The pods' own variables.
LEMMA NextPodsOK == TypeInv /\ [Next]_vars => PodsOK'
<1> SUFFICES ASSUME TypeInv, [Next]_vars
             PROVE  PodsOK'
  OBVIOUS
<1>0. PodsOK /\ StoresOK /\ PlacesFit
  BY DEF TypeInv
<1> USE DEF PodsOK, Goto
<1>1. ASSUME NEW p \in Pods, Boot(p) \/ Warmup(p)
      PROVE  PodsOK'
  <2>1. CASE Boot(p)
    <3>1. boots[p] + 1 \in 0 .. MaxBoots
      BY <1>0, <2>1, BuildAssumption DEF Boot
    <3> QED
      BY <1>0, <2>1, <3>1 DEF Boot, Places
  <2>2. CASE Warmup(p)
    BY <1>0, <2>2 DEF Warmup, StoresOK, Places
  <2> QED
    BY <1>1, <2>1, <2>2
<1>2. ASSUME NEW p \in Pods, Check(p)
      PROVE  PodsOK'
  <2> DEFINE q == Unready(AllChannels[1]) \o Unready(AllChannels[2])
  <2>1. q \in ChannelLists
    BY ListOfUnready
  <2>2. todo' = [todo EXCEPT ![p] = q]
    BY <1>2 DEF Check
  <2> HIDE DEF q
  <2>3. todo' \in [Pods -> ChannelLists]
    BY <1>0, <2>1, <2>2
  <2>4. place' \in [Pods -> Places] /\ UNCHANGED <<loaded, seen, bm25, boots>>
    BY <1>0, <1>2 DEF Check, Places
  <2> QED
    BY <1>0, <2>3, <2>4
\* Steps that put nothing in, only take away.
<1>3. ASSUME NEW p \in Pods, UNCHANGED boots,
             place' = place \/ \E to \in Places : place' = [place EXCEPT ![p] = to],
             todo' = todo \/ todo' = [todo EXCEPT ![p] = <<>>],
             loaded' = loaded \/ loaded' = [loaded EXCEPT ![p] = {}],
             seen' = seen \/ seen' = [seen EXCEPT ![p] = {}],
             bm25' \in [Pods -> [Channels -> Contents]]
      PROVE  PodsOK'
  <2>1. <<>> \in ChannelLists
    BY DEF ChannelLists
  <2>2. todo' \in [Pods -> ChannelLists]
    BY <1>0, <1>3, <2>1
  <2>3. loaded' \in [Pods -> SUBSET Docs] /\ seen' \in [Pods -> SUBSET Rows]
    BY <1>0, <1>3
  <2>4. place' \in [Pods -> Places]
    BY <1>0, <1>3
  <2> QED
    BY <1>0, <1>3, <2>2, <2>3, <2>4
<1>4. ASSUME NEW p \in Pods,
             WarmupRaises(p) \/ NoSchema(p) \/ Acquire(p) \/ MustWait(p) \/ WaitDone(p)
                 \/ GiveUp(p) \/ OpenTmp(p) \/ FillTmp(p) \/ ReplaceCorpus(p) \/ Release(p)
                 \/ Unlocked(p) \/ Crash(p)
      PROVE  PodsOK'
  <2>1. /\ UNCHANGED boots
        /\ todo' = todo \/ todo' = [todo EXCEPT ![p] = <<>>]
        /\ loaded' = loaded \/ loaded' = [loaded EXCEPT ![p] = {}]
        /\ seen' = seen \/ seen' = [seen EXCEPT ![p] = {}]
    BY <1>4 DEF WarmupRaises, NoSchema, Acquire, MustWait, WaitDone, GiveUp, OpenTmp,
                FillTmp, ReplaceCorpus, Release, Unlocked, Crash, Returns
  <2>2. \E to \in Places : place' = [place EXCEPT ![p] = to]
    BY <1>4 DEF WarmupRaises, NoSchema, Acquire, MustWait, WaitDone, GiveUp, OpenTmp,
                FillTmp, ReplaceCorpus, Release, Unlocked, Crash, Places
  <2>3. bm25' \in [Pods -> [Channels -> Contents]]
    <3>1. CASE Crash(p)
      <4>1. [c \in Channels |-> Unsure(None)] \in [Channels -> Contents]
        BY NoneAndTorn, UnsureContents
      <4> QED
        BY <1>0, <3>1, <4>1 DEF Crash
    <3>2. CASE ~Crash(p)
      BY <1>0, <1>4, <3>2 DEF WarmupRaises, NoSchema, Acquire, MustWait, WaitDone, GiveUp,
                              OpenTmp, FillTmp, ReplaceCorpus, Release, Unlocked
    <3> QED
      BY <3>1, <3>2
  <2> QED
    BY <1>3, <2>1, <2>2, <2>3
<1>5. ASSUME NEW p \in Pods, NextChannel(p)
      PROVE  PodsOK'
  <2>1. todo[p] # <<>> => Tail(todo[p]) \in ChannelLists
    BY <1>0, TailOfList
  <2>2. todo' = todo \/ (todo[p] # <<>> /\ todo' = [todo EXCEPT ![p] = Tail(todo[p])])
    BY <1>5 DEF NextChannel
  <2>3. todo' \in [Pods -> ChannelLists]
    BY <1>0, <2>1, <2>2
  <2>4. loaded' \in [Pods -> SUBSET Docs] /\ place' \in [Pods -> Places]
    BY <1>0, <1>5 DEF NextChannel, MarkdownDocuments, StoresOK, Places
  <2>5. UNCHANGED <<seen, bm25, boots>>
    BY <1>5 DEF NextChannel
  <2> QED
    BY <1>0, <2>3, <2>4, <2>5
<1>6. ASSUME NEW p \in Pods, DeleteRows(p)
      PROVE  PodsOK'
  <2>1. todo[p] # <<>> /\ Head(todo[p]) \in Channels
    BY <1>0, <1>6, TailOfList DEF DeleteRows, PlacesFit, BuildsChannel
  <2>2. seen' \in [Pods -> SUBSET Rows]
    BY <1>0, <1>6, <2>1 DEF DeleteRows, StoresOK
  <2>3. place' \in [Pods -> Places] /\ UNCHANGED <<todo, loaded, bm25, boots>>
    BY <1>0, <1>6 DEF DeleteRows, Places
  <2> QED
    BY <1>0, <2>2, <2>3
<1>7. ASSUME NEW p \in Pods, CommitRows(p)
      PROVE  PodsOK'
  <2>1. Tail(todo[p]) \in ChannelLists
    BY <1>0, <1>7, TailOfList DEF CommitRows, PlacesFit, BuildsChannel
  <2>2. todo' \in [Pods -> ChannelLists]
    BY <1>0, <1>7, <2>1 DEF CommitRows
  <2>3. place' \in [Pods -> Places] /\ UNCHANGED <<bm25, boots>>
    BY <1>0, <1>7 DEF CommitRows, Places
  <2>4. loaded' \in [Pods -> SUBSET Docs] /\ seen' \in [Pods -> SUBSET Rows]
    BY <1>0, <1>7 DEF CommitRows
  <2> QED
    BY <1>0, <2>2, <2>3, <2>4
<1>8. CASE UNCHANGED pods
  BY <1>0, <1>8 DEF pods
<1>9. CASE Expire
  BY <1>8, <1>9 DEF Expire
<1>10. ASSUME NEW d \in Uploaded, UploadStep(d)
       PROVE  PodsOK'
  <2>1. CASE UploadFiles(d)
    <3>1. UNCHANGED <<place, todo, loaded, seen, boots>>
      BY <2>1 DEF UploadFiles
    <3>2. bm25' = [p \in Pods |-> [c \in Channels |-> Torn]]
      BY <2>1 DEF UploadFiles
    <3> QED
      BY <1>0, <3>1, <3>2, NoneAndTorn
  <2>2. CASE ~UploadFiles(d)
    BY <1>8, <1>10, <2>2 DEF UploadStep, UploadRaises, UploadDelete, UploadUpsert
  <2> QED
    BY <2>1, <2>2
<1>11. CASE UNCHANGED vars
  BY <1>8, <1>11 DEF vars
<1>12. ASSUME NEW p \in Pods, Step(p)
       PROVE  PodsOK'
  BY <1>12, <1>1, <1>2, <1>4, <1>5, <1>6, <1>7 DEF Step
<1> QED
  BY <1>4, <1>9, <1>10, <1>11, <1>12 DEF Next

LEMMA NextNotesOK == TypeInv /\ [Next]_vars => NotesOK'
<1> SUFFICES ASSUME TypeInv, [Next]_vars
             PROVE  NotesOK'
  OBVIOUS
<1>0. NotesOK
  BY DEF TypeInv
<1> USE DEF Next, Step, Boot, Warmup, WarmupRaises, Check, NoSchema, Acquire, MustWait,
            WaitDone, GiveUp, NextChannel, OpenTmp, FillTmp, ReplaceCorpus, DeleteRows,
            CommitRows, Release, Unlocked, Crash, Expire, UploadStep, UploadFiles,
            UploadRaises, UploadDelete, UploadUpsert, vars, notes, Fault, NoFault
<1>1. faults' = faults \/ (faults < MaxFaults /\ faults' = faults + 1)
  OBVIOUS
<1>2. disturbed' = disturbed \/ disturbed' = TRUE
  OBVIOUS
<1>3. lockLost' = lockLost \/ lockLost' \in BOOLEAN
  OBVIOUS
<1>4. raced' \subseteq raced \cup Uploaded
  BY DEF Uploading
<1> QED
  <2> HIDE DEF Next, vars
  <2>1. faults' \in 0 .. MaxFaults
    <3>1. faults \in 0 .. MaxFaults
      BY <1>0 DEF NotesOK
    <3> QED
      BY <1>1, <3>1, BuildAssumption
  <2>2. lockLost' \in BOOLEAN /\ disturbed' \in BOOLEAN
    BY <1>0, <1>2, <1>3 DEF NotesOK
  <2>3. raced' \subseteq Uploaded
    BY <1>0, <1>4 DEF NotesOK
  <2> QED
    BY <2>1, <2>2, <2>3 DEF NotesOK

\* Where a pod is, and that it has started.
LEMMA NextPlacesFit == TypeInv /\ [Next]_vars => PlacesFit'
<1> SUFFICES ASSUME TypeInv, [Next]_vars
             PROVE  PlacesFit'
  OBVIOUS
<1>0. PodsOK /\ PlacesFit /\ StoresOK
  BY DEF TypeInv
<1> USE DEF PodsOK, Goto, PlacesFit, BuildsChannel
<1> DEFINE UploadsFit == \A d \in Uploading : upload[d].left # <<>>
<1>1. ASSUME UNCHANGED upload
      PROVE  UploadsFit'
  BY <1>0, <1>1 DEF Uploading
<1>2. ASSUME UploadsFit', NEW p \in Pods,
             \A r \in Pods \ {p} :
                 place'[r] = place[r] /\ todo'[r] = todo[r] /\ boots'[r] = boots[r],
             BuildsChannel(p)' => todo'[p] # <<>>,
             place'[p] # "down" => (place[p] # "down" /\ boots'[p] = boots[p]) \/ boots'[p] >= 1
      PROVE  PlacesFit'
  BY <1>0, <1>2
<1>3. ASSUME NEW p \in Pods, Boot(p)
      PROVE  PlacesFit'
  <2>1. boots'[p] >= 1
    BY <1>0, <1>3, BuildAssumption DEF Boot
  <2> QED
    BY <1>0, <1>1, <1>2, <1>3, <2>1 DEF Boot, stores
<1>4. ASSUME NEW p \in Pods,
             Warmup(p) \/ WarmupRaises(p) \/ Check(p) \/ NoSchema(p) \/ Acquire(p)
                 \/ MustWait(p) \/ WaitDone(p) \/ GiveUp(p) \/ CommitRows(p) \/ Release(p)
                 \/ Unlocked(p)
      PROVE  PlacesFit'
  <2>1. /\ UNCHANGED <<boots, upload>>
        /\ \A r \in Pods \ {p} : place'[r] = place[r] /\ todo'[r] = todo[r]
        /\ ~BuildsChannel(p)'
        /\ place[p] # "down"
    BY <1>0, <1>4 DEF Warmup, WarmupRaises, Check, NoSchema, Acquire, MustWait, WaitDone,
                      GiveUp, CommitRows, Release, Unlocked, Returns, stores
  <2> QED
    BY <1>1, <1>2, <2>1
<1>5. ASSUME NEW p \in Pods,
             NextChannel(p) \/ OpenTmp(p) \/ FillTmp(p) \/ ReplaceCorpus(p) \/ DeleteRows(p)
      PROVE  PlacesFit'
  <2>1. /\ UNCHANGED <<boots, upload>>
        /\ \A r \in Pods \ {p} : place'[r] = place[r] /\ todo'[r] = todo[r]
        /\ place[p] # "down"
    BY <1>0, <1>5 DEF NextChannel, OpenTmp, FillTmp, ReplaceCorpus, DeleteRows, stores
  <2>2. BuildsChannel(p)' => todo'[p] # <<>>
    BY <1>0, <1>5 DEF NextChannel, OpenTmp, FillTmp, ReplaceCorpus, DeleteRows
  <2> QED
    BY <1>1, <1>2, <2>1, <2>2
<1>6. ASSUME NEW p \in Pods, Crash(p)
      PROVE  PlacesFit'
  <2>1. /\ UNCHANGED boots
        /\ \A r \in Pods \ {p} : place'[r] = place[r] /\ todo'[r] = todo[r]
        /\ place'[p] = "down"
    BY <1>0, <1>6 DEF Crash, Returns
  <2>2. PICK lost : upload' = [d \in Uploaded |-> IF d \in lost THEN Ended ELSE upload[d]]
    BY <1>6 DEF Crash
  <2>3. UploadsFit'
    BY <1>0, <2>2 DEF Uploading, Ended
  <2> QED
    BY <1>2, <2>1, <2>3
<1>7. ASSUME UNCHANGED <<place, todo, boots>>, UploadsFit'
      PROVE  PlacesFit'
  BY <1>0, <1>7
<1>8. CASE Expire
  BY <1>1, <1>7, <1>8 DEF Expire, stores, pods
<1>9. ASSUME NEW d \in Uploaded, UploadStep(d)
      PROVE  PlacesFit'
  <2>1. UNCHANGED <<place, todo, boots>>
    BY <1>9 DEF UploadStep, UploadFiles, UploadRaises, UploadDelete, UploadUpsert, pods
  <2> QED
    BY <1>7, <1>9, <2>1, UploadStoresOK
<1>10. CASE UNCHANGED vars
  BY <1>1, <1>7, <1>10 DEF vars, stores, pods
<1>11. ASSUME NEW p \in Pods, Step(p)
      PROVE  PlacesFit'
  BY <1>11, <1>3, <1>4, <1>5 DEF Step
<1> QED
  BY <1>4, <1>6, <1>8, <1>9, <1>10, <1>11 DEF Next

LEMMA NextTypeInv == TypeInv /\ [Next]_vars => TypeInv'
BY NextStoresOK, NextLocksOK, NextPodsOK, NextNotesOK, NextPlacesFit DEF TypeInv

LEMMA TypeInvTypeOK == TypeInv => TypeOK
<1> SUFFICES ASSUME TypeInv
             PROVE  TypeOK
  OBVIOUS
<1>1. faults \in 0 .. MaxFaults /\ raced \subseteq Uploaded
  BY DEF TypeInv, NotesOK
<1>2. lockLost \in BOOLEAN /\ disturbed \in BOOLEAN
  BY DEF TypeInv, NotesOK
<1>3. StoresOK /\ PodsOK /\ LocksOK
  BY DEF TypeInv
<1>4. \A c \in Channels : {corpus[c], tmp[c]} \subseteq Contents
  BY <1>3 DEF StoresOK
<1>5. \A p \in Pods : rewrite[p] = None \/ rewrite[p] \in Rewrite
  BY <1>3 DEF StoresOK
<1>6. \A p \in Pods, c \in Channels : bm25[p][c] \in Contents
  BY <1>3 DEF PodsOK
<1> QED
  BY <1>1, <1>2, <1>3, <1>4, <1>5, <1>6 DEF TypeOK, StoresOK, PodsOK, LocksOK, Contents

LEMMA TypeInvariant == Spec => []TypeInv
<1>1. QED
  BY InitTypeInv, NextTypeInv, PTL DEF Spec

\* Every variable keeps its type: the lock and what a pod waits for are starts
\* of pods, the lists of channels left to build or to upload keep the order of
\* the code, and only a pod with such a list builds a channel (ensure_index,
\* add_document).
THEOREM BuildTypeCorrect == Spec => []TypeOK
<1>1. QED
  BY TypeInvariant, TypeInvTypeOK, PTL

-----------------------------------------------------------------------------
\* The inductive invariant

\* What the steps need of the variables' types.
Shape ==
    /\ DOMAIN place = Pods /\ DOMAIN todo = Pods /\ DOMAIN boots = Pods
    /\ DOMAIN loaded = Pods /\ DOMAIN seen = Pods
    /\ DOMAIN rows = Channels
    /\ DOMAIN upload = Uploaded
    /\ \A d \in Uploaded : upload[d] = [at |-> upload[d].at, left |-> upload[d].left]
    /\ lockLost \in BOOLEAN

\* Only documents that are on disk have been read or indexed.
IndexedOnDisk ==
    /\ \A p \in Pods : loaded[p] \subseteq md
    /\ \A c \in Channels : \A r \in rows[c] : r[1] \in md
    /\ Uploading \subseteq md

\* A builder builds under its lock, and alone.
HolderBuilds ==
    ~lockLost => \A p \in Pods : Building(p) => lock # None /\ lock = Start(p)

\* No build of a channel goes on beside an upload that has not met one.
UploadsApart ==
    \A d \in Uploading \ raced : \A p \in Pods : ~BuildsChannel(p)

\* Between its deletion and its insertion such an upload has no row.
UploadsClean ==
    \A d \in Uploaded \ raced : upload[d].at = "upsert" =>
        \A c \in Channels : c = UploadChannel(d) => \A r \in rows[c] : r[1] # d

\* What the builder's DELETE has not seen, it will not insert again.
DeleteSeesEnough ==
    ~lockLost =>
        \A p \in Pods : place[p] = "commit" =>
            \A c \in Channels : c = Head(todo[p]) =>
                \A r \in rows[c] \ seen[p] : r[1] \notin loaded[p] \/ r[1] \in raced

OneRowEach ==
    ~lockLost =>
        \A c \in Channels : \A r1, r2 \in rows[c] :
            r1[1] = r2[1] /\ r1[1] \notin raced => r1 = r2

BInv ==
    /\ Shape /\ IndexedOnDisk /\ HolderBuilds /\ UploadsApart /\ UploadsClean
    /\ DeleteSeesEnough /\ OneRowEach

-----------------------------------------------------------------------------
LEMMA InitBInv == Init => BInv
<1> SUFFICES ASSUME Init
             PROVE  BInv
  OBVIOUS
<1>1. Shape /\ Uploading = {}
  BY DEF Init, Shape, Uploading
<1>2. IndexedOnDisk /\ OneRowEach /\ UploadsApart
  BY <1>1 DEF Init, IndexedOnDisk, OneRowEach, UploadsApart
<1>3. \A p \in Pods : ~Building(p) /\ place[p] # "commit"
  BY DEF Init, Building, BuildsChannel
<1>4. HolderBuilds /\ DeleteSeesEnough
  BY <1>3 DEF HolderBuilds, DeleteSeesEnough
<1>5. UploadsClean
  BY DEF Init, UploadsClean
<1>6. QED
  BY <1>1, <1>2, <1>4, <1>5 DEF BInv

\* Two builders who hold the lock are one.
LEMMA OneHolder ==
    ASSUME HolderBuilds, ~lockLost, NEW p \in Pods, NEW q \in Pods, Building(p), Building(q)
    PROVE  p = q
BY DEF HolderBuilds, Start

\* Steps that leave the rows alone: uploads may end, builders may read the
\* directory when every upload under way counts as having met a build.
LEMMA QuietBInv ==
    ASSUME BInv, UNCHANGED <<md, rows>>, raced \subseteq raced', HolderBuilds',
           lockLost' \in BOOLEAN, lockLost => lockLost',
           DOMAIN place' = Pods, DOMAIN todo' = Pods, DOMAIN boots' = Pods,
           DOMAIN loaded' = Pods, DOMAIN seen' = Pods, DOMAIN upload' = Uploaded,
           \A d \in Uploaded : upload'[d] = upload[d] \/ upload'[d] = Ended,
           \A p \in Pods : loaded'[p] \subseteq md,
           \A p \in Pods : place'[p] = "commit" =>
               /\ place[p] = "commit" /\ todo'[p] = todo[p]
               /\ loaded'[p] = loaded[p] /\ seen'[p] = seen[p],
           \A p \in Pods : BuildsChannel(p)' => BuildsChannel(p) \/ Uploading \subseteq raced'
    PROVE  BInv'
<1>1. Shape'
  BY DEF BInv, Shape, Ended
<1>2. Uploading' \subseteq Uploading
  BY DEF Uploading, Ended
<1>3. IndexedOnDisk'
  BY <1>2 DEF BInv, IndexedOnDisk
<1>4. UploadsApart'
  BY <1>2 DEF BInv, UploadsApart
<1>5. UploadsClean'
  <2> SUFFICES ASSUME NEW d \in Uploaded \ raced', upload'[d].at = "upsert",
                      NEW c \in Channels, c = UploadChannel(d)', NEW r \in rows[c]
               PROVE  r[1] # d
    BY DEF UploadsClean
  <2>1. upload'[d] = upload[d]
    BY DEF Ended
  <2> QED
    BY <2>1 DEF BInv, UploadsClean, UploadChannel
<1>6. DeleteSeesEnough'
  BY DEF BInv, DeleteSeesEnough
<1>7. OneRowEach'
  BY DEF BInv, OneRowEach
<1>8. QED
  BY <1>1, <1>3, <1>4, <1>5, <1>6, <1>7 DEF BInv

\* Steps of a start-up that neither build nor touch the lock or the index.
LEMMA IdleBInv ==
    ASSUME NEW p \in Pods, BInv,
           Boot(p) \/ Warmup(p) \/ WarmupRaises(p) \/ Check(p) \/ NoSchema(p)
               \/ MustWait(p) \/ WaitDone(p) \/ GiveUp(p)
    PROVE  BInv'
<1> USE DEF stores, notes, Goto, Returns
<1>1. /\ UNCHANGED <<md, rows, upload, lock, loaded, seen, lockLost, raced>>
      /\ DOMAIN todo' = Pods /\ DOMAIN boots' = Pods /\ DOMAIN place' = Pods
      /\ \A q \in Pods : q # p =>
             place'[q] = place[q] /\ todo'[q] = todo[q] /\ boots'[q] = boots[q]
      /\ place'[p] \in {"warmup", "check", "lock", "wait", "ready", "failed"}
  BY DEF BInv, Shape, Boot, Warmup, WarmupRaises, Check, NoSchema, MustWait, WaitDone, GiveUp,
         Fault
<1>2. \A q \in Pods : Building(q)' => Building(q) /\ q # p
  BY <1>1 DEF Building, BuildsChannel
<1>3. HolderBuilds'
  BY <1>1, <1>2 DEF BInv, HolderBuilds, Start
<1>4. \A q \in Pods : BuildsChannel(q)' => BuildsChannel(q)
  BY <1>1 DEF BuildsChannel
<1>5. QED
  BY <1>1, <1>3, <1>4, QuietBInv DEF BInv, Shape, IndexedOnDisk

\* The lock is taken when it is free: nobody builds.
LEMMA AcquireBInv == ASSUME NEW p \in Pods, TypeInv, BInv, Acquire(p) PROVE BInv'
<1> USE DEF stores, notes, Goto
<1>1. /\ UNCHANGED <<md, rows, upload, todo, loaded, seen, boots, lockLost, raced>>
      /\ lock = None /\ lock' = Start(p)
      /\ place' = [place EXCEPT ![p] = "next"]
  BY DEF Acquire
<1>2. Start(p) # None
  <2>1. boots[p] \in 1 .. MaxBoots
    BY BuildAssumption DEF Acquire, TypeInv, PodsOK, PlacesFit
  <2> QED
    BY <2>1, NobodyAssumption DEF Start, Starts
<1>3. HolderBuilds'
  <2> SUFFICES ASSUME ~lockLost, NEW q \in Pods, Building(q)'
               PROVE  q = p
    BY <1>1, <1>2 DEF HolderBuilds, Start
  <2>1. ~Building(q)
    BY <1>1 DEF BInv, HolderBuilds
  <2>2. QED
    BY <2>1, <1>1 DEF Building, BuildsChannel
<1>4. \A q \in Pods : BuildsChannel(q)' => BuildsChannel(q)
  BY <1>1 DEF BInv, Shape, BuildsChannel
<1>5. QED
  BY <1>1, <1>3, <1>4, QuietBInv DEF BInv, Shape, IndexedOnDisk

\* The builder's steps that leave the rows alone.
LEMMA BuilderBInv ==
    ASSUME NEW p \in Pods, BInv,
           NextChannel(p) \/ OpenTmp(p) \/ FillTmp(p) \/ ReplaceCorpus(p)
    PROVE  BInv'
<1> USE DEF notes, Goto
<1>1. /\ UNCHANGED <<md, rows, upload, lock, seen, boots, lockLost>>
      /\ DOMAIN loaded' = Pods /\ DOMAIN todo' = Pods /\ DOMAIN place' = Pods
      /\ \A q \in Pods \ {p} :
             place'[q] = place[q] /\ todo'[q] = todo[q] /\ loaded'[q] = loaded[q]
      /\ loaded'[p] \in {loaded[p], md}
      /\ place'[p] # "commit"
      /\ Building(p)
      /\ raced \subseteq raced'
      /\ BuildsChannel(p)' => BuildsChannel(p) \/ Uploading \subseteq raced'
  BY DEF BInv, Shape, NextChannel, OpenTmp, FillTmp, ReplaceCorpus, stores, files,
         MarkdownDocuments, Building, BuildsChannel
<1>2. HolderBuilds'
  BY <1>1 DEF BInv, HolderBuilds, Building, BuildsChannel, Start
<1>3. \A q \in Pods : BuildsChannel(q)' => BuildsChannel(q) \/ Uploading \subseteq raced'
  BY <1>1 DEF BuildsChannel
<1>4. QED
  BY <1>1, <1>2, <1>3, QuietBInv DEF BInv, Shape, IndexedOnDisk

LEMMA DeleteRowsBInv == ASSUME NEW p \in Pods, BInv, DeleteRows(p) PROVE BInv'
<1> USE DEF stores, Goto
<1>1. /\ UNCHANGED <<md, rows, upload, lock, todo, loaded, boots, lockLost, raced>>
      /\ DOMAIN seen' = Pods /\ DOMAIN place' = Pods
      /\ \A q \in Pods : q # p => place'[q] = place[q] /\ seen'[q] = seen[q]
      /\ place'[p] = "commit" => seen'[p] = rows[Head(todo[p])]
      /\ Building(p) /\ BuildsChannel(p)
  BY DEF BInv, Shape, DeleteRows, Building, BuildsChannel
<1>2. Shape' /\ OneRowEach'
  BY <1>1 DEF BInv, Shape, OneRowEach
<1>3. HolderBuilds'
  BY <1>1 DEF BInv, HolderBuilds, Building, BuildsChannel, Start
<1>4. Uploading' = Uploading
  BY <1>1 DEF Uploading
<1>5. IndexedOnDisk' /\ UploadsClean'
  BY <1>1, <1>4 DEF BInv, IndexedOnDisk, UploadsClean, UploadChannel
<1>6. UploadsApart'
  BY <1>1, <1>4 DEF BInv, UploadsApart, BuildsChannel
<1>7. DeleteSeesEnough'
  BY <1>1 DEF BInv, DeleteSeesEnough
<1>8. QED
  BY <1>2, <1>3, <1>5, <1>6, <1>7 DEF BInv

LEMMA UpdatedAt ==
    ASSUME NEW f, NEW g, NEW k, NEW x, g = [f EXCEPT ![k] = x] \/ g = f
    PROVE  \A c \in DOMAIN f : g[c] = f[c] \/ (c = k /\ g[c] = x)
OBVIOUS

\* The transaction's rows are new to the channel, or it had seen the old ones.
LEMMA CommitRowsBInv == ASSUME NEW p \in Pods, BInv, CommitRows(p) PROVE BInv'
<1> DEFINE c0 == Head(todo[p])
           kept == rows[c0] \ seen[p]
           new  == loaded[p] \X {p}
<1> USE DEF Goto
<1>1. /\ UNCHANGED <<md, upload, lock, boots, lockLost, raced>>
      /\ rows' = [rows EXCEPT ![c0] = kept \cup new] \/ rows' = rows
      /\ todo' = [todo EXCEPT ![p] = Tail(todo[p])]
      /\ loaded' = [loaded EXCEPT ![p] = {}]
      /\ seen' = [seen EXCEPT ![p] = {}]
      /\ place[p] = "commit"
      /\ place' = [place EXCEPT ![p] = "next"]
  BY DEF CommitRows
<1>2. Shape'
  BY <1>1 DEF BInv, Shape
<1>3. \A r \in new : r[1] \in loaded[p]
  OBVIOUS
<1>4. \A r1, r2 \in new : r1[1] = r2[1] => r1 = r2
  OBVIOUS
<1>5. \A c \in Channels :
         rows'[c] = rows[c] \/ (c = c0 /\ rows'[c] = kept \cup new)
  BY <1>1, UpdatedAt DEF BInv, Shape
<1> HIDE DEF c0, new
<1>6. Uploading' = Uploading
  BY <1>1 DEF Uploading
<1>7. IndexedOnDisk'
  BY <1>1, <1>3, <1>5, <1>6 DEF BInv, IndexedOnDisk, Shape
<1>8. OneRowEach'
  <2> SUFFICES ASSUME ~lockLost, NEW c \in Channels, c = c0,
                      rows'[c] = kept \cup new,
                      NEW r1 \in kept \cup new, NEW r2 \in kept \cup new,
                      r1[1] = r2[1], r1[1] \notin raced
               PROVE  r1 = r2
    BY <1>1, <1>5 DEF BInv, OneRowEach
  <2>1. \A r \in kept : r[1] \notin loaded[p] \/ r[1] \in raced
    BY <1>1 DEF BInv, DeleteSeesEnough, c0
  <2>2. r1 \in kept <=> r2 \in kept
    BY <2>1, <1>3
  <2>3. CASE r1 \in kept /\ r2 \in kept
    BY <2>3 DEF BInv, OneRowEach
  <2>4. CASE r1 \in new /\ r2 \in new
    BY <2>4, <1>4
  <2>5. QED
    BY <2>2, <2>3, <2>4
<1>9. HolderBuilds'
  BY <1>1 DEF BInv, Shape, HolderBuilds, Building, BuildsChannel, Start
<1>10. DeleteSeesEnough'
  <2>1. ~lockLost => \A q \in Pods : place'[q] # "commit"
    BY <1>1, OneHolder DEF BInv, Shape, Building, BuildsChannel
  <2>2. QED
    BY <2>1, <1>1 DEF DeleteSeesEnough
<1>11. UploadsApart'
  BY <1>1, <1>6 DEF BInv, UploadsApart, BuildsChannel, Shape
<1>12. UploadsClean'
  <2> SUFFICES ASSUME NEW d \in Uploaded \ raced, upload[d].at = "upsert"
               PROVE  FALSE
    BY <1>1 DEF UploadsClean
  <2>1. d \in Uploading
    BY DEF Uploading
  <2> QED
    BY <1>1, <2>1 DEF BInv, UploadsApart, BuildsChannel
<1>13. QED
  BY <1>2, <1>7, <1>8, <1>9, <1>10, <1>11, <1>12 DEF BInv

LEMMA ReleaseBInv == ASSUME NEW p \in Pods, BInv, Release(p) PROVE BInv'
<1> USE DEF stores, Goto, Returns
<1>1. /\ UNCHANGED <<md, rows, upload, seen, boots, raced>>
      /\ DOMAIN todo' = Pods /\ DOMAIN loaded' = Pods /\ DOMAIN place' = Pods
      /\ place[p] = "release" /\ place'[p] \in {"ready", "failed"}
      /\ \A q \in Pods : q # p =>
             place'[q] = place[q] /\ todo'[q] = todo[q] /\ loaded'[q] = loaded[q]
      /\ loaded'[p] = {}
      /\ lockLost' \in BOOLEAN
      /\ lockLost => lockLost'
  BY DEF BInv, Shape, Release
<1>2. \A q \in Pods : Building(q)' => Building(q) /\ q # p
  BY <1>1 DEF Building, BuildsChannel
<1>3. ~lockLost => \A q \in Pods : ~Building(q)'
  BY <1>1, <1>2, OneHolder DEF BInv, Building
<1>4. HolderBuilds'
  BY <1>1, <1>3 DEF HolderBuilds
<1>5. \A q \in Pods : BuildsChannel(q)' => BuildsChannel(q)
  BY <1>1 DEF BuildsChannel
<1>6. QED
  BY <1>1, <1>4, <1>5, QuietBInv DEF BInv, Shape, IndexedOnDisk

LEMMA ExpireBInv == ASSUME BInv, Expire PROVE BInv'
<1> USE DEF stores, pods
<1>1. /\ UNCHANGED <<md, rows, upload, place, todo, loaded, seen, boots, raced>>
      /\ lockLost' = (lockLost \/ LosesLock(lock))
  BY DEF Expire
<1>2. lockLost' \in BOOLEAN /\ (lockLost => lockLost')
  BY <1>1 DEF BInv, Shape
<1>3. ~lockLost' => \A q \in Pods : ~Building(q)
  BY <1>1 DEF BInv, HolderBuilds, LosesLock, Builders
<1>4. HolderBuilds'
  BY <1>1, <1>3 DEF HolderBuilds, Building, BuildsChannel
<1>5. \A q \in Pods : BuildsChannel(q)' => BuildsChannel(q)
  BY <1>1 DEF BuildsChannel
<1>6. QED
  BY <1>1, <1>2, <1>4, <1>5, QuietBInv DEF BInv, Shape, IndexedOnDisk

\* A build without the lock is the exception the property names.
LEMMA UnlockedBInv == ASSUME NEW p \in Pods, BInv, Unlocked(p) PROVE BInv'
<1>1. /\ UNCHANGED <<md, rows, upload, todo, loaded, seen, boots, raced>>
      /\ place' = [place EXCEPT ![p] = "next"]
      /\ lockLost' = TRUE
  BY DEF Unlocked, stores, Goto
<1>2. HolderBuilds'
  BY <1>1 DEF HolderBuilds
<1>3. \A q \in Pods : BuildsChannel(q)' => BuildsChannel(q)
  BY <1>1 DEF BInv, Shape, BuildsChannel
<1>4. QED
  BY <1>1, <1>2, <1>3, QuietBInv DEF BInv, Shape, IndexedOnDisk

LEMMA CrashBInv == ASSUME NEW p \in Pods, BInv, Crash(p) PROVE BInv'
<1> USE DEF Goto, Returns
<1>1. /\ UNCHANGED <<md, rows, lock, boots, lockLost, raced>>
      /\ DOMAIN todo' = Pods /\ DOMAIN loaded' = Pods /\ DOMAIN place' = Pods
      /\ DOMAIN seen' = Pods /\ DOMAIN upload' = Uploaded
      /\ \A d \in Uploaded : upload'[d] = upload[d] \/ upload'[d] = Ended
      /\ place'[p] = "down" /\ loaded'[p] = {}
      /\ \A q \in Pods : q # p =>
             /\ place'[q] = place[q] /\ todo'[q] = todo[q]
             /\ loaded'[q] = loaded[q] /\ seen'[q] = seen[q]
  BY DEF BInv, Shape, Crash
<1>2. \A q \in Pods : Building(q)' => Building(q)
  BY <1>1 DEF Building, BuildsChannel
<1>3. HolderBuilds'
  BY <1>1, <1>2 DEF BInv, HolderBuilds, Start
<1>4. \A q \in Pods : BuildsChannel(q)' => BuildsChannel(q)
  BY <1>1 DEF BuildsChannel
<1>5. QED
  BY <1>1, <1>3, <1>4, QuietBInv DEF BInv, Shape, IndexedOnDisk

-----------------------------------------------------------------------------
\* The steps of an upload

LEMMA UploadFilesBInv == ASSUME NEW d \in Uploaded, BInv, UploadFiles(d) PROVE BInv'
<1>1. /\ UNCHANGED <<rows, lock, place, todo, loaded, seen, boots, lockLost>>
      /\ md' = md \cup {d}
      /\ upload' = [upload EXCEPT ![d] = [at |-> "delete", left |-> AllChannels]]
      /\ raced' = IF \E q \in Pods : BuildsChannel(q) THEN raced \cup {d} ELSE raced
  BY DEF UploadFiles
<1>2. Shape'
  BY <1>1 DEF BInv, Shape
<1>3. Uploading' = Uploading \cup {d}
  BY <1>1 DEF BInv, Shape, Uploading
<1>4. raced \subseteq raced'
  BY <1>1
<1>5. IndexedOnDisk' /\ OneRowEach' /\ DeleteSeesEnough'
  BY <1>1, <1>3, <1>4 DEF BInv, IndexedOnDisk, OneRowEach, DeleteSeesEnough
<1>6. HolderBuilds'
  BY <1>1 DEF BInv, HolderBuilds, Building, BuildsChannel, Start
<1>7. UploadsApart'
  BY <1>1, <1>3 DEF BInv, UploadsApart, BuildsChannel
<1>8. UploadsClean'
  BY <1>1, <1>4 DEF BInv, Shape, UploadsClean, UploadChannel
<1>9. QED
  BY <1>2, <1>5, <1>6, <1>7, <1>8 DEF BInv

LEMMA UploadRaisesBInv == ASSUME NEW d \in Uploaded, BInv, UploadRaises(d) PROVE BInv'
<1>1. /\ UNCHANGED <<md, rows, lock, place, todo, loaded, seen, boots, lockLost, raced>>
      /\ upload' = [upload EXCEPT ![d] = Ended]
  BY DEF UploadRaises, pods
<1>2. HolderBuilds'
  BY <1>1 DEF BInv, HolderBuilds, Building, BuildsChannel, Start
<1>3. \A q \in Pods : BuildsChannel(q)' => BuildsChannel(q)
  BY <1>1 DEF BuildsChannel
<1>4. \A e \in Uploaded : upload'[e] = upload[e] \/ upload'[e] = Ended
  BY <1>1 DEF BInv, Shape
<1>5. QED
  BY <1>1, <1>2, <1>3, <1>4, QuietBInv DEF BInv, Shape, IndexedOnDisk

\* The rows of the document go, or its deletion has failed.
LEMMA UploadDeleteBInv == ASSUME NEW d \in Uploaded, BInv, UploadDelete(d) PROVE BInv'
<1> DEFINE c0 == UploadChannel(d)
           kept == {r \in rows[c0] : r[1] # d}
<1>1. /\ UNCHANGED <<md, lock, place, todo, loaded, seen, boots, lockLost>>
      /\ upload' = [upload EXCEPT ![d].at = "upsert"]
      /\ upload[d].at = "delete"
      /\ \/ rows' = [rows EXCEPT ![c0] = kept] /\ raced' = raced
         \/ rows' = rows /\ raced' = raced \cup {d}
  BY DEF UploadDelete, pods
<1>2. \A c \in Channels : rows'[c] \subseteq rows[c]
  BY <1>1 DEF BInv, Shape
<1>3. Shape'
  BY <1>1 DEF BInv, Shape
<1>4. Uploading' = Uploading /\ raced \subseteq raced'
  BY <1>1 DEF BInv, Shape, Uploading
<1>5. IndexedOnDisk' /\ OneRowEach' /\ DeleteSeesEnough'
  BY <1>1, <1>2, <1>4 DEF BInv, IndexedOnDisk, OneRowEach, DeleteSeesEnough
<1>6. HolderBuilds'
  BY <1>1 DEF BInv, HolderBuilds, Building, BuildsChannel, Start
<1>7. UploadsApart'
  BY <1>1, <1>4 DEF BInv, UploadsApart, BuildsChannel
<1>8. UploadsClean'
  <2> SUFFICES ASSUME NEW e \in Uploaded \ raced', upload'[e].at = "upsert",
                      NEW c \in Channels, c = UploadChannel(e)', NEW r \in rows'[c]
               PROVE  r[1] # e
    BY DEF UploadsClean
  <2>1. CASE e # d
    <3>1. upload'[e] = upload[e]
      BY <1>1, <2>1
    <3> QED
      BY <1>2, <1>4, <3>1 DEF BInv, UploadsClean, UploadChannel
  <2>2. CASE e = d
    <3>1. upload'[d].left = upload[d].left
      BY <1>1 DEF BInv, Shape
    <3>2. c = c0
      BY <2>2, <3>1 DEF UploadChannel
    <3>3. rows' = [rows EXCEPT ![c0] = kept]
      BY <1>1, <2>2
    <3> QED
      BY <2>2, <3>2, <3>3 DEF BInv, Shape
  <2> QED
    BY <2>1, <2>2
<1>9. QED
  BY <1>3, <1>5, <1>6, <1>7, <1>8 DEF BInv

\* An upload that has met no build inserts the only row of its document.
LEMMA UploadUpsertBInv == ASSUME NEW d \in Uploaded, BInv, UploadUpsert(d) PROVE BInv'
<1> DEFINE c0 == UploadChannel(d)
           row == <<d, None>>
<1>1. /\ UNCHANGED <<md, lock, place, todo, loaded, seen, boots, lockLost, raced>>
      /\ upload[d].at = "upsert"
      /\ rows' = [rows EXCEPT ![c0] = rows[c0] \cup {row}] \/ rows' = rows
  BY DEF UploadUpsert, pods
<1>2. PICK u : /\ upload' = [upload EXCEPT ![d] = u]
               /\ u.at \in {"ended", "delete"} /\ u = [at |-> u.at, left |-> u.left]
  <2>1. CASE Len(upload[d].left) = 1
    <3>1. upload' = [upload EXCEPT ![d] = Ended]
      BY <2>1 DEF UploadUpsert
    <3>2. Ended.at = "ended" /\ Ended = [at |-> Ended.at, left |-> Ended.left]
      BY DEF Ended
    <3> QED
      BY <3>1, <3>2
  <2>2. CASE Len(upload[d].left) # 1
    <3>1. PICK w : w = [at |-> "delete", left |-> Tail(upload[d].left)]
      OBVIOUS
    <3>2. upload' = [upload EXCEPT ![d] = w]
      BY <2>2, <3>1 DEF UploadUpsert
    <3> QED
      BY <3>1, <3>2
  <2> QED
    BY <2>1, <2>2
<1>3. \A c \in Channels :
          rows'[c] = rows[c] \/ (c = c0 /\ rows'[c] = rows[c] \cup {row})
  BY <1>1, UpdatedAt DEF BInv, Shape
<1>4. row[1] = d
  OBVIOUS
<1> HIDE DEF row
<1>5. Shape'
  BY <1>1, <1>2 DEF BInv, Shape
<1>6. Uploading' \subseteq Uploading /\ d \in Uploading
  BY <1>1, <1>2 DEF BInv, Shape, Uploading
<1>7. IndexedOnDisk'
  BY <1>1, <1>3, <1>4, <1>6 DEF BInv, IndexedOnDisk
<1>8. HolderBuilds'
  BY <1>1 DEF BInv, HolderBuilds, Building, BuildsChannel, Start
<1>9. UploadsApart'
  BY <1>1, <1>6 DEF BInv, UploadsApart, BuildsChannel
<1>10. UploadsClean'
  <2> SUFFICES ASSUME NEW e \in Uploaded \ raced, upload'[e].at = "upsert",
                      NEW c \in Channels, c = UploadChannel(e)', NEW r \in rows'[c]
               PROVE  r[1] # e
    BY <1>1 DEF UploadsClean
  <2>1. e # d
    BY <1>2 DEF BInv, Shape
  <2>2. upload'[e] = upload[e]
    BY <1>2, <2>1
  <2>3. r \in rows[c] \/ r = row
    BY <1>3
  <2> QED
    BY <1>4, <2>1, <2>2, <2>3 DEF BInv, UploadsClean, UploadChannel
<1>11. DeleteSeesEnough'
  <2> SUFFICES ASSUME ~lockLost, NEW p \in Pods, place[p] = "commit",
                      NEW c \in Channels, c = Head(todo[p]), NEW r \in rows'[c] \ seen[p]
               PROVE  r[1] \notin loaded[p] \/ r[1] \in raced
    BY <1>1 DEF DeleteSeesEnough
  <2>1. BuildsChannel(p)
    BY DEF BuildsChannel
  <2>2. d \in raced
    BY <1>6, <2>1 DEF BInv, UploadsApart
  <2>3. r \in rows[c] \/ r = row
    BY <1>3
  <2> QED
    BY <1>4, <2>2, <2>3 DEF BInv, DeleteSeesEnough
<1>12. OneRowEach'
  <2> SUFFICES ASSUME ~lockLost, NEW c \in Channels, NEW r1 \in rows'[c], NEW r2 \in rows'[c],
                      r1[1] = r2[1], r1[1] \notin raced
               PROVE  r1 = r2
    BY <1>1 DEF OneRowEach
  <2>1. d \notin raced => c # c0 \/ \A r \in rows[c] : r[1] # d
    BY <1>1 DEF BInv, UploadsClean
  <2>2. CASE r1 \in rows[c] /\ r2 \in rows[c]
    BY <2>2 DEF BInv, OneRowEach
  <2>3. CASE c = c0 /\ d \notin raced
    BY <1>3, <1>4, <2>1, <2>2, <2>3
  <2> QED
    BY <1>3, <1>4, <2>2, <2>3
<1>13. QED
  BY <1>5, <1>7, <1>8, <1>9, <1>10, <1>11, <1>12 DEF BInv

-----------------------------------------------------------------------------
LEMMA NextBInv == TypeInv /\ BInv /\ [Next]_vars => BInv'
<1> SUFFICES ASSUME TypeInv, BInv, [Next]_vars
             PROVE  BInv'
  OBVIOUS
<1>1. ASSUME NEW p \in Pods, Step(p)
      PROVE  BInv'
  BY <1>1, IdleBInv, AcquireBInv, BuilderBInv, DeleteRowsBInv, CommitRowsBInv,
     ReleaseBInv DEF Step
<1>2. ASSUME NEW p \in Pods, Unlocked(p) \/ Crash(p)
      PROVE  BInv'
  BY <1>2, UnlockedBInv, CrashBInv
<1>3. ASSUME NEW d \in Uploaded, UploadStep(d)
      PROVE  BInv'
  BY <1>3, UploadFilesBInv, UploadRaisesBInv, UploadDeleteBInv, UploadUpsertBInv
     DEF UploadStep
<1>4. CASE UNCHANGED vars
  <2>1. /\ UNCHANGED <<md, rows, upload, lock, place, todo, loaded, seen, boots, lockLost>>
        /\ UNCHANGED raced
    BY <1>4 DEF vars, stores, pods, notes
  <2>2. HolderBuilds'
    BY <2>1 DEF BInv, HolderBuilds, Building, BuildsChannel, Start
  <2>3. \A q \in Pods : BuildsChannel(q)' => BuildsChannel(q)
    BY <2>1 DEF BuildsChannel
  <2> QED
    BY <2>1, <2>2, <2>3, QuietBInv DEF BInv, Shape, IndexedOnDisk
<1>5. QED
  BY <1>1, <1>2, <1>3, <1>4, ExpireBInv DEF Next

\* The invariant holds in every behaviour.
THEOREM BuildInvariant == Spec => []BInv
<1>1. QED
  BY InitBInv, NextBInv, TypeInvariant, PTL DEF Spec

LEMMA BInvOneBuilder == BInv => OneBuilder
<1> SUFFICES ASSUME BInv, ~lockLost
             PROVE  /\ Cardinality(Builders) <= 1
                    /\ \A c \in Channels : \A r1, r2 \in rows[c] :
                           r1[1] = r2[1] /\ r1[1] \notin raced => r1 = r2
  BY DEF OneBuilder
<1>1. Builders = {} \/ \E p \in Pods : Builders = {p}
  BY OneHolder DEF BInv, Builders
<1>2. Cardinality(Builders) <= 1
  <2>1. CASE Builders = {}
    BY <2>1, FS_EmptySet
  <2>2. CASE \E p \in Pods : Builders = {p}
    <3>1. PICK p \in Pods : Builders = {p}
      BY <2>2
    <3>2. Cardinality({p}) = 1
      BY FS_Singleton
    <3>3. QED
      BY <3>1, <3>2
  <2>3. QED
    BY <1>1, <2>1, <2>2
<1>3. QED
  BY <1>2 DEF BInv, OneRowEach

\* The index lock of ensure_index: as long as it neither expires under its
\* holder nor is given up for Redis, there is one builder at a time, and the
\* transactions of replace_channel leave one row for each document, but for
\* those whose upload (add_document) met the build or could not delete.
THEOREM BuilderAlone == Spec => []OneBuilder
<1>1. QED
  BY BuildInvariant, BInvOneBuilder, PTL

-----------------------------------------------------------------------------
\* What a pod builds, it completes

\* Somebody has installed the corpus file, or still writes to what he installed.
Written(c) == corpus[c] = md \/ Open(c, "corpus") # {}
Complete(c) == DocsIn(rows[c]) = md /\ Written(c)
Listed(p, c) == \E i \in 1 .. Len(todo[p]) : todo[p][i] = c
\* Somebody is at it, or there is nothing left to do.
Covered == (\E p \in Pods : Building(p)) \/ \A c \in Channels : Complete(c)

\* What is open is being written by a builder, and all who have a file open write
\* the same to it.
FilesInv ==
    /\ \A d \in Uploaded : upload[d].at = "none"
    /\ \A p \in Pods :
           /\ rewrite[p] # None =>
                  /\ place[p] = "fill" /\ rewrite[p].channel = Head(todo[p])
                  /\ rewrite[p].agreed = TRUE
           /\ place[p] = "fill" => rewrite[p] # None
    /\ \A c \in Channels : tmp[c] \in {None, md} \/ Open(c, "tmp") # {}

BuildInv ==
    /\ \A c \in Channels : rows[c] # {} => Complete(c)
    /\ \A p \in Pods :
           /\ BuildsChannel(p) => loaded[p] = md
           /\ place[p] \in {"rows", "commit"} => Written(Head(todo[p]))
           /\ place[p] = "release" => todo[p] = <<>>
           /\ Building(p) \/ place[p] \in {"lock", "wait"} =>
                  \A c \in Channels : Complete(c) \/ Listed(p, c)
           /\ place[p] \in {"wait", "ready"} => Covered
    /\ lock # None => Covered
CompleteInv == disturbed \/ (FilesInv /\ BuildInv)

-----------------------------------------------------------------------------
\* The index is complete

LEMMA InitCompleteInv == Init => CompleteInv
<1> SUFFICES ASSUME Init
             PROVE  FilesInv /\ BuildInv
  BY DEF CompleteInv
<1>1. \A c \in Channels : rows[c] = {}
  BY DEF Init
<1>2. \A p \in Pods : place[p] = "down"
  BY DEF Init
<1>3. lock = None
  BY DEF Init
<1>4. FilesInv
  BY <1>2 DEF Init, FilesInv
<1> QED
  BY <1>1, <1>2, <1>3, <1>4 DEF BuildInv, BuildsChannel, Building

\* What BuildInv says of one pod.
PodFits(p) ==
    /\ BuildsChannel(p) => loaded[p] = md
    /\ place[p] \in {"rows", "commit"} => Written(Head(todo[p]))
    /\ place[p] = "release" => todo[p] = <<>>
    /\ Building(p) \/ place[p] \in {"lock", "wait"} =>
           \A c \in Channels : Complete(c) \/ Listed(p, c)
Done == \A c \in Channels : Complete(c)

\* A step of pod p: what is complete stays so, the others are where they were,
\* and p neither stops building nor takes the index for built before its time.
LEMMA BuildStep ==
    ASSUME TypeInv, BuildInv, NEW p \in Pods, md' = md,
           \A c \in Channels : Complete(c) => Complete(c)',
           \A c \in Channels : rows'[c] # {} => rows[c] # {} \/ Complete(c)',
           \A c \in Channels : Written(c) => Written(c)',
           \A q \in Pods \ {p} :
               place'[q] = place[q] /\ todo'[q] = todo[q] /\ loaded'[q] = loaded[q],
           PodFits(p)',
           place'[p] \in {"wait", "ready"} => Covered \/ Done',
           lock' # None => lock # None \/ Building(p)',
           Building(p) => Building(p)' \/ Done'
    PROVE  BuildInv'
<1>1. \A c \in Channels : rows'[c] # {} => Complete(c)'
  BY DEF BuildInv
<1>2. Covered => Covered'
  <2>1. CASE \E q \in Pods : Building(q)
    <3>1. PICK q \in Pods : Building(q)
      BY <2>1
    <3>2. CASE q = p
      BY <3>1, <3>2 DEF Covered, Done
    <3>3. CASE q # p
      BY <3>1, <3>3 DEF Covered, Building, BuildsChannel
    <3> QED
      BY <3>2, <3>3
  <2>2. CASE Done
    BY <2>2 DEF Covered, Done
  <2> QED
    BY <2>1, <2>2 DEF Covered, Done
<1>3. Done' => Covered'
  BY DEF Covered, Done
<1>4. ASSUME NEW q \in Pods, q # p
      PROVE  PodFits(q)' /\ (place'[q] \in {"wait", "ready"} => Covered)
  <2>1. place'[q] = place[q] /\ todo'[q] = todo[q] /\ loaded'[q] = loaded[q]
    BY <1>4
  <2>2. BuildsChannel(q) => Head(todo[q]) \in Channels
    BY TailOfList DEF TypeInv, PodsOK, PlacesFit
  <2>3. PodFits(q)'
    BY <2>1, <2>2 DEF BuildInv, PodFits, BuildsChannel, Building, Listed
  <2> QED
    BY <2>1, <2>3 DEF BuildInv
<1>5. ASSUME NEW q \in Pods
      PROVE  PodFits(q)' /\ (place'[q] \in {"wait", "ready"} => Covered')
  BY <1>2, <1>3, <1>4
<1>6. lock' # None => Covered'
  <2>1. Building(p)' => Covered'
    BY DEF Covered
  <2> QED
    BY <1>2, <2>1 DEF BuildInv
<1> QED
  BY <1>1, <1>5, <1>6 DEF BuildInv, PodFits

\* While no file is written, nothing happens to the files.
LEMMA QuietFiles ==
    ASSUME FilesInv, UNCHANGED <<md, files, upload>>,
           \A p \in Pods : place[p] = "fill" \/ place'[p] = "fill" =>
               place'[p] = place[p] /\ todo'[p] = todo[p]
    PROVE  FilesInv'
BY DEF FilesInv, files, Open

\* Steps of a pod that leave the stores and the lock alone.
LEMMA QuietBuildStep ==
    ASSUME TypeInv, BuildInv, NEW p \in Pods, UNCHANGED <<md, rows, files, lock>>,
           \A q \in Pods \ {p} :
               place'[q] = place[q] /\ todo'[q] = todo[q] /\ loaded'[q] = loaded[q],
           PodFits(p)',
           place'[p] \in {"wait", "ready"} => Covered \/ Done',
           Building(p) => Building(p)' \/ Done'
    PROVE  BuildInv'
<1>1. \A c \in Channels : Written(c) <=> Written(c)'
  BY DEF Written, files, Open
<1>2. \A c \in Channels : Complete(c) <=> Complete(c)'
  BY <1>1 DEF Complete
<1> QED
  BY <1>1, <1>2, BuildStep

LEMMA StartBuildInv ==
    ASSUME NEW p \in Pods, TypeInv, BuildInv,
           Boot(p) \/ Warmup(p) \/ WarmupRaises(p) \/ Check(p) \/ MustWait(p)
               \/ WaitDone(p) \/ GiveUp(p)
    PROVE  BuildInv'
<1> USE DEF Goto, TypeInv, PodsOK
<1>1. UNCHANGED <<md, rows, files, lock>>
  BY DEF Boot, Warmup, WarmupRaises, Check, MustWait, WaitDone, GiveUp, stores
<1>2. \A q \in Pods \ {p} :
          place'[q] = place[q] /\ todo'[q] = todo[q] /\ loaded'[q] = loaded[q]
  BY DEF Boot, Warmup, WarmupRaises, Check, MustWait, WaitDone, GiveUp, Returns
<1>3. ~Building(p)
  BY DEF Boot, Warmup, WarmupRaises, Check, MustWait, WaitDone, GiveUp, Building,
         BuildsChannel
<1>4. \A c \in Channels : Complete(c)' <=> Complete(c)
  BY <1>1 DEF Complete, Written, files, Open
<1>5. \A c \in Channels : Ready(c) => Complete(c)
  BY DEF BuildInv, Ready
<1>6. CASE Boot(p) \/ Warmup(p) \/ WarmupRaises(p)
  <2>1. place'[p] \in {"warmup", "check", "failed"}
    BY <1>6 DEF Boot, Warmup, WarmupRaises
  <2>2. PodFits(p)'
    BY <2>1 DEF PodFits, BuildsChannel, Building
  <2> QED
    BY <1>1, <1>2, <1>3, <2>1, <2>2, QuietBuildStep
<1>7. CASE Check(p)
  <2> DEFINE q == Unready(AllChannels[1]) \o Unready(AllChannels[2])
  <2>1. \A c \in Channels : Ready(c) \/ \E i \in 1 .. Len(q) : q[i] = c
    BY ListOfUnready
  <2>2. todo' = [todo EXCEPT ![p] = q]
    BY <1>7 DEF Check
  <2> HIDE DEF q
  <2>3. todo'[p] = q
    BY <2>2
  <2>4. \A c \in Channels : Complete(c)' \/ Listed(p, c)'
    BY <1>4, <1>5, <2>1, <2>3 DEF Listed
  <2>5. place'[p] = "lock" \/ (place'[p] = "ready" /\ \A c \in Channels : Ready(c))
    BY <1>7 DEF Check
  <2>6. PodFits(p)'
    BY <2>4, <2>5 DEF PodFits, BuildsChannel, Building
  <2>7. place'[p] \in {"wait", "ready"} => Done'
    BY <1>4, <1>5, <2>5 DEF Done
  <2> QED
    BY <1>1, <1>2, <1>3, <2>6, <2>7, QuietBuildStep
<1>8. CASE MustWait(p)
  <2>1. place[p] = "lock" /\ place'[p] = "wait" /\ todo'[p] = todo[p] /\ Covered
    BY <1>8 DEF MustWait, BuildInv
  <2>2. PodFits(p)'
    BY <1>4, <2>1 DEF PodFits, BuildInv, BuildsChannel, Building, Listed
  <2> QED
    BY <1>1, <1>2, <1>3, <2>1, <2>2, QuietBuildStep
<1>9. CASE WaitDone(p) \/ GiveUp(p)
  <2>1. place'[p] = "ready" /\ Covered
    BY <1>9 DEF WaitDone, GiveUp, BuildInv
  <2>2. PodFits(p)'
    BY <2>1 DEF PodFits, BuildsChannel, Building
  <2> QED
    BY <1>1, <1>2, <1>3, <2>1, <2>2, QuietBuildStep
<1> QED
  BY <1>6, <1>7, <1>8, <1>9

\* With the lock or, when Redis is gone, without it.
LEMMA EnterBuildInv ==
    ASSUME NEW p \in Pods, TypeInv, BuildInv, Acquire(p) \/ Unlocked(p)
    PROVE  BuildInv'
<1> USE DEF Goto, TypeInv, PodsOK
<1>1. /\ UNCHANGED <<md, rows, files>> /\ place[p] = "lock" /\ place'[p] = "next"
      /\ todo'[p] = todo[p]
  BY DEF Acquire, Unlocked, stores
<1>2. \A q \in Pods \ {p} :
          place'[q] = place[q] /\ todo'[q] = todo[q] /\ loaded'[q] = loaded[q]
  BY DEF Acquire, Unlocked
<1>3. \A c \in Channels : /\ Written(c)' <=> Written(c)
                          /\ Complete(c)' <=> Complete(c)
  BY <1>1 DEF Complete, Written, files, Open
<1>4. Building(p)'
  BY <1>1 DEF Building
<1>5. PodFits(p)'
  BY <1>1, <1>3 DEF PodFits, BuildInv, BuildsChannel, Listed
<1> QED
  BY <1>1, <1>2, <1>3, <1>4, <1>5, BuildStep

\* The head of the list taken, the others stay listed.
LEMMA ListedTail ==
    ASSUME NEW p \in Pods, TypeInv, todo[p] # <<>>, todo'[p] = Tail(todo[p])
    PROVE  \A c \in Channels : Listed(p, c) => c = Head(todo[p]) \/ Listed(p, c)'
<1>1. todo[p] \in ChannelLists
  BY DEF TypeInv, PodsOK
<1>2. \A c : (\E i \in 1 .. Len(todo[p]) : todo[p][i] = c) =>
             c = Head(todo[p]) \/ \E i \in 1 .. Len(Tail(todo[p])) : Tail(todo[p])[i] = c
  BY <1>1, TailOfList
<1> QED
  BY <1>2 DEF Listed

LEMMA NextChannelBuildInv ==
    ASSUME NEW p \in Pods, TypeInv, BuildInv, NextChannel(p)
    PROVE  BuildInv'
<1> USE DEF Goto, TypeInv, PodsOK
<1>1. UNCHANGED <<md, rows, files, lock>> /\ place[p] = "next"
  BY DEF NextChannel, stores
<1>2. \A q \in Pods \ {p} :
          place'[q] = place[q] /\ todo'[q] = todo[q] /\ loaded'[q] = loaded[q]
  BY DEF NextChannel
<1>3. \A c \in Channels : Complete(c)' <=> Complete(c)
  BY <1>1 DEF Complete, Written, files, Open
<1>4. \A c \in Channels : Complete(c) \/ Listed(p, c)
  BY <1>1 DEF BuildInv, Building
<1>5. CASE todo[p] = <<>> /\ place'[p] = "release" /\ todo'[p] = todo[p]
  <2>1. \A c \in Channels : ~Listed(p, c)
    BY <1>5 DEF Listed
  <2>2. \A c \in Channels : Complete(c)'
    BY <1>3, <1>4, <2>1
  <2>3. PodFits(p)'
    BY <1>5, <2>2 DEF PodFits, BuildsChannel
  <2> QED
    BY <1>1, <1>2, <1>5, <2>2, <2>3, QuietBuildStep DEF Done
<1>6. CASE todo[p] # <<>> /\ Ready(Head(todo[p])) /\ todo'[p] = Tail(todo[p])
           /\ place'[p] = "next"
  <2>1. Complete(Head(todo[p]))
    BY <1>6, TailOfList DEF BuildInv, Ready
  <2>2. \A c \in Channels : Listed(p, c) => c = Head(todo[p]) \/ Listed(p, c)'
    BY <1>6, ListedTail
  <2>3. PodFits(p)'
    BY <1>3, <1>4, <1>6, <2>1, <2>2 DEF PodFits, BuildsChannel
  <2>4. Building(p)'
    BY <1>6 DEF Building
  <2> QED
    BY <1>1, <1>2, <1>6, <2>3, <2>4, QuietBuildStep
<1>7. CASE todo[p] # <<>> /\ loaded'[p] = md /\ place'[p] = "corpus" /\ todo'[p] = todo[p]
  <2>1. PodFits(p)'
    BY <1>1, <1>3, <1>4, <1>7 DEF PodFits, Listed, BuildsChannel
  <2>2. Building(p)'
    BY <1>7 DEF Building, BuildsChannel
  <2> QED
    BY <1>1, <1>2, <1>7, <2>1, <2>2, QuietBuildStep
<1>8. \/ todo[p] = <<>> /\ place'[p] = "release" /\ todo'[p] = todo[p]
      \/ todo[p] # <<>> /\ Ready(Head(todo[p])) /\ todo'[p] = Tail(todo[p])
             /\ place'[p] = "next"
      \/ todo[p] # <<>> /\ loaded'[p] = md /\ place'[p] = "corpus" /\ todo'[p] = todo[p]
  BY DEF NextChannel, MarkdownDocuments
<1> QED
  BY <1>5, <1>6, <1>7, <1>8

\* A builder opens, fills and renames its .tmp file.
LEMMA FilesOfBuilder ==
    ASSUME NEW p \in Pods, TypeInv, FilesInv, BuildInv, ~disturbed',
           OpenTmp(p) \/ FillTmp(p) \/ ReplaceCorpus(p)
    PROVE  /\ FilesInv'
           /\ \A c \in Channels : Written(c) => Written(c)'
           /\ ReplaceCorpus(p) => Written(Head(todo[p]))'
<1> USE DEF Goto
<1> DEFINE c0 == Head(todo[p])
<1>1. /\ c0 \in Channels /\ BuildsChannel(p)
      /\ \A q \in Pods : BuildsChannel(q) => loaded[q] = md
  BY TailOfList DEF TypeInv, PodsOK, PlacesFit, OpenTmp, FillTmp, ReplaceCorpus,
     BuildsChannel, BuildInv
<1>2. UNCHANGED <<md, upload, todo, loaded>>
  BY DEF OpenTmp, FillTmp, ReplaceCorpus
<1>3. ~Doubtful /\ \A x : Unsure(x) = x
  BY DEF FilesInv, Doubtful, Unsure
<1>4. \A q \in Pods : rewrite[q] # None =>
          /\ rewrite[q] \in Rewrite /\ place[q] = "fill" /\ loaded[q] = md
          /\ rewrite[q].channel = Head(todo[q]) /\ rewrite[q].agreed = TRUE
  BY <1>1 DEF TypeInv, StoresOK, FilesInv, BuildsChannel
<1>5. /\ tmp \in [Channels -> Contents] /\ corpus \in [Channels -> Contents]
      /\ rewrite \in [Pods -> Rewrite \cup {None}]
      /\ place \in [Pods -> Places]
  BY DEF TypeInv, StoresOK, PodsOK
<1>6. CASE OpenTmp(p)
  <2> DEFINE others == Open(c0, "tmp")
             opened == [channel |-> c0, file |-> "tmp", agreed |-> TRUE]
  <2>1. /\ tmp' = [tmp EXCEPT ![c0] = Torn] /\ corpus' = corpus
        /\ place[p] = "corpus" /\ place' = [place EXCEPT ![p] = "fill"]
    BY <1>6 DEF OpenTmp
  <2>2. \A q \in others : q \in Pods /\ loaded[q] = loaded[p]
    BY <1>1, <1>4 DEF Open
  <2>3. rewrite' = [q \in Pods |->
            IF q = p THEN [channel |-> c0, file |-> "tmp",
                           agreed |-> \A r \in others : loaded[r] = loaded[p]]
            ELSE IF q \in others
            THEN [rewrite[q] EXCEPT !.agreed = @ /\ loaded[q] = loaded[p]]
            ELSE rewrite[q]]
    BY <1>6, Zenon DEF OpenTmp
  <2>4. rewrite'[p] = opened
    <3>1. (\A r \in others : loaded[r] = loaded[p]) = TRUE
      BY <2>2
    <3> HIDE DEF others
    <3> QED
      BY <2>3, <3>1
  <2>5. ASSUME NEW q \in Pods, q # p
        PROVE  rewrite'[q] = rewrite[q]
    <3>1. CASE q \in others
      <4>1. PICK r \in Rewrite : r = rewrite[q] /\ r.agreed = TRUE
        BY <1>4, <3>1 DEF Open
      <4>2. (r.agreed /\ loaded[q] = loaded[p]) = TRUE
        BY <2>2, <3>1, <4>1
      <4>3. rewrite'[q] = [r EXCEPT !.agreed = (r.agreed /\ loaded[q] = loaded[p])]
        BY <2>3, <2>5, <3>1, <4>1, Zenon
      <4>4. [r EXCEPT !.agreed = TRUE] = r
        BY <4>1 DEF Rewrite
      <4> QED
        BY <4>1, <4>2, <4>3, <4>4
    <3>2. CASE q \notin others
      BY <2>3, <2>5, <3>2
    <3> QED
      BY <3>1, <3>2
  <2>6. rewrite[p] = None
    BY <2>1 DEF FilesInv
  <2> HIDE DEF others
  <2>7. opened # None
    <3>1. opened \in Rewrite
      BY <1>1 DEF Rewrite
    <3> QED
      BY <3>1, NobodyAssumption
  <2>8. \A c \in Channels : Open(c, "corpus")' = Open(c, "corpus")
    BY <2>4, <2>5, <2>6 DEF Open
  <2>9. \A c \in Channels : c # c0 => Open(c, "tmp")' = Open(c, "tmp")
    BY <2>4, <2>5, <2>6 DEF Open
  <2>10. p \in Open(c0, "tmp")'
    <3>1. /\ rewrite'[p] # None /\ rewrite'[p].channel = c0
          /\ rewrite'[p].file = "tmp"
      BY <2>4, <2>7
    <3>2. c0' = c0
      BY <1>2
    <3> HIDE DEF c0
    <3> QED
      BY <3>1, <3>2 DEF Open
  <2>11. \A c \in Channels : tmp'[c] \in {None, md} \/ Open(c, "tmp")' # {}
    <3>1. \A c \in Channels : c # c0 => tmp'[c] = tmp[c]
      BY <1>5, <2>1
    <3>2. Open(c0, "tmp")' # {}
      BY <2>10
    <3>3. c0' = c0
      BY <1>2
    <3> HIDE DEF c0
    <3> QED
      BY <2>9, <3>1, <3>2, <3>3 DEF FilesInv
  <2>12. \A q \in Pods : q # p => place'[q] = place[q]
    BY <1>5, <2>1
  <2>13. place'[p] = "fill"
    BY <1>5, <2>1
  <2>14. FilesInv'
    BY <1>2, <2>4, <2>5, <2>7, <2>11, <2>12, <2>13 DEF FilesInv
  <2>15. ~ReplaceCorpus(p)
    BY <2>1 DEF ReplaceCorpus
  <2> QED
    BY <1>2, <2>1, <2>8, <2>14, <2>15 DEF Written
<1>7. CASE FillTmp(p)
  <2>1. /\ place[p] = "fill" /\ place' = [place EXCEPT ![p] = "replace"]
        /\ rewrite' = [rewrite EXCEPT ![p] = None]
    BY <1>7 DEF FillTmp
  <2>2. PICK r \in Rewrite :
            r = rewrite[p] /\ r # None /\ r.channel = c0 /\ r.agreed = TRUE
    BY <1>4, <2>1 DEF FilesInv
  <2>3. PICK found :
            /\ Open(c0, r.file) = {p} => found = md
            /\ tmp' = IF r.file = "tmp" THEN [tmp EXCEPT ![c0] = found] ELSE tmp
            /\ corpus' = IF r.file = "corpus" THEN [corpus EXCEPT ![c0] = found]
                                              ELSE corpus
    <3>1. loaded[p] = md
      BY <1>1
    <3> QED
      BY <1>3, <1>7, <2>2, <3>1 DEF FillTmp
  <2>4. \A c, file : Open(c, file)' = Open(c, file) \ {p}
    BY <1>5, <2>1 DEF Open
  <2>5. \A c, file : p \in Open(c, file) => c = c0 /\ file = r.file
    BY <2>2 DEF Open
  <2>6. \A c \in Channels : tmp'[c] \in {None, md} \/ Open(c, "tmp")' # {}
    <3> SUFFICES ASSUME NEW c \in Channels, Open(c, "tmp")' = {}
                 PROVE  tmp'[c] \in {None, md}
      OBVIOUS
    <3>1. CASE p \in Open(c, "tmp")
      <4>1. Open(c0, r.file) = {p} /\ c = c0 /\ r.file = "tmp"
        BY <2>4, <2>5, <3>1
      <4> QED
        BY <1>5, <2>3, <4>1
    <3>2. CASE p \notin Open(c, "tmp")
      <4>1. Open(c, "tmp") = {}
        BY <2>4, <3>2
      <4>2. ~(c = c0 /\ r.file = "tmp")
        BY <2>2, <3>2 DEF Open
      <4>3. tmp'[c] = tmp[c]
        BY <1>5, <2>3, <4>2
      <4> QED
        BY <4>1, <4>3 DEF FilesInv
    <3> QED
      BY <3>1, <3>2
  <2>7. ASSUME NEW c \in Channels, Written(c)
        PROVE  Written(c)'
    <3> SUFFICES ASSUME Open(c, "corpus")' = {}
                 PROVE  corpus'[c] = md
      BY <1>2 DEF Written
    <3>1. CASE p \in Open(c, "corpus")
      <4>1. Open(c0, r.file) = {p} /\ c = c0 /\ r.file = "corpus"
        BY <2>4, <2>5, <3>1
      <4> QED
        BY <1>5, <2>3, <4>1
    <3>2. CASE p \notin Open(c, "corpus")
      <4>1. Open(c, "corpus") = {}
        BY <2>4, <3>2
      <4>2. ~(c = c0 /\ r.file = "corpus")
        BY <2>2, <3>2 DEF Open
      <4>3. corpus'[c] = corpus[c]
        BY <1>5, <2>3, <4>2
      <4> QED
        BY <2>7, <4>1, <4>3 DEF Written
    <3> QED
      BY <3>1, <3>2
  <2>8. /\ rewrite'[p] = None /\ place'[p] = "replace"
        /\ \A q \in Pods : q # p => rewrite'[q] = rewrite[q] /\ place'[q] = place[q]
    BY <1>5, <2>1
  <2>9. FilesInv'
    BY <1>2, <2>6, <2>8 DEF FilesInv
  <2>10. ~ReplaceCorpus(p)
    BY <2>1 DEF ReplaceCorpus
  <2> QED
    BY <2>7, <2>9, <2>10
<1>8. CASE ReplaceCorpus(p)
  <2>1. /\ place[p] = "replace" /\ place' = [place EXCEPT ![p] = "rows"]
        /\ tmp[c0] # None
        /\ corpus' = [corpus EXCEPT ![c0] = tmp[c0]]
        /\ tmp' = [tmp EXCEPT ![c0] = None]
        /\ rewrite' = [q \in Pods |-> Renamed(rewrite[q], c0)]
    BY <1>3, <1>8 DEF ReplaceCorpus
  <2>2. ASSUME NEW q \in Pods
        PROVE  /\ rewrite[q] = None => rewrite'[q] = None
               /\ rewrite[q] # None =>
                      /\ rewrite'[q] # None
                      /\ rewrite'[q].channel = rewrite[q].channel
                      /\ rewrite'[q].agreed = rewrite[q].agreed
                      /\ rewrite[q].channel # c0 => rewrite'[q] = rewrite[q]
                      /\ rewrite[q].channel = c0 /\ rewrite[q].file = "tmp" =>
                             rewrite'[q].file = "corpus"
    <3>1. rewrite'[q] = Renamed(rewrite[q], c0)
      BY <2>1
    <3>2. CASE rewrite[q] = None
      BY <3>1, <3>2 DEF Renamed
    <3>3. CASE rewrite[q] # None
      <4>1. PICK r \in Rewrite : r = rewrite[q]
        BY <1>4, <3>3
      <4>2. CASE r.channel # c0
        BY <3>1, <3>3, <4>1, <4>2 DEF Renamed
      <4>3. CASE r.channel = c0
        <5>1. PICK file \in {"corpus", "gone"} :
                  /\ r.file = "tmp" => file = "corpus"
                  /\ rewrite'[q] = [r EXCEPT !.file = file]
          BY <3>1, <3>3, <4>1, <4>3 DEF Renamed
        <5>2. /\ rewrite'[q] \in Rewrite /\ rewrite'[q].file = file
              /\ rewrite'[q].channel = r.channel /\ rewrite'[q].agreed = r.agreed
          BY <5>1 DEF Rewrite
        <5> QED
          BY <3>3, <4>1, <4>3, <5>1, <5>2, NobodyAssumption
      <4> QED
        BY <4>2, <4>3
    <3> QED
      BY <3>2, <3>3
  <2>3. \A c \in Channels : c # c0 =>
            Open(c, "tmp")' = Open(c, "tmp") /\ Open(c, "corpus")' = Open(c, "corpus")
    BY <2>2 DEF Open
  <2>4. Open(c0, "tmp") \subseteq Open(c0, "corpus")'
    <3> SUFFICES ASSUME NEW q \in Open(c0, "tmp")
                 PROVE  q \in Open(c0, "corpus")'
      OBVIOUS
    <3>1. /\ q \in Pods /\ rewrite'[q] # None /\ rewrite'[q].channel = c0
          /\ rewrite'[q].file = "corpus"
      BY <2>2 DEF Open
    <3>2. c0' = c0
      BY <1>2
    <3> HIDE DEF c0
    <3> QED
      BY <3>1, <3>2 DEF Open
  <2>5. Written(c0)'
    <3>1. tmp[c0] = md \/ Open(c0, "tmp") # {}
      BY <1>1, <2>1 DEF FilesInv
    <3>2. corpus'[c0] = tmp[c0]
      BY <1>1, <1>5, <2>1
    <3> QED
      BY <1>2, <2>4, <3>1, <3>2 DEF Written
  <2>6. \A c \in Channels : c # c0 => corpus'[c] = corpus[c] /\ tmp'[c] = tmp[c]
    BY <1>5, <2>1
  <2>7. tmp'[c0] = None
    BY <1>1, <1>5, <2>1
  <2>8. \A c \in Channels : Written(c) => Written(c)'
    BY <1>2, <2>3, <2>5, <2>6 DEF Written
  <2>9. \A c \in Channels : tmp'[c] \in {None, md} \/ Open(c, "tmp")' # {}
    BY <2>3, <2>6, <2>7 DEF FilesInv
  <2>10. rewrite[p] = None /\ place'[p] = "rows"
         /\ \A q \in Pods : q # p => place'[q] = place[q]
    BY <1>5, <2>1 DEF FilesInv
  <2>11. FilesInv'
    BY <1>2, <2>2, <2>9, <2>10 DEF FilesInv
  <2> QED
    BY <2>5, <2>8, <2>11, <1>2
<1> QED
  BY <1>6, <1>7, <1>8

\* The builder's writes; what it does not write anew was on disk.
LEMMA WriteBuildInv ==
    ASSUME NEW p \in Pods, TypeInv, BInv, FilesInv, BuildInv, ~disturbed',
           OpenTmp(p) \/ FillTmp(p) \/ ReplaceCorpus(p) \/ DeleteRows(p) \/ CommitRows(p)
    PROVE  BuildInv'
<1> USE DEF Goto, TypeInv, PodsOK, StoresOK
<1>0. PICK c0 : c0 = Head(todo[p])
  OBVIOUS
<1>1. BuildsChannel(p) /\ Building(p)
  BY DEF OpenTmp, FillTmp, ReplaceCorpus, DeleteRows, CommitRows, BuildsChannel, Building
<1>2. /\ c0 \in Channels /\ loaded[p] = md /\ todo[p] # <<>>
      /\ \A c \in Channels : Complete(c) \/ Listed(p, c)
  BY <1>0, <1>1, TailOfList DEF PlacesFit, BuildInv
<1>3. UNCHANGED <<md, lock>>
  BY DEF OpenTmp, FillTmp, ReplaceCorpus, DeleteRows, CommitRows, stores
<1>4. \A q \in Pods \ {p} :
          place'[q] = place[q] /\ todo'[q] = todo[q] /\ loaded'[q] = loaded[q]
  BY DEF OpenTmp, FillTmp, ReplaceCorpus, DeleteRows, CommitRows
<1>5. CASE OpenTmp(p) \/ FillTmp(p) \/ ReplaceCorpus(p)
  <2>1. /\ UNCHANGED <<rows, todo, loaded>>
        /\ place'[p] \in {"fill", "replace", "rows"}
        /\ place'[p] = "rows" => ReplaceCorpus(p)
    BY <1>5 DEF OpenTmp, FillTmp, ReplaceCorpus
  <2>2. /\ \A c \in Channels : Written(c) => Written(c)'
        /\ place'[p] = "rows" => Written(Head(todo[p]))'
    BY <1>5, <2>1, FilesOfBuilder
  <2>3. \A c \in Channels : Complete(c) => Complete(c)'
    BY <1>3, <2>1, <2>2 DEF Complete
  <2>4. PodFits(p)'
    BY <1>0, <1>2, <1>3, <2>1, <2>2, <2>3 DEF PodFits, Listed
  <2>5. Building(p)'
    BY <2>1 DEF Building, BuildsChannel
  <2> QED
    BY <1>3, <1>4, <2>1, <2>2, <2>3, <2>4, <2>5, BuildStep
<1>6. CASE DeleteRows(p)
  <2>1. UNCHANGED <<rows, files, todo, loaded>> /\ place[p] = "rows" /\ place'[p] = "commit"
    BY <1>6 DEF DeleteRows, Fault, stores
  <2>2. \A c \in Channels : /\ Written(c) => Written(c)'
                            /\ Complete(c) => Complete(c)'
    BY <1>3, <2>1 DEF Complete, Written, files, Open
  <2>3. PodFits(p)'
    BY <1>0, <1>2, <1>3, <2>1, <2>2 DEF PodFits, Listed, BuildInv
  <2>4. Building(p)'
    BY <2>1 DEF Building, BuildsChannel
  <2> QED
    BY <1>3, <1>4, <2>1, <2>3, <2>4, QuietBuildStep
<1>7. CASE CommitRows(p)
  <2> DEFINE kept == rows[c0] \ seen[p]
             new  == loaded[p] \X {p}
  <2>1. /\ UNCHANGED files /\ place[p] = "commit" /\ place'[p] = "next"
        /\ todo'[p] = Tail(todo[p])
        /\ rows' = [rows EXCEPT ![c0] = kept \cup new]
    BY <1>0, <1>7 DEF CommitRows, Fault
  <2>2. DocsIn(kept \cup new) = md
    <3>1. \A r \in kept : r[1] \in md
      BY <1>2 DEF BInv, IndexedOnDisk
    <3>2. \A r \in new : r[1] \in md
      BY <1>2
    <3>3. \A d \in md : \E r \in new : r[1] = d
      <4> SUFFICES ASSUME NEW d \in md
                   PROVE  \E r \in new : r[1] = d
        OBVIOUS
      <4>1. <<d, p>> \in new /\ <<d, p>>[1] = d
        BY <1>2
      <4> QED
        BY <4>1
    <3> HIDE DEF kept, new
    <3> QED
      BY <3>1, <3>2, <3>3 DEF DocsIn
  <2> HIDE DEF kept, new
  <2>0. \A c \in Channels : Written(c) => Written(c)'
    BY <1>3, <2>1 DEF Written, files, Open
  <2>3. Written(c0)
    BY <1>0, <2>1 DEF BuildInv
  <2>4. rows'[c0] = kept \cup new /\ \A c \in Channels : c # c0 => rows'[c] = rows[c]
    BY <1>2, <2>1
  <2>5. Complete(c0)'
    BY <1>2, <1>3, <2>0, <2>2, <2>3, <2>4 DEF Complete, DocsIn
  <2>6. \A c \in Channels : Complete(c) => Complete(c)'
    BY <1>3, <2>0, <2>4, <2>5 DEF Complete, DocsIn
  <2>7. \A c \in Channels : Listed(p, c) => c = c0 \/ Listed(p, c)'
    BY <1>0, <1>2, <2>1, ListedTail
  <2>8. PodFits(p)'
    BY <1>2, <2>1, <2>5, <2>6, <2>7 DEF PodFits, BuildsChannel
  <2>9. Building(p)'
    BY <2>1 DEF Building
  <2>10. \A c \in Channels : rows'[c] # {} => rows[c] # {} \/ Complete(c)'
    BY <2>4, <2>5
  <2> QED
    BY <1>3, <1>4, <2>1, <2>6, <2>8, <2>9, <2>10, <2>0, BuildStep
<1> QED
  BY <1>5, <1>6, <1>7

LEMMA ReleaseBuildInv ==
    ASSUME NEW p \in Pods, TypeInv, BuildInv, ~disturbed', Release(p)
    PROVE  BuildInv'
<1> USE DEF Goto, TypeInv, PodsOK
<1>1. /\ UNCHANGED <<md, rows, files>> /\ lock' = None
      /\ place[p] = "release" /\ place'[p] = "ready"
  BY DEF Release, Fault, stores
<1>2. \A q \in Pods \ {p} :
          place'[q] = place[q] /\ todo'[q] = todo[q] /\ loaded'[q] = loaded[q]
  BY <1>1 DEF Release, Returns
<1>3. \A c \in Channels : /\ Written(c) <=> Written(c)'
                          /\ Complete(c)' <=> Complete(c)
  BY <1>1 DEF Complete, Written, files, Open
<1>4. \A c \in Channels : Complete(c)'
  <2>1. todo[p] = <<>> /\ \A c \in Channels : Complete(c) \/ Listed(p, c)
    BY <1>1 DEF BuildInv, Building
  <2>2. \A c \in Channels : ~Listed(p, c)
    BY <2>1 DEF Listed
  <2> QED
    BY <1>3, <2>1, <2>2
<1>5. PodFits(p)'
  BY <1>1 DEF PodFits, BuildsChannel, Building
<1> QED
  BY <1>1, <1>2, <1>3, <1>4, <1>5, BuildStep DEF Done

LEMMA NextCompleteInv == TypeInv /\ BInv /\ CompleteInv /\ [Next]_vars => CompleteInv'
<1> SUFFICES ASSUME TypeInv, BInv, CompleteInv, [Next]_vars, ~disturbed'
             PROVE  FilesInv' /\ BuildInv'
  BY DEF CompleteInv
<1>1. ~disturbed
  <2>1. disturbed' = disturbed \/ disturbed' = TRUE
    BY DEF Next, Step, Boot, Warmup, WarmupRaises, Check, NoSchema, Acquire, MustWait,
           WaitDone, GiveUp, NextChannel, OpenTmp, FillTmp, ReplaceCorpus, DeleteRows,
           CommitRows, Release, Unlocked, Crash, Expire, UploadStep, UploadFiles,
           UploadRaises, UploadDelete, UploadUpsert, vars, notes, Fault, NoFault
  <2> QED
    BY <2>1
<1>2. FilesInv /\ BuildInv
  BY <1>1 DEF CompleteInv
<1>3. ASSUME UNCHANGED <<stores, pods>>, lock' \in {lock, None}
      PROVE  FilesInv' /\ BuildInv'
  <2>1. \A c \in Channels : /\ Written(c)' <=> Written(c)
                            /\ Complete(c)' <=> Complete(c)
    BY <1>3 DEF Complete, Written, stores, files, Open
  <2>2. Covered' <=> Covered
    BY <1>3, <2>1 DEF Covered, Building, BuildsChannel, pods
  <2>3. \A q \in Pods : BuildsChannel(q) => Head(todo[q]) \in Channels
    BY TailOfList DEF TypeInv, PodsOK, PlacesFit
  <2>4. BuildInv'
    BY <1>2, <1>3, <2>1, <2>2, <2>3
       DEF BuildInv, BuildsChannel, Building, Listed, pods, stores
  <2>5. FilesInv'
    BY <1>2, <1>3, QuietFiles DEF stores, pods
  <2> QED
    BY <2>4, <2>5
<1>4. ASSUME NEW p \in Pods, Step(p)
      PROVE  FilesInv' /\ BuildInv'
  <2>1. ~NoSchema(p)
    BY DEF NoSchema, Fault
  <2>2. BuildInv'
    BY <1>2, <1>4, <2>1, StartBuildInv, EnterBuildInv, NextChannelBuildInv, WriteBuildInv,
       ReleaseBuildInv DEF Step
  <2>3. CASE OpenTmp(p) \/ FillTmp(p) \/ ReplaceCorpus(p)
    BY <1>2, <2>2, <2>3, FilesOfBuilder
  <2>4. CASE ~OpenTmp(p) /\ ~FillTmp(p) /\ ~ReplaceCorpus(p)
    <3>1. /\ UNCHANGED <<md, files, upload>>
          /\ \A q \in Pods : q # p => place'[q] = place[q] /\ todo'[q] = todo[q]
          /\ place[p] # "fill" /\ place'[p] # "fill"
      BY <1>4, <2>1, <2>4 DEF Step, Boot, Warmup, WarmupRaises, Check, Acquire, MustWait,
         WaitDone, GiveUp, NextChannel, DeleteRows, CommitRows, Release, Returns, Goto,
         stores, TypeInv, PodsOK
    <3>2. FilesInv'
      BY <1>2, <3>1, QuietFiles
    <3> QED
      BY <2>2, <3>2
  <2> QED
    BY <2>3, <2>4
<1>5. ASSUME NEW p \in Pods, Unlocked(p) \/ Crash(p)
      PROVE  FilesInv' /\ BuildInv'
  <2>1. ~Crash(p)
    BY DEF Crash, Fault
  <2>2. BuildInv'
    BY <1>2, <1>5, <2>1, EnterBuildInv
  <2>3. /\ UNCHANGED <<md, files, upload, todo>>
        /\ \A q \in Pods : q # p => place'[q] = place[q]
        /\ place[p] # "fill" /\ place'[p] # "fill"
    BY <1>5, <2>1 DEF Unlocked, Goto, stores, TypeInv, PodsOK
  <2>4. FilesInv'
    BY <1>2, <2>3, QuietFiles
  <2> QED
    BY <2>2, <2>4
<1>6. CASE Expire
  BY <1>3, <1>6 DEF Expire
<1>7. ASSUME NEW d \in Uploaded, UploadStep(d)
      PROVE  FALSE
  BY <1>2, <1>7 DEF UploadStep, UploadFiles, UploadRaises, UploadDelete, UploadUpsert,
     FilesInv
<1>8. CASE UNCHANGED vars
  BY <1>3, <1>8 DEF vars
<1> QED
  BY <1>4, <1>5, <1>6, <1>7, <1>8 DEF Next

LEMMA CompleteInvComplete == CompleteInv => IndexComplete
<1> SUFFICES ASSUME CompleteInv, ~disturbed, \A p \in Pods : place[p] = "ready",
                    NEW c \in Channels
             PROVE  DocsIn(rows[c]) = md /\ corpus[c] = md
  BY DEF IndexComplete
<1>1. Complete(c)
  BY BuildAssumption DEF CompleteInv, BuildInv, Covered, Building, BuildsChannel
<1>2. Open(c, "corpus") = {}
  BY DEF CompleteInv, FilesInv, Open
<1> QED
  BY <1>1, <1>2 DEF Complete, Written

\* The start-up build is complete: unless a call fails, a pod dies or an
\* upload comes in meanwhile, both indexes of both channels hold every document
\* once all pods are through, whoever of them built, waited or gave up, with or
\* without the lock (ensure_index, create_channel_index).
THEOREM IndexIsComplete == Spec => []IndexComplete
<1>1. Spec => []CompleteInv
  BY InitCompleteInv, NextCompleteInv, TypeInvariant, BuildInvariant, PTL DEF Spec
<1>2. QED
  BY <1>1, CompleteInvComplete, PTL
=============================================================================
