-------------------------- MODULE Workspace_proofs --------------------------
(***************************************************************************)
(* Proofs about Workspace for any number of documents, pods, requests and  *)
(* faults: type correctness, that no text is lost unknowingly, that an     *)
(* edit meets one fate, and what HEAD and the registry say of documents    *)
(* that were last changed without a failure or an overlap.                 *)
(***************************************************************************)
EXTENDS Workspace, SequenceTheorems, TLAPS

-----------------------------------------------------------------------------
\* The inductive invariants

\* What the steps need besides TypeOK.
TypeInv == TypeOK /\ DOMAIN op = Threads

Writing == {"truncate", "fill"}
Committing == {"tree", "commit"}

\* The steps a request of each kind goes through; a copy is no file's own.
Fit(t) ==
    LET o == op[t] IN
    /\ o.at = "check" => o.kind = "apply"
    /\ o.at = "write" => o.kind \in {"create", "apply"}
    /\ o.at = "copy" => o.kind \in Copies
    /\ o.at = "remove" => o.kind \in {"rename", "delete"}
    /\ o.at \in {"load"} \cup Writing =>
           o.kind \in {"create", "duplicate", "rename", "delete"}
    /\ o.kind \in Copies => o.src # o.from
StepsFit == \A t \in Active : Fit(t)

\* Requests on the same document know of each other, and so do those that
\* commit, and those that write the registry, at the same time.
MetMutual ==
    \A t, u \in Active : t # u /\ Touches(t) \cap Touches(u) # {} => op[t].met
SpoiltMutual ==
    \A t, u \in Active : t # u =>
        /\ op[t].at \in Committing /\ op[u].at \in Committing => op[t].spoilt
        /\ op[t].at \in Writing /\ op[u].at \in Writing => op[t].spoilt

\* A request that no other has met finds its documents as it left them.
FilesOwn(t) ==
    LET o == op[t] IN
    /\ o.at = "write" => md[o.src] = IF o.kind = "create" THEN None ELSE o.before
    /\ o.at = "copy" => md[o.src] = None
    /\ o.kind = "rename" /\ o.at \in {"add", "remove"} \cup Committing =>
           md[o.src] = md[o.from]
    /\ o.at \in Committing => staged[o.src] = md[o.src]
    /\ o.at = "commit" => o.read[o.src] = md[o.src]
MadeOwn(t) ==
    LET o == op[t] IN
    /\ /\ o.kind \in {"create"} \cup Copies
       /\ o.at \in {"add", "remove", "load"} \cup Committing \cup Writing
       => o.src \in made
    /\ o.kind = "rename" /\ o.at \in {"load"} \cup Writing => o.from \notin made
    /\ o.kind = "delete" /\ o.at \in {"load"} \cup Writing => o.src \notin made
    /\ o.at \in Writing =>
           \A s \in Entries(o.kind, o.src, o.from) : s \in o.read <=> s \in made
OwnKept == \A t \in Active : ~op[t].met => FilesOwn(t) /\ MadeOwn(t)

RequestInv == StepsFit /\ MetMutual /\ SpoiltMutual /\ OwnKept

\* An edit is in one stash or in one request, or decided, and only once.
Undecided(t) == t \in Active /\ op[t].kind = "apply" /\ op[t].at \in {"check", "write"}
OneFate ==
    /\ \A p, q \in Pods : \A e \in pending[p], f \in pending[q] :
           e.after = f.after => p = q /\ e = f
    /\ \A p \in Pods : \A e \in pending[p] :
           /\ e.after <= drawn /\ verdicts[e.after] = <<>>
           /\ \A t \in Threads : Undecided(t) => op[t].text # e.after
    /\ \A t \in Threads : Undecided(t) =>
           op[t].text <= drawn /\ verdicts[op[t].text] = <<>>
    /\ \A t, u \in Threads : Undecided(t) /\ Undecided(u) /\ op[t].text = op[u].text
                                 => t = u
    /\ \A x \in Texts : x > drawn => verdicts[x] = <<>>
    /\ EditDecidedOnce

\* What HEAD has of a settled document is staged, and is in every tree that is
\* about to become HEAD.
HeadInv ==
    \A s \in headGood :
        /\ head[s] = md[s] /\ staged[s] = md[s]
        /\ \A t \in Active : op[t].at = "commit" => op[t].read[s] = md[s]

\* What is registered of a settled source is in the registry and in every update
\* on its way to it, and nobody is changing it.
RegistryInv ==
    /\ \A t \in Active :
           Entries(op[t].kind, op[t].src, op[t].from) \cap registryGood = {}
    /\ \A s \in registryGood :
           /\ registry # Torn => (s \in registry <=> s \in made)
           /\ registry = Torn /\ (\A t \in Active : op[t].at # "fill") => s \notin made
           /\ \A t \in Active : op[t].at \in Writing =>
                  (s \in op[t].read <=> s \in made)

-----------------------------------------------------------------------------
\* Requests as records

LEMMA RequestFields ==
    ASSUME NEW r, IsRequest(r)
    PROVE  /\ r.kind \in Kinds /\ r.pod \in Pods /\ r.at \in Steps
           /\ r.src \in Sources /\ r.from \in Sources
           /\ r.text \in Texts /\ r.before \in Texts \cup {None}
           /\ r.met \in BOOLEAN /\ r.spoilt \in BOOLEAN
           /\ r.at = "commit" => r.read \in Files
           /\ r.at \in Writing => r.read \subseteq Sources
           /\ r.at \notin {"commit"} \cup Writing => r.read = None
           /\ r # None
<1>1. r \in [kind: Kinds, pod: Pods, at: Steps, src: Sources, from: Sources,
             text: Texts, before: Texts \cup {None}, read: {r.read},
             met: BOOLEAN, spoilt: BOOLEAN]
  BY DEF IsRequest
<1>2. /\ r.at = "commit" => r.read \in Files
      /\ r.at \in Writing => r.read \subseteq Sources
      /\ r.at \notin {"commit"} \cup Writing => r.read = None
  BY DEF IsRequest, Writing
<1>3. r.read \in Files \cup (SUBSET Sources) \cup {None}
  <2>1. r.read \in Files \/ r.read \in SUBSET Sources \/ r.read = None
    BY <1>2
  <2> QED
    BY <2>1
<1>4. r \in [kind: Kinds, pod: Pods, at: Steps, src: Sources, from: Sources,
             text: Texts, before: Texts \cup {None},
             read: Files \cup (SUBSET Sources) \cup {None},
             met: BOOLEAN, spoilt: BOOLEAN]
  BY <1>1, <1>3
<1> QED
  BY <1>1, <1>2, <1>4, NoRequestAssumption

LEMMA RequestOf ==
    ASSUME NEW kind \in Kinds, NEW pod \in Pods, NEW at \in Steps, NEW src \in Sources,
           NEW from \in Sources, NEW text \in Texts, NEW before \in Texts \cup {None},
           NEW met \in BOOLEAN, NEW spoilt \in BOOLEAN, NEW read,
           at = "commit" => read \in Files,
           at \in Writing => read \subseteq Sources,
           at \notin {"commit"} \cup Writing => read = None
    PROVE  IsRequest([kind |-> kind, pod |-> pod, at |-> at, src |-> src,
                      from |-> from, text |-> text, before |-> before,
                      read |-> read, spoilt |-> spoilt, met |-> met])
BY DEF IsRequest, Writing

\* A request moves on, or is told of another.
LEMMA RequestMoves ==
    ASSUME NEW r, IsRequest(r), NEW at \in Steps, NEW text \in Texts,
           NEW met \in BOOLEAN, NEW spoilt \in BOOLEAN, NEW read,
           at = "commit" => read \in Files,
           at \in Writing => read \subseteq Sources,
           at \notin {"commit"} \cup Writing => read = None
    PROVE  /\ IsRequest([r EXCEPT !.at = at, !.read = read])
           /\ IsRequest([r EXCEPT !.at = at, !.read = read, !.spoilt = spoilt])
           /\ r.read = read => IsRequest([r EXCEPT !.at = at])
           /\ r.read = read => IsRequest([r EXCEPT !.at = at, !.text = text])
           /\ IsRequest([r EXCEPT !.met = met])
           /\ IsRequest([r EXCEPT !.spoilt = spoilt])
<1>1. r \in [kind: Kinds, pod: Pods, at: Steps, src: Sources, from: Sources,
             text: Texts, before: Texts \cup {None}, read: {r.read},
             met: BOOLEAN, spoilt: BOOLEAN]
  BY DEF IsRequest
<1>2. IsRequest([r EXCEPT !.at = at, !.read = read])
  BY <1>1 DEF IsRequest, Writing
<1>3. IsRequest([r EXCEPT !.at = at, !.read = read, !.spoilt = spoilt])
  BY <1>1 DEF IsRequest, Writing
<1>4. r.read = read => IsRequest([r EXCEPT !.at = at])
  BY <1>1 DEF IsRequest, Writing
<1>5. r.read = read => IsRequest([r EXCEPT !.at = at, !.text = text])
  BY <1>1 DEF IsRequest, Writing
<1>6. IsRequest([r EXCEPT !.met = met])
  BY <1>1 DEF IsRequest, Writing
<1>7. IsRequest([r EXCEPT !.spoilt = spoilt])
  BY <1>1 DEF IsRequest, Writing
<1> QED
  BY <1>2, <1>3, <1>4, <1>5, <1>6, <1>7

-----------------------------------------------------------------------------
\* What a step does to the requests

Typed == DOMAIN op = Threads /\ \A t \in Threads : op[t] = None \/ IsRequest(op[t])

\* Request u goes on as it was, or is gone; it may be told of another.
SameRequest(u) ==
    /\ op'[u].kind = op[u].kind /\ op'[u].pod = op[u].pod /\ op'[u].at = op[u].at
    /\ op'[u].src = op[u].src /\ op'[u].from = op[u].from
    /\ op'[u].text = op[u].text /\ op'[u].before = op[u].before
    /\ op'[u].read = op[u].read
    /\ op[u].met => op'[u].met
    /\ op[u].spoilt => op'[u].spoilt
Keeps(u) == u \in Active' => u \in Active /\ SameRequest(u)
Stays(u) == u \in Active => u \in Active'

\* Those that touch the documents are told.
Told(t, docs) ==
    \A u \in Threads \ {t} :
        u \in Active' /\ Touches(u) \cap docs # {} => op'[u].met

LEMMA MeetsKeeps ==
    ASSUME Typed, NEW docs, NEW u \in Threads,
           op'[u] = Meets(docs)[u]
    PROVE  /\ Keeps(u) /\ Stays(u)
           /\ op'[u] = None \/ IsRequest(op'[u])
           /\ u \in Active' /\ Touches(u) \cap docs # {} => op'[u].met
<1>1. CASE u \in Active /\ Touches(u) \cap docs # {}
  <2>1. op'[u] = [op[u] EXCEPT !.met = TRUE] /\ IsRequest(op[u])
    BY <1>1 DEF Meets, Active, Typed
  <2>2. op[u] \in [kind: Kinds, pod: Pods, at: Steps, src: Sources, from: Sources,
                   text: Texts, before: Texts \cup {None}, read: {op[u].read},
                   met: BOOLEAN, spoilt: BOOLEAN]
    BY <2>1 DEF IsRequest
  <2>3. SameRequest(u) /\ op'[u].met
    BY <2>1, <2>2 DEF SameRequest
  <2>4. IsRequest(op'[u])
    BY <2>1, <2>2 DEF IsRequest
  <2>5. op'[u] # None
    BY <2>4, RequestFields
  <2> QED
    BY <1>1, <2>3, <2>4, <2>5 DEF Keeps, Stays, Active
<1>2. CASE ~(u \in Active /\ Touches(u) \cap docs # {})
  <2>1. op'[u] = op[u]
    BY <1>2 DEF Meets
  <2> QED
    BY <1>2, <2>1 DEF Keeps, Stays, Active, SameRequest, Typed
<1> QED
  BY <1>1, <1>2

\* Where request t starts.
Begun(t, pod, kind, s, from, step, text, before) ==
    /\ t \notin Active /\ t \in Active'
    /\ op'[t].kind = kind /\ op'[t].pod = pod /\ op'[t].at = step
    /\ op'[t].src = s /\ op'[t].from = from
    /\ op'[t].text = text /\ op'[t].before = before
    /\ (\E u \in Active : Touches(u) \cap {s, from} # {}) => op'[t].met

\* A request is taken up.
LEMMA BeginOp ==
    ASSUME Typed, NEW t \in Threads, NEW pod \in Pods, NEW kind \in Kinds,
           NEW s \in Sources, NEW from \in Sources,
           NEW step \in Steps, step \notin Committing \cup Writing,
           NEW text \in Texts, NEW before \in Texts \cup {None},
           Begin(t, pod, kind, s, from, step, text, before)
    PROVE  /\ Typed'
           /\ \A u \in Threads \ {t} : Keeps(u) /\ Stays(u)
           /\ Told(t, {s, from})
           /\ Begun(t, pod, kind, s, from, step, text, before)
<1> DEFINE m == \E u \in Active : Touches(u) \cap {s, from} # {}
           r == [kind |-> kind, pod |-> pod, at |-> step, src |-> s, from |-> from,
                 text |-> text, before |-> before, read |-> None, spoilt |-> FALSE,
                 met |-> m]
<1>1. op[t] = None /\ op' = [Meets({s, from}) EXCEPT ![t] = r]
  BY DEF Begin
<1>2. m \in BOOLEAN
  OBVIOUS
<1>3. step \notin {"commit"} \cup Writing
  BY DEF Committing
<1>4. /\ r.kind = kind /\ r.pod = pod /\ r.at = step /\ r.src = s /\ r.from = from
      /\ r.text = text /\ r.before = before /\ r.met = m
  OBVIOUS
<1>5. IsRequest(r)
  <2> HIDE DEF m
  <2> QED
    BY <1>2, <1>3, RequestOf
<1> HIDE DEF r
<1>6. r # None
  BY <1>5, RequestFields
<1>7. DOMAIN op' = Threads /\ op'[t] = r
      /\ \A u \in Threads \ {t} : op'[u] = Meets({s, from})[u]
  BY <1>1 DEF Meets
<1>8. \A u \in Threads \ {t} :
          /\ Keeps(u) /\ Stays(u)
          /\ op'[u] = None \/ IsRequest(op'[u])
          /\ u \in Active' /\ Touches(u) \cap {s, from} # {} => op'[u].met
  BY <1>7, MeetsKeeps
<1>9. Typed'
  BY <1>5, <1>7, <1>8 DEF Typed
<1>10. t \notin Active /\ t \in Active'
  BY <1>1, <1>6, <1>7 DEF Active
<1> QED
  BY <1>4, <1>7, <1>8, <1>9, <1>10 DEF Told, Begun

\* save_document_draft is no request, but those on the document are told.
LEMMA MeetsOp ==
    ASSUME Typed, NEW docs, op' = Meets(docs)
    PROVE  /\ Typed'
           /\ \A u \in Threads : Keeps(u) /\ Stays(u)
           /\ \A u \in Active' : Touches(u) \cap docs # {} => op'[u].met
<1>1. DOMAIN op' = Threads /\ \A u \in Threads : op'[u] = Meets(docs)[u]
  BY DEF Meets
<1> QED
  BY <1>1, MeetsKeeps DEF Typed, Active

\* Only request t moves.
Alone(t) == /\ \A u \in Threads \ {t} : op'[u] = op[u]
            /\ \A u \in Threads \ {t} : Keeps(u) /\ Stays(u)

LEMMA OthersKeep ==
    ASSUME NEW t, \A u \in Threads \ {t} : op'[u] = op[u]
    PROVE  Alone(t)
BY DEF Alone, Keeps, Stays, SameRequest, Active

\* Where request t is after its step.
Moved(t, step) ==
    /\ t \in Active /\ t \in Active'
    /\ op'[t].kind = op[t].kind /\ op'[t].pod = op[t].pod /\ op'[t].at = step
    /\ op'[t].src = op[t].src /\ op'[t].from = op[t].from
    /\ op'[t].before = op[t].before /\ op'[t].met = op[t].met

LEMMA EndOp ==
    ASSUME Typed, NEW t \in Threads, End(t)
    PROVE  Typed' /\ Alone(t) /\ t \notin Active'
<1>1. /\ DOMAIN op' = Threads /\ op'[t] = None
      /\ \A u \in Threads \ {t} : op'[u] = op[u]
  BY DEF End, Typed
<1> QED
  BY <1>1, OthersKeep DEF Typed, Active

LEMMA GotoOp ==
    ASSUME Typed, NEW t \in Active, NEW step \in Steps, Goto(t, step),
           step \in {"commit"} \cup Writing \/ op[t].at \in {"commit"} \cup Writing
               => step \in Writing /\ op[t].at \in Writing
    PROVE  /\ Typed' /\ Alone(t) /\ Moved(t, step)
           /\ op'[t].text = op[t].text /\ op'[t].spoilt = op[t].spoilt
           /\ op'[t].read = op[t].read
<1> DEFINE r == [op[t] EXCEPT !.at = step]
<1>1. t \in Threads /\ IsRequest(op[t])
  BY DEF Active, Typed
<1>2. DOMAIN op' = Threads /\ op'[t] = r /\ \A u \in Threads \ {t} : op'[u] = op[u]
  BY <1>1 DEF Goto, Typed
<1>3. IsRequest(r)
  <2>1. op[t] \in [kind: Kinds, pod: Pods, at: Steps, src: Sources, from: Sources,
                   text: Texts, before: Texts \cup {None}, read: {op[t].read},
                   met: BOOLEAN, spoilt: BOOLEAN]
    BY <1>1 DEF IsRequest
  <2>2. /\ step = "commit" => op[t].read \in Files
        /\ step \in Writing => op[t].read \subseteq Sources
        /\ step \notin {"commit"} \cup Writing => op[t].read = None
    BY <1>1, RequestFields DEF Writing
  <2> QED
    BY <2>1, <2>2 DEF IsRequest, Writing
<1>4. /\ r.kind = op[t].kind /\ r.pod = op[t].pod /\ r.at = step
      /\ r.src = op[t].src /\ r.from = op[t].from /\ r.read = op[t].read
      /\ r.before = op[t].before /\ r.met = op[t].met
      /\ r.text = op[t].text /\ r.spoilt = op[t].spoilt
  BY <1>1 DEF IsRequest
<1> HIDE DEF r
<1>5. r # None
  BY <1>3, RequestFields
<1> QED
  BY <1>1, <1>2, <1>3, <1>4, <1>5, OthersKeep DEF Typed, Active, Moved

\* After the commit.
LEMMA ProceedOp ==
    ASSUME Typed, NEW t \in Active, Proceed(t)
    PROVE  /\ Typed' /\ Alone(t)
           /\ \/ t \notin Active'
              \/ /\ op[t].kind \in {"create", "duplicate"} /\ Moved(t, "load")
                 /\ op'[t].text = op[t].text
              \/ /\ op[t].kind = "rename" /\ Moved(t, "remove")
                 /\ op'[t].text = op[t].text
<1> DEFINE step == AfterCommit(op[t].kind)
           r == [op[t] EXCEPT !.at = step, !.read = None, !.spoilt = FALSE]
<1>1. t \in Threads /\ IsRequest(op[t])
  BY DEF Active, Typed
<1>2. CASE step = "end"
  BY <1>1, <1>2, EndOp DEF Proceed
<1>3. CASE step # "end"
  <2>1. DOMAIN op' = Threads /\ op'[t] = r /\ \A u \in Threads \ {t} : op'[u] = op[u]
    BY <1>1, <1>3 DEF Proceed, Typed
  <2>2. \/ op[t].kind \in {"create", "duplicate"} /\ step = "load"
        \/ op[t].kind = "rename" /\ step = "remove"
    BY <1>3 DEF AfterCommit
  <2>3. step \in {"load", "remove"} /\ step \in Steps
    BY <2>2 DEF Steps
  <2>4. op[t] \in [kind: Kinds, pod: Pods, at: Steps, src: Sources, from: Sources,
                   text: Texts, before: Texts \cup {None}, read: {op[t].read},
                   met: BOOLEAN, spoilt: BOOLEAN]
    BY <1>1 DEF IsRequest
  <2> HIDE DEF step
  <2>5. IsRequest(r)
    BY <2>3, <2>4 DEF IsRequest
  <2>6. /\ r.kind = op[t].kind /\ r.pod = op[t].pod /\ r.at = step
        /\ r.src = op[t].src /\ r.from = op[t].from
        /\ r.before = op[t].before /\ r.met = op[t].met
        /\ r.text = op[t].text
    BY <2>4
  <2> HIDE DEF r
  <2>7. r # None
    BY <2>5, RequestFields
  <2>8. Typed' /\ Alone(t)
    BY <1>1, <2>1, <2>5, OthersKeep DEF Typed
  <2>9. Moved(t, step) /\ op'[t].text = op[t].text
    BY <1>1, <2>1, <2>6, <2>7 DEF Active, Moved
  <2> QED
    BY <2>2, <2>8, <2>9
<1> QED
  BY <1>2, <1>3

\* Into the steps that two requests spoil for each other.
LEMMA EnterOp ==
    ASSUME Typed, NEW t \in Active, NEW steps, NEW next \in Steps, NEW read,
           Enter(t, steps, next, read),
           next \in {"tree", "truncate"}, next = "tree" => read = None,
           next = "truncate" => read \subseteq Sources
    PROVE  /\ Typed' /\ Moved(t, next)
           /\ op'[t].text = op[t].text /\ op'[t].read = read
           /\ \A u \in Threads \ {t} :
                  /\ Keeps(u) /\ Stays(u)
                  /\ u \in Active' /\ op[u].at \in steps => op'[u].spoilt /\ op'[t].spoilt
<1> DEFINE others == {u \in Active \ {t} : op[u].at \in steps}
           r == [op[t] EXCEPT !.at = next, !.read = read,
                              !.spoilt = @ \/ others # {}]
<1>1. t \in Threads /\ IsRequest(op[t])
  BY DEF Active, Typed
<1>2. op' = [u \in Threads |->
                IF u = t THEN r
                ELSE IF u \in others THEN [op[u] EXCEPT !.spoilt = TRUE] ELSE op[u]]
  BY DEF Enter
<1>3. op[t] \in [kind: Kinds, pod: Pods, at: Steps, src: Sources, from: Sources,
                 text: Texts, before: Texts \cup {None}, read: {op[t].read},
                 met: BOOLEAN, spoilt: BOOLEAN]
  BY <1>1 DEF IsRequest
<1>4. /\ r.kind = op[t].kind /\ r.pod = op[t].pod /\ r.at = next
      /\ r.src = op[t].src /\ r.from = op[t].from /\ r.read = read
      /\ r.before = op[t].before /\ r.met = op[t].met
      /\ r.text = op[t].text /\ (others # {} => r.spoilt)
  BY <1>3
<1>5. IsRequest(r)
  <2>1. (op[t].spoilt \/ others # {}) \in BOOLEAN
    OBVIOUS
  <2> DEFINE b == op[t].spoilt \/ others # {}
  <2>2. r = [op[t] EXCEPT !.at = next, !.read = read, !.spoilt = b]
    BY <1>3
  <2>3. /\ next = "commit" => read \in Files
        /\ next \in Writing => read \subseteq Sources
        /\ next \notin {"commit"} \cup Writing => read = None
    BY DEF Writing
  <2> HIDE DEF b, r
  <2>4. b \in BOOLEAN /\ op[t].text \in Texts /\ op[t].met \in BOOLEAN
    BY <2>1, <1>3 DEF b
  <2>5. IsRequest([op[t] EXCEPT !.at = next, !.read = read, !.spoilt = b])
    BY <1>1, <2>3, <2>4, RequestMoves
  <2> QED
    BY <2>2, <2>5
<1> HIDE DEF r
<1>6. r # None
  BY <1>5, RequestFields
<1>7. ASSUME NEW u \in Threads \ {t}
      PROVE  /\ Keeps(u) /\ Stays(u)
             /\ op'[u] = None \/ IsRequest(op'[u])
             /\ u \in Active' /\ op[u].at \in steps => op'[u].spoilt /\ others # {}
  <2>1. CASE u \in others
    <3>1. op'[u] = [op[u] EXCEPT !.spoilt = TRUE] /\ IsRequest(op[u]) /\ u \in Active
      BY <1>2, <2>1 DEF Active, Typed
    <3>2. op[u] \in [kind: Kinds, pod: Pods, at: Steps, src: Sources, from: Sources,
                     text: Texts, before: Texts \cup {None}, read: {op[u].read},
                     met: BOOLEAN, spoilt: BOOLEAN]
      BY <3>1 DEF IsRequest
    <3>3. SameRequest(u) /\ op'[u].spoilt
      BY <3>1, <3>2 DEF SameRequest
    <3>4. IsRequest(op'[u])
      BY <3>1, <3>2 DEF IsRequest
    <3>5. op'[u] # None
      BY <3>4, RequestFields
    <3> QED
      BY <2>1, <3>1, <3>3, <3>4, <3>5 DEF Keeps, Stays, Active
  <2>2. CASE u \notin others
    <3>1. op'[u] = op[u]
      BY <1>2, <2>2
    <3> QED
      BY <2>2, <3>1 DEF Keeps, Stays, Active, SameRequest, Typed
  <2> QED
    BY <2>1, <2>2
<1> HIDE DEF others
<1>8. op'[t] = r /\ DOMAIN op' = Threads
  BY <1>1, <1>2
<1>9. Typed'
  BY <1>5, <1>7, <1>8 DEF Typed
<1>10. Moved(t, next) /\ op'[t].text = op[t].text /\ op'[t].read = read
       /\ (others # {} => op'[t].spoilt)
  BY <1>1, <1>4, <1>6, <1>8 DEF Moved, Active
<1> QED
  BY <1>7, <1>9, <1>10

-----------------------------------------------------------------------------
\* Type correctness

\* The types of what a request carries.
LEMMA ActiveFields ==
    ASSUME TypeInv, NEW t \in Active
    PROVE  /\ t \in Threads /\ IsRequest(op[t])
           /\ op[t].kind \in Kinds /\ op[t].pod \in Pods /\ op[t].at \in Steps
           /\ op[t].src \in Sources /\ op[t].from \in Sources
           /\ op[t].text \in Texts /\ op[t].before \in Texts \cup {None}
           /\ op[t].met \in BOOLEAN /\ op[t].spoilt \in BOOLEAN
           /\ op[t].at = "commit" => op[t].read \in Files
           /\ op[t].at \in Writing => op[t].read \subseteq Sources
BY RequestFields DEF Active, TypeInv, TypeOK

\* The types of all variables but op and mixed.
RestOK ==
    /\ {md, staged, head} \subseteq Files
    /\ registry = Torn \/ registry \subseteq Sources
    /\ pending \in [Pods -> SUBSET Edit]
    /\ drawn \in 0 .. MaxTexts /\ faults \in 0 .. MaxFaults
    /\ made \subseteq Sources /\ owed \subseteq Texts
    /\ verdicts \in [Texts -> Seq({"written", "rejected"})]
    /\ headGood \subseteq Sources /\ registryGood \subseteq Sources

LEMMA TypeParts == TypeInv <=> Typed /\ RestOK /\ mixed \in BOOLEAN
BY DEF TypeInv, TypeOK, Typed, RestOK

LEMMA InitTypeInv == Init => TypeInv
<1> SUFFICES ASSUME Init
             PROVE  TypeInv
  OBVIOUS
<1> USE WorkspaceAssumption DEF Init
<1>1. 0 \in Texts
  BY DEF Texts
<1>2. md \in Files
  BY <1>1 DEF Files
<1>3. verdicts \in [Texts -> Seq({"written", "rejected"})]
  OBVIOUS
<1>4. pending \in [Pods -> SUBSET Edit]
  OBVIOUS
<1>5. owed \subseteq Texts
  BY <1>1
<1>6. Typed
  BY DEF Typed
<1>7. RestOK
  BY <1>2, <1>3, <1>4, <1>5 DEF RestOK
<1>8. mixed \in BOOLEAN
  OBVIOUS
<1> QED
  BY <1>6, <1>7, <1>8, TypeParts

\* Where a first step leads is where a request may start.
LEMMA FirstSteps ==
    /\ {"save", "upload", "apply", "create", "duplicate", "rename", "delete"} = Kinds
    /\ Copies \subseteq Kinds
    /\ {"add", "write", "copy", "remove", "check"} \subseteq Steps
    /\ \A step \in {"add", "write", "copy", "remove", "check"} :
           step \notin Committing \cup Writing
BY DEF Kinds, Copies, Steps, Committing, Writing

\* The requests that are taken up.
LEMMA FirstOp ==
    ASSUME TypeInv, NEW t \in Threads, NEW p \in Pods
    PROVE  /\ \A s \in Sources : Save(t, p, s) =>
                  /\ Typed' /\ drawn' \in Texts
                  /\ Begin(t, p, "save", s, s, "add", drawn', None)
           /\ \A s \in Sources : Upload(t, p, s) =>
                  /\ Typed' /\ drawn' \in Texts
                  /\ Begin(t, p, "upload", s, s, "add", drawn', None)
           /\ \A s \in Sources : Delete(t, p, s) =>
                  /\ Typed' /\ drawn' \in Texts
                  /\ Begin(t, p, "delete", s, s, "remove", drawn', None)
           /\ \A kind \in Copies, s \in Sources : Copy(t, p, kind, s) =>
                  Typed' /\ drawn' \in Texts
           /\ Create(t, p) => Typed' /\ drawn' \in Texts
           /\ Apply(t, p) => Typed'
<1> USE FirstSteps
<1>1. Typed /\ RestOK
  BY TypeParts
<1>2. Draw => drawn' \in Texts
  BY <1>1, WorkspaceAssumption DEF Draw, Texts, RestOK
<1>3. None \in Texts \cup {None} /\ Texts \subseteq Texts \cup {None}
  OBVIOUS
<1>4. ASSUME NEW s \in Sources, Save(t, p, s)
      PROVE  Typed'
  BY <1>1, <1>2, <1>3, <1>4, BeginOp DEF Save
<1>5. ASSUME NEW s \in Sources, Upload(t, p, s)
      PROVE  Typed'
  BY <1>1, <1>2, <1>3, <1>5, BeginOp DEF Upload
<1>6. ASSUME NEW s \in Sources, Delete(t, p, s)
      PROVE  Typed'
  BY <1>1, <1>2, <1>3, <1>6, BeginOp DEF Delete
<1>7. ASSUME NEW kind \in Copies, NEW from \in Sources, Copy(t, p, kind, from)
      PROVE  Typed'
  <2>1. PICK s \in FreeName : Begin(t, p, kind, s, from, "copy", drawn', None)
    BY <1>7 DEF Copy
  <2>2. s \in Sources /\ drawn' \in Texts
    BY <1>2, <1>7 DEF FreeName, Copy
  <2> QED
    BY <1>1, <1>3, <2>1, <2>2, BeginOp
<1>8. ASSUME Create(t, p)
      PROVE  Typed'
  <2>1. PICK s \in FreeName : Begin(t, p, "create", s, s, "write", drawn', None)
    BY <1>8 DEF Create
  <2>2. s \in Sources /\ drawn' \in Texts
    BY <1>2, <1>8 DEF FreeName, Create
  <2> QED
    BY <1>1, <1>3, <2>1, <2>2, BeginOp
<1>9. ASSUME Apply(t, p)
      PROVE  Typed'
  <2>1. PICK e \in pending[p] :
            Begin(t, p, "apply", e.src, e.src, "check", e.after, e.before)
    BY <1>9 DEF Apply
  <2>2. e \in Edit
    BY <1>1 DEF RestOK
  <2>3. e.src \in Sources /\ e.after \in Texts /\ e.before \in Texts \cup {None}
    BY <2>2 DEF Edit
  <2> QED
    BY <1>1, <2>1, <2>3, BeginOp
<1> QED
  BY <1>2, <1>4, <1>5, <1>6, <1>7, <1>8, <1>9 DEF Save, Upload, Delete, Copy, Create

\* The steps of a request under way, what they do to the requests.
LEMMA CheckOp ==
    ASSUME TypeInv, NEW t \in Threads, Check(t)
    PROVE  /\ Typed' /\ Alone(t) /\ op[t].at = "check" /\ t \in Active
           /\ \/ t \notin Active'
              \/ /\ Moved(t, "write") /\ op'[t].text = op[t].text
                 /\ md[op[t].src] = op[t].before
<1>1. t \in Active /\ op[t].at = "check" /\ Typed /\ "write" \in Steps
      /\ "write" \notin {"commit"} \cup Writing
      /\ "check" \notin {"commit"} \cup Writing
  BY TypeParts DEF Check, At, Steps, Writing
<1> QED
  BY <1>1, EndOp, GotoOp DEF Check

LEMMA WriteTextOp ==
    ASSUME TypeInv, NEW t \in Threads, WriteText(t)
    PROVE  /\ Typed' /\ Alone(t) /\ op[t].at = "write" /\ t \in Active
           /\ Moved(t, "add") /\ op'[t].text = op[t].text
<1>1. t \in Active /\ op[t].at = "write" /\ Typed /\ "add" \in Steps
      /\ "add" \notin {"commit"} \cup Writing
      /\ "write" \notin {"commit"} \cup Writing
  BY TypeParts DEF WriteText, At, Steps, Writing
<1> QED
  BY <1>1, GotoOp DEF WriteText

LEMMA CopyTextOp ==
    ASSUME TypeInv, NEW t \in Threads, CopyText(t)
    PROVE  /\ Typed' /\ Alone(t) /\ op[t].at = "copy" /\ t \in Active
           /\ \/ t \notin Active' /\ md[op[t].from] = None
              \/ /\ Moved(t, "add") /\ op'[t].text = md[op[t].from]
                 /\ md[op[t].from] \in Texts
<1>1. t \in Active /\ op[t].at = "copy" /\ Typed
  BY TypeParts DEF CopyText, At
<1>2. op[t].from \in Sources /\ IsRequest(op[t])
  BY <1>1, ActiveFields
<1>3. md[op[t].from] \in Texts \cup {None}
  BY <1>2, TypeParts DEF RestOK, Files
<1>4. CASE End(t) /\ md[op[t].from] = None
  BY <1>1, <1>4, EndOp
<1>5. ASSUME md[op[t].from] # None,
             op' = [op EXCEPT ![t].at = "add", ![t].text = md[op[t].from]]
      PROVE  /\ Typed' /\ Alone(t)
             /\ Moved(t, "add") /\ op'[t].text = md[op[t].from]
             /\ md[op[t].from] \in Texts
  <2> DEFINE text == md[op[t].from]
             r == [op[t] EXCEPT !.at = "add", !.text = text]
  <2>1. text \in Texts
    BY <1>3, <1>5
  <2> HIDE DEF text
  <2>2. op[t] \in [kind: Kinds, pod: Pods, at: Steps, src: Sources, from: Sources,
                   text: Texts, before: Texts \cup {None}, read: {op[t].read},
                   met: BOOLEAN, spoilt: BOOLEAN]
    BY <1>2 DEF IsRequest
  <2>3. op[t].read = None
    BY <1>1, <1>2, RequestFields DEF Writing
  <2>4. IsRequest(r)
    BY <2>1, <2>2, <2>3 DEF IsRequest, Steps
  <2>5. /\ r.kind = op[t].kind /\ r.pod = op[t].pod /\ r.at = "add"
        /\ r.src = op[t].src /\ r.from = op[t].from /\ r.text = text
        /\ r.before = op[t].before /\ r.met = op[t].met
    BY <2>2
  <2>6. DOMAIN op' = Threads /\ op'[t] = r /\ \A u \in Threads \ {t} : op'[u] = op[u]
    BY <1>1, <1>5 DEF Typed, text
  <2> HIDE DEF r
  <2>7. r # None
    BY <2>4, RequestFields
  <2>8. Typed' /\ Alone(t)
    BY <1>1, <2>4, <2>6, OthersKeep DEF Typed
  <2>9. Moved(t, "add") /\ op'[t].text = text
    BY <1>1, <2>5, <2>6, <2>7 DEF Moved, Active
  <2> QED
    BY <2>1, <2>8, <2>9 DEF text
<1> QED
  BY <1>1, <1>4, <1>5 DEF CopyText

LEMMA AddOp ==
    ASSUME TypeInv, NEW t \in Threads, Add(t)
    PROVE  /\ Typed' /\ op[t].at = "add" /\ t \in Active
           /\ \/ /\ Alone(t) /\ staged' = staged
                 /\ \/ t \notin Active'
                    \/ op[t].kind \in {"create", "duplicate"} /\ Moved(t, "load")
                    \/ op[t].kind = "rename" /\ Moved(t, "remove")
              \/ /\ staged' = [staged EXCEPT ![op[t].src] = md[op[t].src]]
                 /\ Moved(t, "tree")
                 /\ \A u \in Threads \ {t} :
                        /\ Keeps(u) /\ Stays(u)
                        /\ u \in Active' /\ op[u].at \in Committing =>
                               op'[u].spoilt /\ op'[t].spoilt
<1>1. t \in Active /\ op[t].at = "add" /\ Typed
  BY TypeParts DEF Add, At
<1>2. CASE End(t) /\ staged' = staged
  BY <1>1, <1>2, EndOp
<1>3. CASE Proceed(t) /\ staged' = staged
  BY <1>1, <1>3, ProceedOp
<1>4. CASE /\ Enter(t, {"tree", "commit"}, "tree", None)
           /\ staged' = [staged EXCEPT ![op[t].src] = md[op[t].src]]
  <2>1. "tree" \in Steps
    BY DEF Steps
  <2>2. Enter(t, Committing, "tree", None)
    BY <1>4 DEF Committing
  <2>3. /\ Typed' /\ Moved(t, "tree")
        /\ \A u \in Threads \ {t} :
               /\ Keeps(u) /\ Stays(u)
               /\ u \in Active' /\ op[u].at \in Committing =>
                      op'[u].spoilt /\ op'[t].spoilt
    BY <1>1, <2>1, <2>2, EnterOp
  <2> QED
    BY <1>1, <1>4, <2>3
<1> QED
  BY <1>1, <1>2, <1>3, <1>4 DEF Add

LEMMA WriteTreeOp ==
    ASSUME TypeInv, NEW t \in Threads, WriteTree(t)
    PROVE  /\ Typed' /\ Alone(t) /\ op[t].at = "tree" /\ t \in Active
           /\ Moved(t, "commit") /\ op'[t].text = op[t].text
           /\ op'[t].read = staged /\ op'[t].spoilt = op[t].spoilt
<1>1. t \in Active /\ op[t].at = "tree" /\ Typed /\ staged \in Files
  BY TypeParts DEF WriteTree, At, RestOK
<1>2. IsRequest(op[t])
  BY <1>1, ActiveFields
<1>3. op[t] \in [kind: Kinds, pod: Pods, at: Steps, src: Sources, from: Sources,
                 text: Texts, before: Texts \cup {None}, read: {op[t].read},
                 met: BOOLEAN, spoilt: BOOLEAN]
  BY <1>2 DEF IsRequest
<1> DEFINE r == [op[t] EXCEPT !.at = "commit", !.read = staged]
<1>4. IsRequest(r)
  BY <1>1, <1>3 DEF IsRequest, Steps
<1>5. /\ r.kind = op[t].kind /\ r.pod = op[t].pod /\ r.at = "commit"
      /\ r.src = op[t].src /\ r.from = op[t].from /\ r.text = op[t].text
      /\ r.before = op[t].before /\ r.met = op[t].met /\ r.read = staged
      /\ r.spoilt = op[t].spoilt
  BY <1>3
<1>6. DOMAIN op' = Threads /\ op'[t] = r /\ \A u \in Threads \ {t} : op'[u] = op[u]
  BY <1>1 DEF Typed, WriteTree
<1> HIDE DEF r
<1>7. r # None
  BY <1>4, RequestFields
<1>8. Typed' /\ Alone(t)
  BY <1>1, <1>4, <1>6, OthersKeep DEF Typed
<1>9. /\ Moved(t, "commit") /\ op'[t].text = op[t].text
      /\ op'[t].read = staged /\ op'[t].spoilt = op[t].spoilt
  BY <1>1, <1>5, <1>6, <1>7 DEF Moved, Active
<1> QED
  BY <1>1, <1>8, <1>9

LEMMA CommitOp ==
    ASSUME TypeInv, NEW t \in Threads, Commit(t)
    PROVE  /\ Typed' /\ Alone(t) /\ op[t].at = "commit" /\ t \in Active
           /\ \/ t \notin Active'
              \/ op[t].kind \in {"create", "duplicate"} /\ Moved(t, "load")
              \/ op[t].kind = "rename" /\ Moved(t, "remove")
<1>1. t \in Active /\ op[t].at = "commit" /\ Typed
  BY TypeParts DEF Commit, At
<1> QED
  BY <1>1, ProceedOp DEF Commit

LEMMA RemoveOp ==
    ASSUME TypeInv, NEW t \in Threads, Remove(t)
    PROVE  /\ Typed' /\ Alone(t) /\ op[t].at = "remove" /\ t \in Active
           /\ \/ t \notin Active' /\ UNCHANGED <<md, owed, made, headGood>>
              \/ Moved(t, "load")
<1>1. t \in Active /\ op[t].at = "remove" /\ Typed /\ "load" \in Steps
      /\ "load" \notin {"commit"} \cup Writing
      /\ "remove" \notin {"commit"} \cup Writing
  BY TypeParts DEF Remove, At, Steps, Writing
<1> QED
  BY <1>1, EndOp, GotoOp DEF Remove

LEMMA UpdatedType ==
    ASSUME TypeInv, NEW t \in Active
    PROVE  Updated(op[t], Loaded) \subseteq Sources
<1>1. op[t].src \in Sources /\ Loaded \subseteq Sources
  BY ActiveFields, TypeParts DEF RestOK, Loaded
<1> QED
  BY <1>1 DEF Updated

LEMMA LoadOp ==
    ASSUME TypeInv, NEW t \in Threads, Load(t)
    PROVE  /\ Typed' /\ op[t].at = "load" /\ t \in Active
           /\ \/ t \notin Active' /\ Alone(t) /\ op[t].kind = "delete"
                 /\ op[t].src \notin Loaded
                 /\ \/ registryGood' = registryGood
                    \/ Settle(t) /\ \A u \in Active : op[u].at \notin Writing
              \/ /\ Moved(t, "truncate") /\ op'[t].read = Updated(op[t], Loaded)
                 /\ registryGood' = IF registry = Torn THEN {} ELSE registryGood
                 /\ \A u \in Threads \ {t} :
                        /\ Keeps(u) /\ Stays(u)
                        /\ u \in Active' /\ op[u].at \in Writing =>
                               op'[u].spoilt /\ op'[t].spoilt
<1> DEFINE writers == {u \in Active : op[u].at \in {"truncate", "fill"}}
<1>1. t \in Active /\ op[t].at = "load" /\ Typed /\ "truncate" \in Steps
  BY TypeParts DEF Load, At, Steps
<1>2. CASE op[t].kind = "delete" /\ op[t].src \notin Loaded
  <2>1. End(t) /\ IF writers # {} THEN UNCHANGED registryGood ELSE Settle(t)
    BY <1>2 DEF Load
  <2>2. writers = {} => \A u \in Active : op[u].at \notin Writing
    BY DEF Writing
  <2> HIDE DEF writers
  <2> QED
    BY <1>1, <1>2, <2>1, <2>2, EndOp
<1>3. CASE ~(op[t].kind = "delete" /\ op[t].src \notin Loaded)
  <2>1. /\ Enter(t, Writing, "truncate", Updated(op[t], Loaded))
        /\ registryGood' = IF registry = Torn THEN {} ELSE registryGood
    BY <1>3 DEF Load, Writing
  <2>2. Updated(op[t], Loaded) \subseteq Sources
    BY <1>1, UpdatedType
  <2> QED
    BY <1>1, <2>1, <2>2, EnterOp
<1> QED
  BY <1>2, <1>3

LEMMA TruncateOp ==
    ASSUME TypeInv, NEW t \in Threads, Truncate(t)
    PROVE  /\ Typed' /\ Alone(t) /\ op[t].at = "truncate" /\ t \in Active
           /\ Moved(t, "fill")
           /\ op'[t].read = op[t].read /\ op'[t].spoilt = op[t].spoilt
<1>1. t \in Active /\ op[t].at = "truncate" /\ Typed /\ "fill" \in Steps
      /\ "fill" \in Writing /\ "truncate" \in Writing
  BY TypeParts DEF Truncate, At, Steps, Writing
<1> QED
  BY <1>1, GotoOp DEF Truncate

LEMMA FillOp ==
    ASSUME TypeInv, NEW t \in Threads, Fill(t)
    PROVE  /\ Typed' /\ Alone(t) /\ op[t].at = "fill" /\ t \in Active /\ t \notin Active'
<1>1. t \in Active /\ op[t].at = "fill" /\ Typed
  BY TypeParts DEF Fill, At
<1> QED
  BY <1>1, EndOp DEF Fill

LEMMA CrashOp ==
    ASSUME TypeInv, NEW p \in Pods, Crash(p)
    PROVE  /\ Typed'
           /\ \A u \in Threads : /\ Keeps(u)
                                 /\ u \in Active' => op'[u] = op[u]
                                 /\ ~Stays(u) => u \in Active /\ op[u].pod = p
<1>1. op' = [t \in Threads |->
                IF t \in Active /\ op[t].pod = p THEN None ELSE op[t]]
  BY DEF Crash
<1>2. Typed
  BY TypeParts
<1> QED
  BY <1>1, <1>2 DEF Typed, Keeps, Stays, SameRequest, Active

\* Every step keeps the requests typed.
LEMMA NextTyped == TypeInv /\ [Next]_vars => Typed'
<1> SUFFICES ASSUME TypeInv, [Next]_vars
             PROVE  Typed'
  OBVIOUS
<1>1. ASSUME NEW t \in Threads, Step(t)
      PROVE  Typed'
  BY <1>1, CheckOp, WriteTextOp, CopyTextOp, AddOp, WriteTreeOp, CommitOp, RemoveOp,
     LoadOp, TruncateOp, FillOp DEF Step
<1>2. ASSUME NEW s \in Sources, SaveDraft(s)
      PROVE  Typed'
  BY <1>2, MeetsOp, TypeParts DEF SaveDraft
<1>3. ASSUME NEW p \in Pods, Reject(p) \/ Evict(p) \/ \E s \in Sources : Propose(p, s)
      PROVE  Typed'
  BY <1>3, TypeParts DEF Reject, Evict, Propose, Typed
<1>4. CASE UNCHANGED vars
  BY <1>4, TypeParts DEF vars, Typed
<1> QED
  BY <1>1, <1>2, <1>3, <1>4, FirstOp, CrashOp DEF Next

\* A file is written with a text.
LEMMA WriteType ==
    ASSUME RestOK, NEW s \in Sources, NEW x \in Texts, NEW b, Write(s, x, b)
    PROVE  md' \in Files /\ owed' \subseteq Texts
BY DEF RestOK, Files, Write

\* An edit's fate is added.
LEMMA VerdictType ==
    ASSUME RestOK, NEW x \in Texts, NEW v \in {"written", "rejected"}
    PROVE  [verdicts EXCEPT ![x] = Append(@, v)] \in [Texts -> Seq({"written", "rejected"})]
<1>1. verdicts[x] \in Seq({"written", "rejected"})
  BY DEF RestOK
<1>2. Append(verdicts[x], v) \in Seq({"written", "rejected"})
  BY <1>1
<1> QED
  BY <1>2 DEF RestOK

LEMMA NextRest == TypeInv /\ [Next]_vars => RestOK'
<1> SUFFICES ASSUME TypeInv, [Next]_vars
             PROVE  RestOK'
  OBVIOUS
<1>0. RestOK /\ Typed
  BY TypeParts
<1> USE WorkspaceAssumption
<1>1. /\ Fault => faults' \in 0 .. MaxFaults
      /\ Draw => drawn' \in 0 .. MaxTexts /\ drawn' \in Texts
  BY <1>0 DEF RestOK, Fault, Draw, Texts
<1>2. \A t, pod, kind, s, from, step, text, before :
          Begin(t, pod, kind, s, from, step, text, before) =>
              headGood' \subseteq headGood /\ registryGood' \subseteq registryGood
  BY DEF Begin
<1>3. ASSUME NEW t \in Threads, NEW p \in Pods, NEW s \in Sources,
             Save(t, p, s) \/ Upload(t, p, s) \/ Delete(t, p, s)
      PROVE  RestOK'
  <2>1. Draw /\ headGood' \subseteq headGood /\ registryGood' \subseteq registryGood
        /\ UNCHANGED <<staged, head, registry, pending, faults, made, verdicts>>
    BY <1>2, <1>3 DEF Save, Upload, Delete, files
  <2>2. md' \in Files /\ owed' \subseteq Texts
    <3>1. Write(s, drawn', TRUE) \/ UNCHANGED <<md, owed>>
      BY <1>3 DEF Save, Upload, Delete, files
    <3> QED
      BY <1>0, <1>1, <2>1, <3>1, WriteType DEF RestOK
  <2> QED
    BY <1>0, <1>1, <2>1, <2>2 DEF RestOK
<1>4. ASSUME NEW t \in Threads, NEW p \in Pods,
             Create(t, p) \/ \E s \in Sources, kind \in Copies : Copy(t, p, kind, s)
      PROVE  RestOK'
  <2>1. Draw /\ headGood' \subseteq headGood /\ registryGood' \subseteq registryGood
        /\ UNCHANGED <<files, registry, pending, faults, made, owed, verdicts>>
    BY <1>2, <1>4 DEF Create, Copy
  <2> QED
    BY <1>0, <1>1, <2>1 DEF RestOK, files
<1>5. ASSUME NEW t \in Threads, NEW p \in Pods, Apply(t, p)
      PROVE  RestOK'
  <2>1. headGood' \subseteq headGood /\ registryGood' \subseteq registryGood
        /\ UNCHANGED <<files, registry, drawn, faults, made, owed, verdicts>>
    BY <1>2, <1>5 DEF Apply
  <2>2. pending' \in [Pods -> SUBSET Edit]
    BY <1>0, <1>5 DEF Apply, RestOK
  <2> QED
    BY <1>0, <2>1, <2>2 DEF RestOK, files
<1>6. ASSUME NEW s \in Sources, SaveDraft(s)
      PROVE  RestOK'
  <2>1. md' \in Files /\ owed' \subseteq Texts
    BY <1>0, <1>1, <1>6, WriteType DEF SaveDraft
  <2> QED
    BY <1>0, <1>1, <1>6, <2>1 DEF SaveDraft, RestOK
<1>7. ASSUME NEW p \in Pods, NEW s \in Sources, Propose(p, s)
      PROVE  RestOK'
  <2>1. [src |-> s, before |-> md[s], after |-> drawn'] \in Edit
    BY <1>0, <1>1, <1>7 DEF Propose, Edit, RestOK, Files
  <2>2. pending' \in [Pods -> SUBSET Edit]
    BY <1>0, <1>7, <2>1 DEF Propose, RestOK
  <2> QED
    BY <1>0, <1>1, <1>7, <2>2 DEF Propose, RestOK, files, history
<1>8. ASSUME NEW p \in Pods, Reject(p) \/ Evict(p)
      PROVE  RestOK'
  <2>1. PICK e \in pending[p] :
            /\ pending' = [pending EXCEPT ![p] = @ \ {e}]
            /\ \/ UNCHANGED verdicts
               \/ verdicts' = [verdicts EXCEPT ![e.after] = Append(@, "rejected")]
    BY <1>8 DEF Reject, Evict, history
  <2>2. e.after \in Texts
    BY <1>0, <2>1 DEF RestOK, Edit
  <2>3. verdicts' \in [Texts -> Seq({"written", "rejected"})]
    BY <1>0, <2>1, <2>2, VerdictType DEF RestOK
  <2>4. pending' \in [Pods -> SUBSET Edit]
    BY <1>0, <2>1 DEF RestOK
  <2> QED
    BY <1>0, <1>8, <2>3, <2>4 DEF Reject, Evict, RestOK, files, history
<1>9. ASSUME NEW p \in Pods, Crash(p)
      PROVE  RestOK'
  <2>1. pending' \in [Pods -> SUBSET Edit] /\ registryGood' \subseteq Sources
    BY <1>0, <1>9 DEF Crash, RestOK
  <2> QED
    BY <1>0, <1>1, <1>9, <2>1 DEF Crash, RestOK, files
<1>10. ASSUME NEW t \in Threads, Check(t) \/ WriteTree(t)
       PROVE  RestOK'
  BY <1>0, <1>10 DEF Check, WriteTree, RestOK, files, history
<1>11. ASSUME NEW t \in Threads, WriteText(t)
       PROVE  RestOK'
  <2>1. op[t].src \in Sources /\ op[t].text \in Texts
    BY <1>11, WriteTextOp, ActiveFields
  <2>2. md' \in Files /\ owed' \subseteq Texts
    BY <1>0, <1>11, <2>1, WriteType DEF WriteText
  <2>3. verdicts' \in [Texts -> Seq({"written", "rejected"})]
    <3>1. verdicts' = verdicts
          \/ verdicts' = [verdicts EXCEPT ![op[t].text] = Append(@, "written")]
      BY <1>11 DEF WriteText
    <3> QED
      BY <1>0, <2>1, <3>1, VerdictType DEF RestOK
  <2>4. made' \subseteq Sources /\ headGood' \subseteq Sources
    BY <1>0, <1>11, <2>1 DEF WriteText, RestOK
  <2> QED
    BY <1>0, <1>11, <2>2, <2>3, <2>4 DEF WriteText, RestOK
<1>12. ASSUME NEW t \in Threads, CopyText(t)
       PROVE  RestOK'
  <2>1. op[t].src \in Sources /\ md[op[t].from] \in Texts \cup {None}
    BY <1>0, <1>12, CopyTextOp, ActiveFields DEF RestOK, Files
  <2>2. md' \in Files /\ owed' \subseteq Texts
    <3>1. (md[op[t].from] # None /\ Write(op[t].src, md[op[t].from], op[t].met))
          \/ UNCHANGED <<md, owed>>
      BY <1>12 DEF CopyText
    <3> QED
      BY <1>0, <2>1, <3>1, WriteType DEF RestOK
  <2>3. made' \subseteq Sources /\ headGood' \subseteq Sources
    BY <1>0, <1>12, <2>1 DEF CopyText, RestOK
  <2> QED
    BY <1>0, <1>12, <2>2, <2>3 DEF CopyText, RestOK
<1>13. ASSUME NEW t \in Threads, Add(t)
       PROVE  RestOK'
  <2>1. op[t].src \in Sources
    BY <1>13, AddOp, ActiveFields
  <2>2. staged' \in Files
    BY <1>0, <1>13, <2>1 DEF Add, RestOK, Files
  <2>3. faults' \in 0 .. MaxFaults
    BY <1>0, <1>1, <1>13 DEF Add, RestOK
  <2> QED
    BY <1>0, <1>13, <2>2, <2>3 DEF Add, RestOK, history
<1>14. ASSUME NEW t \in Threads, Commit(t)
       PROVE  RestOK'
  <2>1. op[t].src \in Sources /\ op[t].read \in Files
    BY <1>14, CommitOp, ActiveFields
  <2>2. head' \in Files /\ headGood' \subseteq Sources /\ faults' \in 0 .. MaxFaults
    BY <1>0, <1>1, <1>14, <2>1 DEF Commit, RestOK
  <2> QED
    BY <1>0, <1>14, <2>2 DEF Commit, RestOK
<1>15. ASSUME NEW t \in Threads, Remove(t)
       PROVE  RestOK'
  <2>1. faults' \in 0 .. MaxFaults
    BY <1>0, <1>1, <1>15 DEF Remove, RestOK
  <2>2. md' \in Files
    BY <1>0, <1>15 DEF Remove, RestOK, Files
  <2>3. owed' \subseteq Texts /\ made' \subseteq Sources /\ headGood' \subseteq Sources
    BY <1>0, <1>15 DEF Remove, RestOK
  <2> QED
    BY <1>0, <1>15, <2>1, <2>2, <2>3 DEF Remove, RestOK
<1>16. ASSUME NEW t \in Threads, Load(t) \/ Fill(t)
       PROVE  RestOK'
  <2>1. t \in Active
    BY <1>16, LoadOp, FillOp
  <2>2. op[t].src \in Sources /\ op[t].from \in Sources
    BY <2>1, ActiveFields
  <2>3. Entries(op[t].kind, op[t].src, op[t].from) \subseteq Sources
    BY <2>2 DEF Entries
  <2>4. registryGood' \subseteq Sources
    <3>1. Settle(t) \/ registryGood' \in {registryGood, {}}
      BY <1>16 DEF Load, Fill
    <3> QED
      BY <1>0, <2>3, <3>1 DEF Settle, RestOK
  <2>5. registry' \in {registry, Torn} \/ registry' \subseteq Sources
    <3>1. CASE Load(t)
      BY <3>1 DEF Load
    <3>2. CASE Fill(t)
      <4>1. op[t].at = "fill" /\ registry' \in {op[t].read, Torn}
        BY <3>2 DEF Fill, At
      <4> QED
        BY <2>1, <4>1, ActiveFields DEF Writing
    <3> QED
      BY <1>16, <3>1, <3>2
  <2> QED
    BY <1>0, <1>16, <2>4, <2>5 DEF Load, Fill, RestOK, files
<1>17. ASSUME NEW t \in Threads, Truncate(t)
       PROVE  RestOK'
  BY <1>0, <1>17 DEF Truncate, RestOK, files, history
<1>18. CASE UNCHANGED vars
  BY <1>0, <1>18 DEF vars, RestOK, files, history
<1> QED
  BY <1>3, <1>4, <1>5, <1>6, <1>7, <1>8, <1>9, <1>10, <1>11, <1>12, <1>13, <1>14,
     <1>15, <1>16, <1>17, <1>18 DEF Next, Step

LEMMA NextMixed == TypeInv /\ [Next]_vars => mixed' \in BOOLEAN
<1> SUFFICES ASSUME TypeInv, [Next]_vars
             PROVE  mixed' \in BOOLEAN
  OBVIOUS
<1>1. (\E u \in Active : op[u].at = "fill") \in BOOLEAN
  OBVIOUS
<1>2. \/ mixed' = mixed
      \/ mixed' = \E u \in Active : op[u].at = "fill"
  BY DEF Next, Step, Save, Upload, Delete, Copy, Create, Apply, SaveDraft, Propose,
         Reject, Evict, Crash, Check, WriteText, CopyText, Add, WriteTree, Commit,
         Remove, Load, Truncate, Fill, vars
<1> QED
  BY <1>1, <1>2, TypeParts

LEMMA NextTypeInv == TypeInv /\ [Next]_vars => TypeInv'
<1>1. (Typed /\ RestOK /\ mixed \in BOOLEAN)' => TypeInv'
  BY DEF TypeInv, TypeOK, Typed, RestOK
<1> QED
  BY <1>1, NextTyped, NextRest, NextMixed

\* Type correctness, for every number of documents, pods, requests and faults.
THEOREM WorkspaceTypeCorrect == Spec => []TypeOK
<1>1. TypeInv => TypeOK
  BY DEF TypeInv
<1> QED
  BY <1>1, InitTypeInv, NextTypeInv, PTL DEF Spec

-----------------------------------------------------------------------------
\* An edit meets one fate

LEMMA InitOneFate == Init => OneFate
<1> SUFFICES ASSUME Init
             PROVE  OneFate
  OBVIOUS
<1>1. /\ \A p \in Pods : pending[p] = {}
      /\ \A x \in Texts : verdicts[x] = <<>>
      /\ \A t \in Threads : t \notin Active
  BY DEF Init, Active
<1>2. EditDecidedOnce
  BY <1>1 DEF EditDecidedOnce
<1> QED
  BY <1>1, <1>2 DEF OneFate, Undecided

\* What the invariant is about is of the right type.
LEMMA TypeFate ==
    ASSUME TypeInv
    PROVE  /\ Texts \subseteq Int /\ drawn \in Int
           /\ \A p \in Pods : \A e \in pending[p] : e.after \in Texts
           /\ \A u \in Threads : Undecided(u) => op[u].text \in Texts
<1>1. Texts \subseteq Int /\ drawn \in Int
  BY TypeParts, WorkspaceAssumption DEF Texts, RestOK
<1>2. ASSUME NEW p \in Pods, NEW e \in pending[p]
      PROVE  e.after \in Texts
  BY TypeParts DEF RestOK, Edit
<1>3. ASSUME NEW u \in Threads, Undecided(u)
      PROVE  op[u].text \in Texts
  BY <1>3, ActiveFields DEF Undecided
<1> QED
  BY <1>1, <1>2, <1>3

\* Edits may leave a stash, requests may go on or end.
LEMMA FateFrame ==
    ASSUME OneFate, drawn \in Int, drawn' \in Int, drawn' >= drawn,
           Texts \subseteq Int,
           verdicts' = verdicts,
           \A p \in Pods : pending'[p] \subseteq pending[p],
           \A p \in Pods : \A e \in pending[p] : e.after \in Texts,
           \A u \in Threads : Undecided(u)' =>
               Undecided(u) /\ op'[u].text = op[u].text /\ op[u].text \in Texts
    PROVE  OneFate'
<1>1. \A p, q \in Pods : \A e \in pending'[p], f \in pending'[q] :
          e.after = f.after => p = q /\ e = f
  BY DEF OneFate
<1>2. \A p \in Pods : \A e \in pending'[p] :
          /\ e.after <= drawn' /\ verdicts'[e.after] = <<>>
          /\ \A t \in Threads : Undecided(t)' => op'[t].text # e.after
  <2> SUFFICES ASSUME NEW p \in Pods, NEW e \in pending'[p]
               PROVE  /\ e.after <= drawn' /\ verdicts'[e.after] = <<>>
                      /\ \A t \in Threads : Undecided(t)' => op'[t].text # e.after
    OBVIOUS
  <2>1. e \in pending[p] /\ e.after \in Int
    OBVIOUS
  <2>2. e.after <= drawn
    BY <2>1 DEF OneFate
  <2>3. e.after <= drawn'
    BY <2>1, <2>2
  <2> QED
    BY <2>1, <2>3 DEF OneFate
<1>3. \A t \in Threads : Undecided(t)' =>
          op'[t].text <= drawn' /\ verdicts'[op'[t].text] = <<>>
  <2> SUFFICES ASSUME NEW t \in Threads, Undecided(t)'
               PROVE  op'[t].text <= drawn' /\ verdicts'[op'[t].text] = <<>>
    OBVIOUS
  <2>1. op'[t].text \in Int /\ op'[t].text <= drawn /\ verdicts[op'[t].text] = <<>>
    BY DEF OneFate
  <2> QED
    BY <2>1
<1>4. \A t, u \in Threads :
          Undecided(t)' /\ Undecided(u)' /\ op'[t].text = op'[u].text => t = u
  BY DEF OneFate
<1>5. \A x \in Texts : x > drawn' => verdicts'[x] = <<>>
  BY DEF OneFate
<1>6. EditDecidedOnce'
  BY DEF OneFate, EditDecidedOnce
<1> QED
  BY <1>1, <1>2, <1>3, <1>4, <1>5, <1>6 DEF OneFate

\* A verdict is passed on an edit that nobody holds any more.
LEMMA FateDecided ==
    ASSUME OneFate, TypeInv, UNCHANGED drawn, NEW x \in Texts, x <= drawn,
           verdicts[x] = <<>>, NEW v \in {"written", "rejected"},
           verdicts' = [verdicts EXCEPT ![x] = Append(@, v)],
           \A p \in Pods : pending'[p] \subseteq pending[p],
           \A p \in Pods : \A e \in pending'[p] : e.after # x,
           \A u \in Threads : Undecided(u)' =>
               Undecided(u) /\ op'[u].text = op[u].text /\ op[u].text # x
    PROVE  OneFate'
<1>1. /\ Texts \subseteq Int /\ drawn \in Int
      /\ \A p \in Pods : \A e \in pending[p] : e.after \in Texts
      /\ \A u \in Threads : Undecided(u) => op[u].text \in Texts
  BY TypeFate
<1>2. verdicts'[x] = <<v>> /\ \A y \in Texts : y # x => verdicts'[y] = verdicts[y]
  BY TypeParts DEF RestOK
<1>3. \A p, q \in Pods : \A e \in pending'[p], f \in pending'[q] :
          e.after = f.after => p = q /\ e = f
  BY DEF OneFate
<1>4. ASSUME NEW p \in Pods, NEW e \in pending'[p]
      PROVE  /\ e.after <= drawn' /\ verdicts'[e.after] = <<>>
             /\ \A t \in Threads : Undecided(t)' => op'[t].text # e.after
  BY <1>1, <1>2, <1>4 DEF OneFate
<1>5. ASSUME NEW t \in Threads, Undecided(t)'
      PROVE  op'[t].text <= drawn' /\ verdicts'[op'[t].text] = <<>>
  BY <1>1, <1>2, <1>5 DEF OneFate
<1>6. \A t, u \in Threads :
          Undecided(t)' /\ Undecided(u)' /\ op'[t].text = op'[u].text => t = u
  BY DEF OneFate
<1>7. ASSUME NEW y \in Texts, y > drawn'
      PROVE  verdicts'[y] = <<>>
  <2>1. y # x
    BY <1>1, <1>7
  <2> QED
    BY <1>2, <1>7, <2>1 DEF OneFate
<1>8. ASSUME NEW y \in Texts
      PROVE  Len(verdicts'[y]) <= 1
  BY <1>2 DEF OneFate, EditDecidedOnce
<1> QED
  BY <1>3, <1>4, <1>5, <1>6, <1>7, <1>8 DEF OneFate, EditDecidedOnce

\* A step that takes up no edit and passes no verdict.
LEMMA FateStep ==
    ASSUME OneFate, TypeInv, drawn' = drawn \/ Draw,
           verdicts' = verdicts,
           \A p \in Pods : pending'[p] \subseteq pending[p],
           NEW t,
           \A u \in Threads \ {t} : Keeps(u),
           Undecided(t)' => Undecided(t) /\ op'[t].text = op[t].text
    PROVE  OneFate'
<1>1. /\ Texts \subseteq Int /\ drawn \in Int
      /\ \A p \in Pods : \A e \in pending[p] : e.after \in Texts
      /\ \A u \in Threads : Undecided(u) => op[u].text \in Texts
  BY TypeFate
<1>2. drawn' \in Int /\ drawn' >= drawn
  BY <1>1 DEF Draw
<1>3. \A u \in Threads : Undecided(u)' =>
          Undecided(u) /\ op'[u].text = op[u].text /\ op[u].text \in Texts
  BY <1>1 DEF Undecided, Keeps, SameRequest
<1> QED
  BY <1>1, <1>2, <1>3, FateFrame

\* The preview of an edit goes to its pod's stash with a fresh text.
LEMMA ProposeFate ==
    ASSUME OneFate, TypeInv, NEW p \in Pods, NEW s \in Sources, Propose(p, s)
    PROVE  OneFate'
<1> DEFINE new == [src |-> s, before |-> md[s], after |-> drawn']
<1>1. /\ Texts \subseteq Int /\ drawn \in Int
      /\ \A q \in Pods : \A e \in pending[q] : e.after \in Texts
      /\ \A u \in Threads : Undecided(u) => op[u].text \in Texts
  BY TypeFate
<1>2. drawn' = drawn + 1 /\ drawn' \in Texts
      /\ UNCHANGED <<op, verdicts>>
  BY TypeParts, WorkspaceAssumption DEF Propose, Draw, RestOK, Texts, history
<1>3. \A q \in Pods : \A e \in pending'[q] :
          e \in pending[q] \/ (q = p /\ e = new)
  BY TypeParts DEF Propose, RestOK
<1>4. new.after = drawn'
  OBVIOUS
<1> HIDE DEF new
<1>5. \A q \in Pods : \A e \in pending[q] : e.after <= drawn /\ e.after # drawn'
  BY <1>1, <1>2 DEF OneFate
<1>6. \A u \in Threads : Undecided(u)' <=> Undecided(u)
  BY <1>2 DEF Undecided, Active
<1>7. \A u \in Threads : Undecided(u) => op[u].text <= drawn /\ op[u].text # drawn'
  BY <1>1, <1>2 DEF OneFate
<1>8. \A q, r \in Pods : \A e \in pending'[q], f \in pending'[r] :
          e.after = f.after => q = r /\ e = f
  BY <1>3, <1>4, <1>5 DEF OneFate
<1>9. ASSUME NEW q \in Pods, NEW e \in pending'[q]
      PROVE  /\ e.after <= drawn' /\ verdicts'[e.after] = <<>>
             /\ \A t \in Threads : Undecided(t)' => op'[t].text # e.after
  <2>1. CASE e \in pending[q]
    <3>1. e.after \in Int /\ e.after <= drawn
      BY <1>1, <1>5, <2>1
    <3>2. e.after <= drawn'
      BY <1>1, <1>2, <3>1
    <3> QED
      BY <1>2, <1>6, <2>1, <3>2 DEF OneFate
  <2>2. CASE e = new
    <3>1. e.after = drawn' /\ drawn' > drawn
      BY <1>1, <1>2, <1>4, <2>2
    <3> QED
      BY <1>1, <1>2, <1>6, <1>7, <3>1 DEF OneFate
  <2> QED
    BY <1>3, <2>1, <2>2
<1>10. ASSUME NEW t \in Threads, Undecided(t)'
       PROVE  op'[t].text <= drawn' /\ verdicts'[op'[t].text] = <<>>
  <2>1. Undecided(t) /\ op'[t].text = op[t].text /\ op[t].text \in Int
        /\ op[t].text <= drawn
    BY <1>1, <1>2, <1>6, <1>7, <1>10
  <2>2. op'[t].text <= drawn'
    BY <1>1, <1>2, <2>1
  <2> QED
    BY <1>2, <2>1, <2>2 DEF OneFate
<1>11. \A t, u \in Threads :
           Undecided(t)' /\ Undecided(u)' /\ op'[t].text = op'[u].text => t = u
  BY <1>2, <1>6 DEF OneFate
<1>12. ASSUME NEW y \in Texts, y > drawn'
       PROVE  verdicts'[y] = <<>>
  BY <1>1, <1>2, <1>12 DEF OneFate
<1>13. EditDecidedOnce'
  BY <1>2 DEF OneFate, EditDecidedOnce
<1> QED
  BY <1>8, <1>9, <1>10, <1>11, <1>12, <1>13 DEF OneFate

\* The edit moves from the stash to the request.
LEMMA ApplyFate ==
    ASSUME OneFate, TypeInv, NEW t \in Threads, NEW p \in Pods, Apply(t, p)
    PROVE  OneFate'
<1>1. PICK e \in pending[p] :
          /\ Begin(t, p, "apply", e.src, e.src, "check", e.after, e.before)
          /\ pending' = [pending EXCEPT ![p] = @ \ {e}]
  BY DEF Apply
<1>2. /\ Texts \subseteq Int /\ drawn \in Int
      /\ \A q \in Pods : \A f \in pending[q] : f.after \in Texts
      /\ \A u \in Threads : Undecided(u) => op[u].text \in Texts
  BY TypeFate
<1>3. e \in Edit /\ e.src \in Sources /\ e.after \in Texts
      /\ e.before \in Texts \cup {None}
  BY TypeParts DEF RestOK, Edit
<1>4. /\ \A u \in Threads \ {t} : Keeps(u)
      /\ t \notin Active /\ op'[t].text = e.after
  <2>1. /\ "apply" \in Kinds /\ "check" \in Steps
        /\ "check" \notin Committing \cup Writing /\ Typed
    BY FirstSteps, TypeParts
  <2>2. \A u \in Threads \ {t} : Keeps(u) /\ Stays(u)
    BY <1>1, <1>3, <2>1, BeginOp
  <2>3. Begun(t, p, "apply", e.src, e.src, "check", e.after, e.before)
    BY <1>1, <1>3, <2>1, BeginOp
  <2> QED
    BY <2>2, <2>3 DEF Begun
<1>5. UNCHANGED <<drawn, verdicts>>
  BY DEF Apply
<1>6. \A q \in Pods : /\ pending'[q] \subseteq pending[q]
                      /\ \A f \in pending'[q] : f.after # e.after
  BY <1>1, TypeParts DEF RestOK, OneFate
<1>7. e.after <= drawn /\ verdicts[e.after] = <<>>
      /\ \A u \in Threads : Undecided(u) => op[u].text # e.after
  BY DEF OneFate
<1>8. \A u \in Threads : u # t /\ Undecided(u)' =>
          Undecided(u) /\ op'[u].text = op[u].text
  BY <1>4 DEF Undecided, Keeps, SameRequest
<1>9. \A q, r \in Pods : \A f \in pending'[q], g \in pending'[r] :
          f.after = g.after => q = r /\ f = g
  BY <1>6 DEF OneFate
<1>10. ASSUME NEW q \in Pods, NEW f \in pending'[q]
       PROVE  /\ f.after <= drawn' /\ verdicts'[f.after] = <<>>
              /\ \A u \in Threads : Undecided(u)' => op'[u].text # f.after
  BY <1>4, <1>5, <1>6, <1>8 DEF OneFate
<1>11. ASSUME NEW u \in Threads, Undecided(u)'
       PROVE  op'[u].text <= drawn' /\ verdicts'[op'[u].text] = <<>>
  BY <1>4, <1>5, <1>7, <1>8, <1>11 DEF OneFate
<1>12. \A u, w \in Threads :
           Undecided(u)' /\ Undecided(w)' /\ op'[u].text = op'[w].text => u = w
  BY <1>4, <1>7, <1>8 DEF OneFate
<1>13. \A y \in Texts : y > drawn' => verdicts'[y] = <<>>
  BY <1>5 DEF OneFate
<1>14. EditDecidedOnce'
  BY <1>5 DEF OneFate, EditDecidedOnce
<1> QED
  BY <1>9, <1>10, <1>11, <1>12, <1>13, <1>14 DEF OneFate

\* A rejected edit leaves the stash, an approved one is written.
LEMMA VerdictFate ==
    ASSUME OneFate, TypeInv
    PROVE  /\ \A p \in Pods : Reject(p) => OneFate'
           /\ \A t \in Threads : WriteText(t) => OneFate'
<1>1. ASSUME NEW p \in Pods, Reject(p)
      PROVE  OneFate'
  <2>1. PICK e \in pending[p] :
            /\ pending' = [pending EXCEPT ![p] = @ \ {e}]
            /\ verdicts' = [verdicts EXCEPT ![e.after] = Append(@, "rejected")]
            /\ UNCHANGED <<op, drawn>>
    BY <1>1 DEF Reject
  <2>2. e.after \in Texts
    BY TypeFate
  <2>3. \A q \in Pods : /\ pending'[q] \subseteq pending[q]
                        /\ \A f \in pending'[q] : f.after # e.after
    BY <2>1, TypeParts DEF RestOK, OneFate
  <2>4. \A u \in Threads : Undecided(u)' =>
            Undecided(u) /\ op'[u].text = op[u].text /\ op[u].text # e.after
    BY <2>1 DEF Undecided, Active, OneFate
  <2>5. e.after <= drawn /\ verdicts[e.after] = <<>>
    BY DEF OneFate
  <2> QED
    BY <2>1, <2>2, <2>3, <2>4, <2>5, FateDecided
<1>2. ASSUME NEW t \in Threads, WriteText(t)
      PROVE  OneFate'
  <2>1. /\ Alone(t) /\ op[t].at = "write" /\ t \in Active /\ Moved(t, "add")
        /\ UNCHANGED <<pending, drawn>>
    BY <1>2, WriteTextOp DEF WriteText
  <2>2. \A u \in Threads \ {t} : Keeps(u)
    BY <2>1 DEF Alone
  <2>3. ~Undecided(t)'
    BY <2>1 DEF Moved, Undecided
  <2>4. CASE op[t].kind # "apply"
    <3>1. verdicts' = verdicts
      BY <1>2, <2>4 DEF WriteText
    <3> QED
      BY <2>1, <2>2, <2>3, <3>1, FateStep
  <2>5. CASE op[t].kind = "apply"
    <3>1. verdicts' = [verdicts EXCEPT ![op[t].text] = Append(@, "written")]
      BY <1>2, <2>5 DEF WriteText
    <3>2. Undecided(t)
      BY <2>1, <2>5 DEF Undecided
    <3>3. op[t].text \in Texts
      BY <3>2, TypeFate
    <3>4. \A u \in Threads : Undecided(u)' =>
              Undecided(u) /\ op'[u].text = op[u].text /\ op[u].text # op[t].text
      BY <2>2, <2>3, <3>2 DEF Undecided, Keeps, SameRequest, OneFate
    <3>5. op[t].text <= drawn /\ verdicts[op[t].text] = <<>>
      BY <3>2 DEF OneFate
    <3>6. \A q \in Pods : \A f \in pending'[q] : f.after # op[t].text
      BY <2>1, <3>2 DEF OneFate
    <3> QED
      BY <2>1, <3>1, <3>3, <3>4, <3>5, <3>6, FateDecided
  <2> QED
    BY <2>4, <2>5
<1> QED
  BY <1>1, <1>2

LEMMA NextFate == TypeInv /\ OneFate /\ [Next]_vars => OneFate'
<1> SUFFICES ASSUME TypeInv, OneFate, [Next]_vars
             PROVE  OneFate'
  OBVIOUS
<1> USE FirstSteps
<1>0. Typed /\ RestOK
  BY TypeParts
<1>1. ASSUME NEW t \in Threads, NEW kind \in Kinds, kind # "apply", NEW p \in Pods,
             NEW s \in Sources, NEW from \in Sources,
             NEW step \in {"add", "write", "copy", "remove"}, NEW text \in Texts,
             Begin(t, p, kind, s, from, step, text, None),
             drawn' = drawn \/ Draw, UNCHANGED <<pending, verdicts>>
      PROVE  OneFate'
  <2>1. /\ \A u \in Threads \ {t} : Keeps(u)
        /\ op'[t].kind = kind
    <3>1. step \in Steps /\ step \notin Committing \cup Writing
          /\ None \in Texts \cup {None}
      OBVIOUS
    <3>2. \A u \in Threads \ {t} : Keeps(u) /\ Stays(u)
      BY <1>0, <1>1, <3>1, BeginOp
    <3>3. Begun(t, p, kind, s, from, step, text, None)
      BY <1>0, <1>1, <3>1, BeginOp
    <3> QED
      BY <3>2, <3>3 DEF Begun
  <2>2. ~Undecided(t)'
    BY <1>1, <2>1 DEF Undecided
  <2> QED
    BY <1>1, <2>1, <2>2, FateStep
<1>2. ASSUME NEW t \in Threads, NEW p \in Pods, NEW s \in Sources,
             Save(t, p, s) \/ Upload(t, p, s) \/ Delete(t, p, s)
      PROVE  OneFate'
  <2>1. drawn' \in Texts /\ Draw /\ UNCHANGED <<pending, verdicts>>
    BY <1>2, FirstOp DEF Save, Upload, Delete
  <2>2. \/ Begin(t, p, "save", s, s, "add", drawn', None)
        \/ Begin(t, p, "upload", s, s, "add", drawn', None)
        \/ Begin(t, p, "delete", s, s, "remove", drawn', None)
    BY <1>2 DEF Save, Upload, Delete
  <2> QED
    BY <1>1, <2>1, <2>2
<1>3. ASSUME NEW t \in Threads, NEW p \in Pods, NEW from \in Sources,
             NEW kind \in Copies, Copy(t, p, kind, from)
      PROVE  OneFate'
  <2>1. drawn' \in Texts /\ Draw /\ UNCHANGED <<pending, verdicts>>
    BY <1>3, FirstOp DEF Copy
  <2>2. PICK s \in FreeName : Begin(t, p, kind, s, from, "copy", drawn', None)
    BY <1>3 DEF Copy
  <2>3. s \in Sources /\ kind # "apply" /\ kind \in Kinds
    BY DEF FreeName, Copies
  <2> QED
    BY <1>1, <2>1, <2>2, <2>3
<1>4. ASSUME NEW t \in Threads, NEW p \in Pods, Create(t, p)
      PROVE  OneFate'
  <2>1. drawn' \in Texts /\ Draw /\ UNCHANGED <<pending, verdicts>>
    BY <1>4, FirstOp DEF Create
  <2>2. PICK s \in FreeName : Begin(t, p, "create", s, s, "write", drawn', None)
    BY <1>4 DEF Create
  <2>3. s \in Sources
    BY DEF FreeName
  <2> QED
    BY <1>1, <2>1, <2>2, <2>3
<1>5. ASSUME NEW s \in Sources, SaveDraft(s)
      PROVE  OneFate'
  <2>1. /\ Draw /\ UNCHANGED <<pending, verdicts>>
        /\ \A u \in Threads : Keeps(u)
    BY <1>0, <1>5, MeetsOp DEF SaveDraft
  <2>2. \A t : Undecided(t)' => t \in Threads
    BY DEF Undecided, Active
  <2>3. \A t : Undecided(t)' => Undecided(t) /\ op'[t].text = op[t].text
    BY <2>1, <2>2 DEF Undecided, Keeps, SameRequest
  <2> QED
    BY <2>1, <2>3, FateStep
<1>6. ASSUME NEW p \in Pods, Evict(p)
      PROVE  OneFate'
  <2>1. /\ UNCHANGED <<op, drawn, verdicts>>
        /\ \A q \in Pods : pending'[q] \subseteq pending[q]
    BY <1>0, <1>6 DEF Evict, RestOK, history
  <2>2. \A t : /\ t \in Threads => Keeps(t)
               /\ Undecided(t)' => Undecided(t) /\ op'[t].text = op[t].text
    BY <2>1 DEF Keeps, SameRequest, Undecided, Active
  <2> QED
    BY <2>1, <2>2, FateStep
<1>7. ASSUME NEW p \in Pods, Crash(p)
      PROVE  OneFate'
  <2>1. /\ UNCHANGED <<drawn, verdicts>>
        /\ \A q \in Pods : pending'[q] \subseteq pending[q]
    BY <1>0, <1>7 DEF Crash, RestOK
  <2>2. \A u \in Threads : Keeps(u)
    BY <1>7, CrashOp
  <2>3. \A t : Undecided(t)' => Undecided(t) /\ op'[t].text = op[t].text
    BY <2>2 DEF Undecided, Active, Keeps, SameRequest
  <2> QED
    BY <2>1, <2>2, <2>3, FateStep
<1>8. ASSUME NEW t \in Threads, Step(t), ~WriteText(t)
      PROVE  OneFate'
  <2>1. UNCHANGED <<pending, drawn, verdicts>>
    BY <1>8 DEF Step, Check, CopyText, Add, WriteTree, Commit, Remove, Load, Truncate,
                Fill, history
  <2>2. \A u \in Threads \ {t} : Keeps(u)
    BY <1>8, CheckOp, CopyTextOp, AddOp, WriteTreeOp, CommitOp, RemoveOp, LoadOp,
       TruncateOp, FillOp DEF Step, Alone
  <2>3. \/ t \notin Active'
        \/ \E step \in Steps \ {"check", "write"} : Moved(t, step)
        \/ t \in Active /\ op[t].at = "check" /\ Moved(t, "write")
              /\ op'[t].text = op[t].text
    BY <1>8, CheckOp, CopyTextOp, AddOp, WriteTreeOp, CommitOp, RemoveOp, LoadOp,
       TruncateOp, FillOp DEF Step, Steps
  <2>4. Undecided(t)' => Undecided(t) /\ op'[t].text = op[t].text
    BY <2>3 DEF Undecided, Moved
  <2> QED
    BY <2>1, <2>2, <2>4, FateStep
<1>9. CASE UNCHANGED vars
  BY <1>9 DEF vars, OneFate, Undecided, Active, EditDecidedOnce, history
<1> QED
  BY <1>2, <1>3, <1>4, <1>5, <1>6, <1>7, <1>8, <1>9, ProposeFate, ApplyFate,
     VerdictFate DEF Next

\* An edit is written once, or rejected, or neither, for every number of pods,
\* edits and requests, whatever is evicted and whichever pod dies.
THEOREM EditsDecidedOnce == Spec => []EditDecidedOnce
<1>1. OneFate => EditDecidedOnce
  BY DEF OneFate
<1> QED
  BY <1>1, InitTypeInv, NextTypeInv, InitOneFate, NextFate, PTL DEF Spec

-----------------------------------------------------------------------------
\* What a request has is its own until another comes upon its document

\* Only the requests in T act, on these documents; those on them are told.
Acts(T, docs) ==
    /\ \A t, u \in T : t = u
    /\ \A u \in Threads \ T :
           Keeps(u) /\ (u \in Active' /\ ~op'[u].met => Touches(u) \cap docs = {})
    /\ \A x \in Sources \ docs :
           md'[x] = md[x] /\ staged'[x] = staged[x] /\ (x \in made' <=> x \in made)

\* Two requests at the same kind of steps spoil each other.
SpoiltWith(t, u) ==
    /\ op[t].at \in Committing /\ op[u].at \in Committing =>
           op[t].spoilt /\ op[u].spoilt
    /\ op[t].at \in Writing /\ op[u].at \in Writing =>
           op[t].spoilt /\ op[u].spoilt
MetWith(t, u) == Touches(t) \cap Touches(u) # {} => op[t].met /\ op[u].met

LEMMA InitRequestInv == Init => RequestInv
<1> SUFFICES ASSUME Init
             PROVE  RequestInv
  OBVIOUS
<1>1. Active = {}
  BY DEF Init, Active
<1> QED
  BY <1>1 DEF RequestInv, StepsFit, MetMutual, SpoiltMutual, OwnKept

LEMMA OthersOwn ==
    ASSUME TypeInv, RequestInv, NEW T \in SUBSET Threads, NEW docs, Acts(T, docs),
           NEW u \in Threads \ T, u \in Active'
    PROVE  Fit(u)' /\ (~op'[u].met => FilesOwn(u)' /\ MadeOwn(u)')
<1>1. u \in Active /\ SameRequest(u)
  BY DEF Acts, Keeps
<1>2. Fit(u)'
  BY <1>1 DEF RequestInv, StepsFit, Fit, SameRequest
<1>3. ASSUME ~op'[u].met
      PROVE  FilesOwn(u)' /\ MadeOwn(u)'
  <2>1. ~op[u].met /\ FilesOwn(u) /\ MadeOwn(u)
    BY <1>1, <1>3 DEF SameRequest, RequestInv, OwnKept
  <2>2. op[u].src \in Sources /\ op[u].from \in Sources
        /\ op[u].src \notin docs /\ op[u].from \notin docs
    BY <1>1, <1>3, ActiveFields DEF Acts, Touches
  <2>3. /\ md'[op[u].src] = md[op[u].src] /\ md'[op[u].from] = md[op[u].from]
        /\ staged'[op[u].src] = staged[op[u].src]
        /\ op[u].src \in made' <=> op[u].src \in made
        /\ op[u].from \in made' <=> op[u].from \in made
    BY <2>2 DEF Acts
  <2>4. FilesOwn(u)'
    BY <1>1, <2>1, <2>3 DEF FilesOwn, SameRequest
  <2>5. MadeOwn(u)'
    <3>1. \A s \in Entries(op[u].kind, op[u].src, op[u].from) :
              s = op[u].src \/ s = op[u].from
      BY DEF Entries
    <3> QED
      BY <1>1, <2>1, <2>3, <3>1 DEF MadeOwn, SameRequest
  <2> QED
    BY <2>4, <2>5
<1> QED
  BY <1>2, <1>3

LEMMA RequestFrame ==
    ASSUME TypeInv, RequestInv, NEW T \in SUBSET Threads, NEW docs, Acts(T, docs),
           \A t \in T : t \in Active' =>
               Fit(t)' /\ (~op'[t].met => FilesOwn(t)' /\ MadeOwn(t)'),
           \A t \in T : \A u \in Threads \ T : t \in Active' /\ u \in Active' =>
               MetWith(t, u)' /\ SpoiltWith(t, u)'
    PROVE  RequestInv'
<1>1. \A u \in Threads \ T : u \in Active' => u \in Active /\ SameRequest(u)
  BY DEF Acts, Keeps
<1>2. \A u \in Active' : u \in Threads
  BY DEF Active
<1>3. ASSUME NEW u \in Active'
      PROVE  Fit(u)' /\ (~op'[u].met => FilesOwn(u)' /\ MadeOwn(u)')
  <2>1. u \in Threads /\ (u \in T \/ u \in Threads \ T)
    BY <1>2
  <2> QED
    BY <2>1, OthersOwn
<1>4. ASSUME NEW t \in Active', NEW u \in Active', t # u
      PROVE  /\ MetWith(t, u)'
             /\ SpoiltWith(t, u)'
  <2>1. CASE t \in T
    <3>1. u \in Threads \ T
      BY <1>2, <1>4, <2>1 DEF Acts
    <3> QED
      BY <2>1, <3>1
  <2>2. CASE u \in T
    <3>1. t \in Threads \ T
      BY <1>2, <1>4, <2>2 DEF Acts
    <3>2. MetWith(u, t)' /\ SpoiltWith(u, t)'
      BY <2>2, <3>1
    <3> QED
      BY <3>2 DEF MetWith, SpoiltWith
  <2>3. CASE t \notin T /\ u \notin T
    <3>1. t \in Active /\ u \in Active /\ SameRequest(t) /\ SameRequest(u)
      BY <1>1, <1>2, <2>3
    <3>2. Touches(t)' = Touches(t) /\ Touches(u)' = Touches(u)
      BY <3>1 DEF Touches, SameRequest
    <3>3. /\ Touches(t) \cap Touches(u) # {} => op[t].met /\ op[u].met
      BY <1>4, <3>1 DEF RequestInv, MetMutual
    <3>4. MetWith(t, u)'
      BY <3>1, <3>2, <3>3 DEF MetWith, SameRequest
    <3>5. SpoiltWith(t, u)
      BY <1>4, <3>1 DEF RequestInv, SpoiltMutual, SpoiltWith
    <3>6. SpoiltWith(t, u)'
      BY <3>1, <3>5 DEF SpoiltWith, SameRequest
    <3> QED
      BY <3>4, <3>6
  <2> QED
    BY <2>1, <2>2, <2>3
<1> QED
  BY <1>3, <1>4 DEF RequestInv, StepsFit, MetMutual, SpoiltMutual, OwnKept, MetWith,
                    SpoiltWith

\* A request is taken up: it is told of the others, and they of it.
LEMMA BeginRequest ==
    ASSUME TypeInv, RequestInv, NEW t \in Threads,
           NEW pod, NEW kind, NEW s, NEW from, NEW step, NEW text, NEW before,
           \A u \in Threads \ {t} : Keeps(u) /\ Stays(u),
           Told(t, {s, from}),
           Begun(t, pod, kind, s, from, step, text, before),
           step \notin Committing \cup Writing,
           \A x \in Sources \ {s, from} : md'[x] = md[x],
           UNCHANGED <<staged, made>>,
           Fit(t)', FilesOwn(t)', MadeOwn(t)'
    PROVE  RequestInv'
<1>1. Acts({t}, {s, from})
  <2>1. ASSUME NEW u \in Threads \ {t}, u \in Active', ~op'[u].met
        PROVE  Touches(u) \cap {s, from} = {}
    BY <2>1 DEF Told
  <2> QED
    BY <2>1 DEF Acts
<1>2. ASSUME NEW u \in Threads \ {t}, t \in Active', u \in Active'
      PROVE  MetWith(t, u)' /\ SpoiltWith(t, u)'
  <2>1. u \in Active /\ SameRequest(u)
    BY <1>2 DEF Keeps
  <2>2. Touches(u)' = Touches(u) /\ Touches(t)' = {s, from}
    BY <2>1 DEF Touches, SameRequest, Begun
  <2>3. Touches(u) \cap {s, from} # {} => op'[u].met /\ op'[t].met
    BY <1>2, <2>1 DEF Told, Begun
  <2>4. MetWith(t, u)'
    BY <2>2, <2>3 DEF MetWith
  <2>5. SpoiltWith(t, u)'
    BY DEF SpoiltWith, Begun
  <2> QED
    BY <2>4, <2>5
<1>3. {t} \in SUBSET Threads
  OBVIOUS
<1> QED
  BY <1>1, <1>2, <1>3, RequestFrame

\* A request goes on: whom it spoils it is spoilt by, and the documents are its own.
LEMMA StepRequest ==
    ASSUME TypeInv, RequestInv, NEW t \in Active,
           \A u \in Threads \ {t} : Keeps(u),
           t \in Active' => /\ op'[t].src = op[t].src /\ op'[t].from = op[t].from
                            /\ op'[t].met = op[t].met
                            /\ Fit(t)'
                            /\ ~op'[t].met => FilesOwn(t)' /\ MadeOwn(t)',
           \A u \in Threads \ {t} : t \in Active' /\ u \in Active' => SpoiltWith(t, u)',
           \A x \in Sources \ Touches(t) :
               md'[x] = md[x] /\ staged'[x] = staged[x] /\ (x \in made' <=> x \in made)
    PROVE  RequestInv'
<1>1. t \in Threads
  BY DEF Active
<1>2. ASSUME NEW u \in Threads \ {t}, u \in Active'
      PROVE  /\ u \in Active /\ SameRequest(u)
             /\ Touches(u)' = Touches(u)
             /\ Touches(t) \cap Touches(u) # {} => op[t].met /\ op'[u].met
  <2>1. u \in Active /\ SameRequest(u)
    BY <1>2 DEF Keeps
  <2>2. Touches(t) \cap Touches(u) # {} => op[t].met /\ op[u].met
    BY <2>1 DEF RequestInv, MetMutual
  <2> QED
    BY <2>1, <2>2 DEF SameRequest, Touches
<1>3. Acts({t}, Touches(t))
  <2>1. ASSUME NEW u \in Threads \ {t}, u \in Active', ~op'[u].met
        PROVE  Touches(u) \cap Touches(t) = {}
    <3>1. Touches(t) \cap Touches(u) = {}
      BY <1>2, <2>1
    <3> QED
      BY <3>1
  <2> QED
    BY <2>1 DEF Acts
<1>4. ASSUME NEW u \in Threads \ {t}, t \in Active', u \in Active'
      PROVE  MetWith(t, u)'
  <2>1. Touches(t)' = Touches(t) /\ op'[t].met = op[t].met
    BY <1>4 DEF Touches
  <2> QED
    BY <1>2, <1>4, <2>1 DEF MetWith
<1>5. {t} \in SUBSET Threads
  BY <1>1
<1> QED
  BY <1>3, <1>4, <1>5, RequestFrame

\* A request that is at no such step, or was at one and is spoilt as it was.
LEMMA StillSpoilt ==
    ASSUME RequestInv, NEW t \in Active, NEW u \in Threads \ {t}, u \in Active', Keeps(u),
           op'[t].at \in Committing => op[t].at \in Committing,
           op'[t].at \in Writing => op[t].at \in Writing,
           op'[t].at \in Committing \cup Writing => op'[t].spoilt = op[t].spoilt
    PROVE  SpoiltWith(t, u)'
<1>1. u \in Active /\ SameRequest(u)
  BY DEF Keeps
<1>2. SpoiltWith(t, u)
  BY <1>1 DEF RequestInv, SpoiltMutual, SpoiltWith
<1> QED
  BY <1>1, <1>2 DEF SpoiltWith, SameRequest

\* The first steps.
LEMMA FirstRequest ==
    ASSUME TypeInv, RequestInv, NEW t \in Threads, NEW p \in Pods
    PROVE  /\ \A s \in Sources : Save(t, p, s) \/ Upload(t, p, s) \/ Delete(t, p, s)
                                     => RequestInv'
           /\ \A kind \in Copies, s \in Sources : Copy(t, p, kind, s) => RequestInv'
           /\ Create(t, p) => RequestInv'
           /\ Apply(t, p) => RequestInv'
<1> USE FirstSteps
<1>0. Typed /\ RestOK
  BY TypeParts
<1>1. ASSUME NEW kind \in Kinds, NEW s \in Sources, NEW from \in Sources,
             NEW step \in {"add", "write", "copy", "remove", "check"}, NEW text \in Texts,
             NEW before \in Texts \cup {None},
             Begin(t, p, kind, s, from, step, text, before)
      PROVE  /\ \A u \in Threads \ {t} : Keeps(u) /\ Stays(u)
             /\ Told(t, {s, from})
             /\ Begun(t, p, kind, s, from, step, text, before)
             /\ step \notin Committing \cup Writing
  <2>1. step \in Steps /\ step \notin Committing \cup Writing
    OBVIOUS
  <2> QED
    BY <1>0, <1>1, <2>1, BeginOp
<1>2. ASSUME NEW s \in Sources, Save(t, p, s) \/ Upload(t, p, s) \/ Delete(t, p, s)
      PROVE  RequestInv'
  <2>1. drawn' \in Texts /\ None \in Texts \cup {None}
    BY <1>2, FirstOp
  <2>2. PICK kind \in {"save", "upload", "delete"}, step \in {"add", "remove"} :
            /\ Begin(t, p, kind, s, s, step, drawn', None)
            /\ step = "remove" <=> kind = "delete"
    BY <1>2 DEF Save, Upload, Delete
  <2>3. kind \in Kinds /\ step \in {"add", "write", "copy", "remove", "check"}
    OBVIOUS
  <2> DEFINE x == drawn'
  <2>4. Begin(t, p, kind, s, s, step, x, None) /\ x \in Texts
    BY <2>1, <2>2
  <2> HIDE DEF x
  <2>5. /\ \A u \in Threads \ {t} : Keeps(u) /\ Stays(u)
        /\ Told(t, {s, s})
        /\ Begun(t, p, kind, s, s, step, x, None)
        /\ step \notin Committing \cup Writing
    BY <1>1, <2>1, <2>3, <2>4
  <2>6. /\ \A y \in Sources \ {s, s} : md'[y] = md[y]
        /\ UNCHANGED <<staged, made>>
    BY <1>0, <1>2 DEF Save, Upload, Delete, Write, RestOK, Files, files
  <2>7. Fit(t)' /\ FilesOwn(t)' /\ MadeOwn(t)'
    BY <2>2, <2>5 DEF Begun, Fit, FilesOwn, MadeOwn, Copies, Writing, Committing
  <2> QED
    BY <2>5, <2>6, <2>7, BeginRequest
<1>3. ASSUME NEW kind \in Copies, NEW from \in Sources, Copy(t, p, kind, from)
      PROVE  RequestInv'
  <2>1. drawn' \in Texts /\ None \in Texts \cup {None}
    BY <1>3, FirstOp
  <2>2. PICK s \in FreeName : Begin(t, p, kind, s, from, "copy", drawn', None)
    BY <1>3 DEF Copy
  <2>3. s \in Sources /\ kind \in Kinds /\ md[s] = None /\ md[from] # None
    BY <1>3 DEF FreeName, Copy
  <2> DEFINE x == drawn'
  <2>4. Begin(t, p, kind, s, from, "copy", x, None) /\ x \in Texts
    BY <2>1, <2>2
  <2> HIDE DEF x
  <2>5. /\ \A u \in Threads \ {t} : Keeps(u) /\ Stays(u)
        /\ Told(t, {s, from})
        /\ Begun(t, p, kind, s, from, "copy", x, None)
        /\ "copy" \notin Committing \cup Writing
    BY <1>1, <2>1, <2>3, <2>4
  <2>6. UNCHANGED <<md, staged, made>>
    BY <1>3 DEF Copy, files
  <2>7. Fit(t)' /\ FilesOwn(t)' /\ MadeOwn(t)'
    BY <2>3, <2>5, <2>6 DEF Begun, Fit, FilesOwn, MadeOwn, Copies, Writing, Committing
  <2> QED
    BY <2>5, <2>6, <2>7, BeginRequest
<1>4. ASSUME Create(t, p)
      PROVE  RequestInv'
  <2>1. drawn' \in Texts /\ None \in Texts \cup {None}
    BY <1>4, FirstOp
  <2>2. PICK s \in FreeName : Begin(t, p, "create", s, s, "write", drawn', None)
    BY <1>4 DEF Create
  <2>3. s \in Sources /\ md[s] = None
    BY DEF FreeName
  <2> DEFINE x == drawn'
  <2>4. Begin(t, p, "create", s, s, "write", x, None) /\ x \in Texts
    BY <2>1, <2>2
  <2> HIDE DEF x
  <2>5. /\ \A u \in Threads \ {t} : Keeps(u) /\ Stays(u)
        /\ Told(t, {s, s})
        /\ Begun(t, p, "create", s, s, "write", x, None)
        /\ "write" \notin Committing \cup Writing
    BY <1>1, <2>1, <2>3, <2>4
  <2>6. UNCHANGED <<md, staged, made>>
    BY <1>4 DEF Create, files
  <2>7. Fit(t)' /\ FilesOwn(t)' /\ MadeOwn(t)'
    BY <2>3, <2>5, <2>6 DEF Begun, Fit, FilesOwn, MadeOwn, Copies, Writing, Committing
  <2> QED
    BY <2>5, <2>6, <2>7, BeginRequest
<1>5. ASSUME Apply(t, p)
      PROVE  RequestInv'
  <2>1. PICK e \in pending[p] :
            Begin(t, p, "apply", e.src, e.src, "check", e.after, e.before)
    BY <1>5 DEF Apply
  <2>2. e.src \in Sources /\ e.after \in Texts /\ e.before \in Texts \cup {None}
    BY <1>0 DEF RestOK, Edit
  <2>3. /\ \A u \in Threads \ {t} : Keeps(u) /\ Stays(u)
        /\ Told(t, {e.src, e.src})
        /\ Begun(t, p, "apply", e.src, e.src, "check", e.after, e.before)
        /\ "check" \notin Committing \cup Writing
    BY <1>1, <2>1, <2>2
  <2>4. UNCHANGED <<md, staged, made>>
    BY <1>5 DEF Apply, files
  <2>5. Fit(t)' /\ FilesOwn(t)' /\ MadeOwn(t)'
    BY <2>3 DEF Begun, Fit, FilesOwn, MadeOwn, Copies, Writing, Committing
  <2> QED
    BY <2>3, <2>4, <2>5, BeginRequest
<1> QED
  BY <1>2, <1>3, <1>4, <1>5

\* What a request has before its step.
LEMMA OwnBefore ==
    ASSUME TypeInv, RequestInv, NEW t \in Active
    PROVE  /\ Fit(t) /\ (~op[t].met => FilesOwn(t) /\ MadeOwn(t))
           /\ t \in Threads /\ op[t].src \in Sources /\ op[t].from \in Sources
           /\ op[t].src \in Touches(t) /\ op[t].from \in Touches(t)
BY ActiveFields DEF RequestInv, StepsFit, OwnKept, Touches

\* Steps that change no file.
LEMMA QuietRequest ==
    ASSUME TypeInv, RequestInv, NEW t \in Threads
    PROVE  /\ Check(t) => RequestInv'
           /\ WriteTree(t) => RequestInv'
           /\ Commit(t) => RequestInv'
           /\ Truncate(t) => RequestInv'
           /\ Fill(t) => RequestInv'
<1>1. ASSUME NEW step, t \in Active, Alone(t), UNCHANGED <<md, staged, made>>,
             t \in Active' => Moved(t, step) /\ Fit(t)'
                              /\ (~op[t].met => FilesOwn(t)' /\ MadeOwn(t)'),
             t \in Active' =>
                 /\ step \in Committing => op[t].at \in Committing
                 /\ step \in Writing => op[t].at \in Writing
                 /\ step \in Committing \cup Writing => op'[t].spoilt = op[t].spoilt
      PROVE  RequestInv'
  <2>1. \A u \in Threads \ {t} : Keeps(u)
    BY <1>1 DEF Alone
  <2>2. ASSUME NEW u \in Threads \ {t}, t \in Active', u \in Active'
        PROVE  SpoiltWith(t, u)'
    <3>1. op'[t].at = step
      BY <1>1, <2>2 DEF Moved
    <3> QED
      BY <1>1, <2>1, <2>2, <3>1, StillSpoilt
  <2>3. t \in Active' => /\ op'[t].src = op[t].src /\ op'[t].from = op[t].from
                         /\ op'[t].met = op[t].met
    BY <1>1 DEF Moved
  <2> QED
    BY <1>1, <2>1, <2>2, <2>3, StepRequest
<1>2. ASSUME Check(t)
      PROVE  RequestInv'
  <2>1. /\ Alone(t) /\ op[t].at = "check" /\ t \in Active
        /\ t \in Active' => /\ Moved(t, "write") /\ md[op[t].src] = op[t].before
    BY <1>2, CheckOp
  <2>2. UNCHANGED <<md, staged, made>>
    BY <1>2 DEF Check, files, history
  <2>3. t \in Active' => /\ Fit(t)' /\ FilesOwn(t)' /\ MadeOwn(t)'
    BY <2>1, <2>2, OwnBefore DEF Moved, Fit, FilesOwn, MadeOwn, Copies, Writing, Committing
  <2>4. "write" \notin Committing \cup Writing
    BY DEF Committing, Writing
  <2> QED
    BY <1>1, <2>1, <2>2, <2>3, <2>4
<1>3. ASSUME WriteTree(t)
      PROVE  RequestInv'
  <2>1. /\ Alone(t) /\ op[t].at = "tree" /\ t \in Active
        /\ Moved(t, "commit") /\ op'[t].read = staged /\ op'[t].spoilt = op[t].spoilt
    BY <1>3, WriteTreeOp
  <2>2. UNCHANGED <<md, staged, made>>
    BY <1>3 DEF WriteTree, files, history
  <2>3. /\ Fit(t)'
        /\ ~op[t].met => FilesOwn(t)' /\ MadeOwn(t)'
    BY <2>1, <2>2, OwnBefore DEF Moved, Fit, FilesOwn, MadeOwn, Copies, Writing, Committing
  <2>4. "tree" \in Committing /\ "commit" \notin Writing
    BY DEF Committing, Writing
  <2> QED
    BY <1>1, <2>1, <2>2, <2>3, <2>4
<1>4. ASSUME Commit(t)
      PROVE  RequestInv'
  <2>1. /\ Alone(t) /\ op[t].at = "commit" /\ t \in Active
        /\ \/ t \notin Active'
           \/ op[t].kind \in {"create", "duplicate"} /\ Moved(t, "load")
           \/ op[t].kind = "rename" /\ Moved(t, "remove")
    BY <1>4, CommitOp
  <2>2. UNCHANGED <<md, staged, made>>
    BY <1>4 DEF Commit
  <2>3. t \in Active' => /\ Fit(t)'
                         /\ ~op[t].met => FilesOwn(t)' /\ MadeOwn(t)'
    BY <2>1, <2>2, OwnBefore DEF Moved, Fit, FilesOwn, MadeOwn, Copies, Writing, Committing
  <2>4. PICK step \in {"load", "remove"} : t \in Active' => Moved(t, step)
    BY <2>1
  <2>5. step \notin Committing \cup Writing
    BY DEF Committing, Writing
  <2> QED
    BY <1>1, <2>1, <2>2, <2>3, <2>4, <2>5
<1>5. ASSUME Truncate(t)
      PROVE  RequestInv'
  <2>1. /\ Alone(t) /\ op[t].at = "truncate" /\ t \in Active
        /\ Moved(t, "fill") /\ op'[t].read = op[t].read /\ op'[t].spoilt = op[t].spoilt
    BY <1>5, TruncateOp
  <2>2. UNCHANGED <<md, staged, made>>
    BY <1>5 DEF Truncate, files, history
  <2>3. /\ Fit(t)'
        /\ ~op[t].met => FilesOwn(t)' /\ MadeOwn(t)'
    BY <2>1, <2>2, OwnBefore DEF Moved, Fit, FilesOwn, MadeOwn, Copies, Writing, Committing
  <2>4. "truncate" \in Writing /\ "fill" \notin Committing
    BY DEF Committing, Writing
  <2> QED
    BY <1>1, <2>1, <2>2, <2>3, <2>4
<1>6. ASSUME Fill(t)
      PROVE  RequestInv'
  BY <1>1, <1>6, FillOp DEF Fill, files
<1> QED
  BY <1>2, <1>3, <1>4, <1>5, <1>6

\* Steps that change its document.
LEMMA WritingRequest ==
    ASSUME TypeInv, RequestInv, NEW t \in Threads
    PROVE  /\ WriteText(t) => RequestInv'
           /\ CopyText(t) => RequestInv'
           /\ Remove(t) => RequestInv'
<1>0. Typed /\ RestOK
  BY TypeParts
<1>1. ASSUME NEW step, t \in Active, Alone(t), UNCHANGED staged,
             NEW s \in Touches(t),
             \A x \in Sources \ {s} : md'[x] = md[x] /\ (x \in made' <=> x \in made),
             t \in Active' => Moved(t, step) /\ Fit(t)'
                              /\ (~op[t].met => FilesOwn(t)' /\ MadeOwn(t)'),
             step \notin Committing \cup Writing
      PROVE  RequestInv'
  <2>1. \A u \in Threads \ {t} : Keeps(u)
    BY <1>1 DEF Alone
  <2>2. \A u \in Threads \ {t} : t \in Active' /\ u \in Active' => SpoiltWith(t, u)'
    BY <1>1 DEF SpoiltWith, Moved
  <2>3. t \in Active' => /\ op'[t].src = op[t].src /\ op'[t].from = op[t].from
                         /\ op'[t].met = op[t].met
    BY <1>1 DEF Moved
  <2> QED
    BY <1>1, <2>1, <2>2, <2>3, StepRequest
<1>2. ASSUME WriteText(t)
      PROVE  RequestInv'
  <2>1. /\ Alone(t) /\ op[t].at = "write" /\ t \in Active /\ Moved(t, "add")
    BY <1>2, WriteTextOp
  <2>2. /\ \A x \in Sources \ {op[t].src} :
               md'[x] = md[x] /\ (x \in made' <=> x \in made)
        /\ op[t].kind = "create" => op[t].src \in made'
        /\ UNCHANGED staged
    BY <1>0, <1>2 DEF WriteText, Write, RestOK, Files
  <2>3. /\ Fit(t)'
        /\ ~op[t].met => FilesOwn(t)' /\ MadeOwn(t)'
    BY <2>1, <2>2, OwnBefore DEF Moved, Fit, FilesOwn, MadeOwn, Copies, Writing, Committing
  <2>4. "add" \notin Committing \cup Writing
    BY DEF Committing, Writing
  <2> QED
    BY <1>1, <2>1, <2>2, <2>3, <2>4, OwnBefore
<1>3. ASSUME CopyText(t)
      PROVE  RequestInv'
  <2>1. /\ Alone(t) /\ op[t].at = "copy" /\ t \in Active
        /\ t \in Active' => Moved(t, "add") /\ md[op[t].from] \in Texts
    BY <1>3, CopyTextOp
  <2>2. /\ \A x \in Sources \ {op[t].src} :
               md'[x] = md[x] /\ (x \in made' <=> x \in made)
        /\ UNCHANGED staged
    BY <1>0, <1>3 DEF CopyText, Write, RestOK, Files
  <2>3. op[t].src # op[t].from
    BY <2>1, OwnBefore DEF Fit
  <2>4. t \in Active' => /\ md'[op[t].src] = md'[op[t].from]
                         /\ op[t].src \in made'
    <3>1. op[t].src \in Sources /\ op[t].from \in Sources
      BY <2>1, OwnBefore
    <3>2. End(t) => t \notin Active'
      BY <1>0, EndOp, <2>1
    <3>3. t \in Active' => /\ md' = [md EXCEPT ![op[t].src] = md[op[t].from]]
                           /\ made' = made \cup {op[t].src}
      BY <1>3, <3>2 DEF CopyText, Write
    <3>4. DOMAIN md = Sources
      BY <1>0 DEF RestOK, Files
    <3> QED
      BY <2>3, <3>1, <3>3, <3>4
  <2>5. t \in Active' => /\ Fit(t)'
                         /\ ~op[t].met => FilesOwn(t)' /\ MadeOwn(t)'
    BY <2>1, <2>2, <2>3, <2>4, OwnBefore
       DEF Moved, Fit, FilesOwn, MadeOwn, Copies, Writing, Committing
  <2>6. "add" \notin Committing \cup Writing
    BY DEF Committing, Writing
  <2> QED
    BY <1>1, <2>1, <2>2, <2>5, <2>6, OwnBefore
<1>4. ASSUME Remove(t)
      PROVE  RequestInv'
  <2> DEFINE gone == IF op[t].kind = "rename" THEN op[t].from ELSE op[t].src
  <2>1. /\ Alone(t) /\ op[t].at = "remove" /\ t \in Active
        /\ t \in Active' => Moved(t, "load")
    BY <1>4, RemoveOp
  <2>2. /\ \A x \in Sources \ {gone} :
               md'[x] = md[x] /\ (x \in made' <=> x \in made)
        /\ UNCHANGED staged
    BY <1>0, <1>4 DEF Remove, RestOK, Files
  <2>3. t \in Active' => made' = made \ {gone}
    <3>1. End(t) => t \notin Active'
      BY <1>0, EndOp, <2>1
    <3> QED
      BY <1>4, <3>1 DEF Remove
  <2>4. t \in Active' => /\ Fit(t)'
                         /\ ~op[t].met => FilesOwn(t)' /\ MadeOwn(t)'
    <3>1. Fit(t) /\ (~op[t].met => FilesOwn(t) /\ MadeOwn(t))
      BY <2>1, OwnBefore
    <3>2. t \in Active' => Fit(t)'
      BY <2>1, <3>1 DEF Moved, Fit, Copies, Writing
    <3>3. t \in Active' => FilesOwn(t)'
      BY <2>1 DEF Moved, FilesOwn, Committing
    <3>4. t \in Active' /\ ~op[t].met => MadeOwn(t)'
      BY <2>1, <2>3, <3>1 DEF Moved, Fit, MadeOwn, Copies, Writing, Committing
    <3> QED
      BY <3>2, <3>3, <3>4
  <2>5. "load" \notin Committing \cup Writing /\ gone \in Touches(t)
    BY DEF Committing, Writing, Touches
  <2> HIDE DEF gone
  <2> QED
    BY <1>1, <2>1, <2>2, <2>4, <2>5
<1> QED
  BY <1>2, <1>3, <1>4

LEMMA AddRequest ==
    ASSUME TypeInv, RequestInv, NEW t \in Threads, Add(t)
    PROVE  RequestInv'
<1>1. /\ op[t].at = "add" /\ t \in Active
      /\ UNCHANGED <<md, made>>
  BY AddOp DEF Add, history
<1>2. Fit(t) /\ (~op[t].met => FilesOwn(t) /\ MadeOwn(t))
      /\ op[t].src \in Sources /\ op[t].src \in Touches(t)
  BY <1>1, OwnBefore
<1>3. CASE /\ Alone(t) /\ staged' = staged
           /\ \/ t \notin Active'
              \/ op[t].kind \in {"create", "duplicate"} /\ Moved(t, "load")
              \/ op[t].kind = "rename" /\ Moved(t, "remove")
  <2>1. \A u \in Threads \ {t} : Keeps(u)
    BY <1>3 DEF Alone
  <2>2. \A u \in Threads \ {t} : t \in Active' /\ u \in Active' => SpoiltWith(t, u)'
    BY <1>3 DEF SpoiltWith, Moved, Committing, Writing
  <2>3. t \in Active' =>
            /\ op'[t].src = op[t].src /\ op'[t].from = op[t].from
            /\ op'[t].met = op[t].met
            /\ Fit(t)'
            /\ ~op[t].met => FilesOwn(t)' /\ MadeOwn(t)'
    BY <1>1, <1>2, <1>3 DEF Moved, Fit, FilesOwn, MadeOwn, Copies, Writing, Committing
  <2> QED
    BY <1>1, <1>3, <2>1, <2>2, <2>3, StepRequest
<1>4. CASE /\ staged' = [staged EXCEPT ![op[t].src] = md[op[t].src]]
           /\ Moved(t, "tree")
           /\ \A u \in Threads \ {t} :
                  /\ Keeps(u) /\ Stays(u)
                  /\ u \in Active' /\ op[u].at \in Committing =>
                         op'[u].spoilt /\ op'[t].spoilt
  <2>1. DOMAIN staged = Sources
    BY TypeParts DEF RestOK, Files
  <2>2. /\ staged'[op[t].src] = md[op[t].src]
        /\ \A x \in Sources \ {op[t].src} : staged'[x] = staged[x]
    BY <1>2, <1>4, <2>1
  <2>3. ASSUME NEW u \in Threads \ {t}, u \in Active'
        PROVE  SpoiltWith(t, u)'
    <3>1. op'[t].at = "tree" /\ "tree" \notin Writing
      BY <1>4 DEF Moved, Writing
    <3>2. op'[u].at = op[u].at
      BY <1>4, <2>3 DEF Keeps, SameRequest
    <3> QED
      BY <1>4, <2>3, <3>1, <3>2 DEF SpoiltWith
  <2>4. /\ op'[t].src = op[t].src /\ op'[t].from = op[t].from
        /\ op'[t].met = op[t].met
        /\ Fit(t)'
        /\ ~op[t].met => FilesOwn(t)' /\ MadeOwn(t)'
    BY <1>1, <1>2, <1>4, <2>2 DEF Moved, Fit, FilesOwn, MadeOwn, Copies, Writing, Committing
  <2> QED
    BY <1>1, <1>2, <1>4, <2>2, <2>3, <2>4, StepRequest
<1> QED
  BY <1>3, <1>4, AddOp

LEMMA LoadRequest ==
    ASSUME TypeInv, RequestInv, NEW t \in Threads, Load(t)
    PROVE  RequestInv'
<1>1. /\ op[t].at = "load" /\ t \in Active
      /\ UNCHANGED <<md, staged, made>>
  BY LoadOp DEF Load, files
<1>2. Fit(t) /\ (~op[t].met => FilesOwn(t) /\ MadeOwn(t))
  BY <1>1, OwnBefore
<1>3. CASE t \notin Active' /\ Alone(t)
  BY <1>1, <1>3, StepRequest DEF Alone
<1>4. CASE /\ Moved(t, "truncate") /\ op'[t].read = Updated(op[t], Loaded)
           /\ \A u \in Threads \ {t} :
                  /\ Keeps(u) /\ Stays(u)
                  /\ u \in Active' /\ op[u].at \in Writing =>
                         op'[u].spoilt /\ op'[t].spoilt
  <2>1. ASSUME NEW u \in Threads \ {t}, u \in Active'
        PROVE  SpoiltWith(t, u)'
    <3>1. op'[t].at = "truncate" /\ "truncate" \notin Committing
      BY <1>4 DEF Moved, Committing
    <3>2. op'[u].at = op[u].at
      BY <1>4, <2>1 DEF Keeps, SameRequest
    <3> QED
      BY <1>4, <2>1, <3>1, <3>2 DEF SpoiltWith
  <2>2. Fit(t)' /\ FilesOwn(t)'
    BY <1>1, <1>2, <1>4 DEF Moved, Fit, FilesOwn, Copies, Writing, Committing
  <2>3. ASSUME ~op[t].met
        PROVE  MadeOwn(t)'
    <3>1. op[t].kind \in {"create", "duplicate", "rename", "delete"}
          /\ (op[t].kind = "rename" => op[t].src # op[t].from)
      BY <1>1, <1>2 DEF Fit, Copies
    <3>2. /\ op[t].kind # "delete" => op[t].src \in made
          /\ op[t].kind = "rename" => op[t].from \notin made
          /\ op[t].kind = "delete" => op[t].src \notin made
      BY <1>1, <1>2, <2>3, <3>1 DEF MadeOwn, Copies
    <3>3. \A s \in Entries(op[t].kind, op[t].src, op[t].from) :
              s \in Updated(op[t], Loaded) <=> s \in made
      BY <3>1, <3>2 DEF Entries, Updated
    <3> QED
      BY <1>1, <1>4, <3>1, <3>2, <3>3 DEF MadeOwn, Moved, Writing, Copies
  <2>4. /\ op'[t].src = op[t].src /\ op'[t].from = op[t].from
        /\ op'[t].met = op[t].met
    BY <1>4 DEF Moved
  <2> QED
    BY <1>1, <1>4, <2>1, <2>2, <2>3, <2>4, StepRequest
<1> QED
  BY <1>3, <1>4, LoadOp

\* A draft is saved, or no request moves.
LEMMA OtherRequest ==
    ASSUME TypeInv, RequestInv,
           \/ \E s \in Sources : SaveDraft(s)
           \/ \E p \in Pods, s \in Sources : Propose(p, s)
           \/ \E p \in Pods : Reject(p) \/ Evict(p) \/ Crash(p)
           \/ UNCHANGED vars
    PROVE  RequestInv'
<1>0. Typed /\ RestOK
  BY TypeParts
<1>1. ASSUME NEW docs, Acts({}, docs)
      PROVE  RequestInv'
  <2>1. {} \in SUBSET Threads
    OBVIOUS
  <2> QED
    BY <1>1, <2>1, RequestFrame
<1>2. ASSUME NEW s \in Sources, SaveDraft(s)
      PROVE  RequestInv'
  <2>1. op' = Meets({s}) /\ UNCHANGED <<staged, made>>
        /\ \A x \in Sources \ {s} : md'[x] = md[x]
    BY <1>0, <1>2 DEF SaveDraft, Write, RestOK, Files
  <2>2. /\ \A u \in Threads : Keeps(u)
        /\ \A u \in Active' : Touches(u) \cap {s} # {} => op'[u].met
    BY <1>0, <2>1, MeetsOp
  <2>3. Acts({}, {s})
    BY <2>1, <2>2 DEF Acts
  <2> QED
    BY <1>1, <2>3
<1>3. ASSUME \A u \in Threads : Keeps(u), UNCHANGED <<md, staged, made>>
      PROVE  RequestInv'
  <2>1. Acts({}, {})
    BY <1>3 DEF Acts
  <2> QED
    BY <1>1, <2>1
<1>4. ASSUME NEW p \in Pods, Crash(p)
      PROVE  RequestInv'
  BY <1>3, <1>4, CrashOp DEF Crash, files
<1>5. CASE op' = op /\ UNCHANGED <<md, staged, made>>
  BY <1>3, <1>5 DEF Keeps, SameRequest, Active
<1> QED
  BY <1>2, <1>4, <1>5 DEF Propose, Reject, Evict, vars, files, history

LEMMA NextRequest == TypeInv /\ RequestInv /\ [Next]_vars => RequestInv'
BY FirstRequest, QuietRequest, WritingRequest, AddRequest, LoadRequest, OtherRequest
   DEF Next, Step

-----------------------------------------------------------------------------
\* No text is lost

\* A text that is buried unknowingly would have to be one of nobody's.
LEMMA WriteKeeps ==
    ASSUME RestOK, NoTextLost, NEW s \in Sources, NEW x \in Texts, NEW knowingly,
           Write(s, x, knowingly), knowingly \/ md[s] = None
    PROVE  NoTextLost'
<1>1. md \in [Sources -> Texts \cup {None}] /\ owed \subseteq Texts
  BY DEF RestOK, Files
<1>2. None \notin Texts
  BY WorkspaceAssumption DEF Texts
<1>3. md' = [md EXCEPT ![s] = x]
      /\ owed' = (IF knowingly THEN owed \ {md[s]} ELSE owed) \cup {x}
  BY DEF Write
<1>4. ASSUME NEW y \in owed'
      PROVE  \E r \in Sources : md'[r] = y
  <2>1. CASE y = x
    BY <1>1, <1>3, <2>1
  <2>2. CASE y # x
    <3>1. y \in owed /\ y # md[s]
      BY <1>1, <1>2, <1>3, <1>4, <2>2
    <3>2. PICK r \in Sources : md[r] = y
      BY <3>1 DEF NoTextLost
    <3> QED
      BY <1>1, <1>3, <3>1, <3>2
  <2> QED
    BY <2>1, <2>2
<1> QED
  BY <1>4 DEF NoTextLost

LEMMA NextKept == TypeInv /\ RequestInv /\ NoTextLost /\ [Next]_vars => NoTextLost'
<1> SUFFICES ASSUME TypeInv, RequestInv, NoTextLost, [Next]_vars
             PROVE  NoTextLost'
  OBVIOUS
<1>0. RestOK /\ md \in [Sources -> Texts \cup {None}]
  BY TypeParts DEF RestOK, Files
<1>1. CASE UNCHANGED <<md, owed>>
  BY <1>1 DEF NoTextLost
<1>2. ASSUME NEW t \in Threads, NEW p \in Pods, NEW s \in Sources,
             Save(t, p, s) \/ Upload(t, p, s)
      PROVE  NoTextLost'
  <2>1. drawn' \in Texts /\ Write(s, drawn', TRUE)
    BY <1>2, FirstOp DEF Save, Upload
  <2> QED
    BY <1>0, <2>1, WriteKeeps
<1>3. ASSUME NEW s \in Sources, SaveDraft(s)
      PROVE  NoTextLost'
  <2>1. drawn' \in Texts
    <3>1. drawn \in 0 .. MaxTexts /\ drawn < MaxTexts /\ drawn' = drawn + 1
      BY <1>0, <1>3 DEF SaveDraft, Draw, RestOK
    <3> QED
      BY <3>1, WorkspaceAssumption DEF Texts
  <2>2. Write(s, drawn', TRUE)
    BY <1>3 DEF SaveDraft
  <2> QED
    BY <1>0, <2>1, <2>2, WriteKeeps
<1>4. ASSUME NEW t \in Threads, WriteText(t)
      PROVE  NoTextLost'
  <2> DEFINE o == op[t]
             known == o.met \/ (o.kind = "apply" /\ md[o.src] = o.before)
  <2>1. o.at = "write" /\ t \in Active /\ Write(o.src, o.text, known)
    BY <1>4 DEF WriteText, At
  <2>2. o.src \in Sources /\ o.text \in Texts
    BY <2>1, ActiveFields
  <2>3. known \/ md[o.src] = None
    BY <2>1, OwnBefore DEF Fit, FilesOwn
  <2> HIDE DEF known
  <2> QED
    BY <1>0, <2>1, <2>2, <2>3, WriteKeeps
<1>5. ASSUME NEW t \in Threads, CopyText(t)
      PROVE  NoTextLost'
  <2> DEFINE o == op[t]
  <2>1. o.at = "copy" /\ t \in Active
        /\ \/ md[o.from] # None /\ Write(o.src, md[o.from], o.met)
           \/ UNCHANGED <<md, owed>>
    BY <1>5 DEF CopyText, At
  <2>2. o.src \in Sources /\ md[o.from] \in Texts \cup {None}
    BY <1>0, <2>1, ActiveFields
  <2>3. o.met \/ md[o.src] = None
    BY <2>1, OwnBefore DEF FilesOwn
  <2> QED
    BY <1>0, <1>1, <2>1, <2>2, <2>3, WriteKeeps
<1>6. ASSUME NEW t \in Threads, Remove(t)
      PROVE  NoTextLost'
  <2> DEFINE o == op[t]
             gone == IF o.kind = "rename" THEN o.from ELSE o.src
  <2>1. o.at = "remove" /\ t \in Active
        /\ \/ /\ md' = [md EXCEPT ![gone] = None]
              /\ owed' = IF o.kind = "delete" \/ o.met THEN owed \ {md[gone]} ELSE owed
           \/ UNCHANGED <<md, owed>>
    BY <1>6 DEF Remove, At
  <2>2. o.src \in Sources /\ o.from \in Sources
    BY <2>1, ActiveFields
  <2>3. \/ o.kind = "delete" \/ o.met
        \/ o.kind = "rename" /\ md[o.src] = md[o.from] /\ o.src # o.from
    BY <2>1, OwnBefore DEF Fit, FilesOwn, Copies
  <2>4. ASSUME md' = [md EXCEPT ![gone] = None],
               owed' = IF o.kind = "delete" \/ o.met THEN owed \ {md[gone]} ELSE owed
        PROVE  NoTextLost'
    <3>1. CASE o.kind = "delete" \/ o.met
      <4>1. ASSUME NEW y \in owed'
            PROVE  \E r \in Sources : md'[r] = y
        <5>1. y \in owed /\ y # md[gone]
          BY <2>4, <3>1, <4>1
        <5>2. PICK r \in Sources : md[r] = y
          BY <5>1 DEF NoTextLost
        <5> QED
          BY <1>0, <2>4, <5>1, <5>2
      <4> QED
        BY <4>1 DEF NoTextLost
    <3>2. CASE ~(o.kind = "delete" \/ o.met)
      <4>1. gone = o.from /\ md[o.src] = md[gone] /\ o.src # gone /\ owed' = owed
        BY <2>3, <2>4, <3>2
      <4>2. ASSUME NEW y \in owed
            PROVE  \E r \in Sources : md'[r] = y
        <5>1. PICK r \in Sources : md[r] = y
          BY DEF NoTextLost
        <5>2. CASE r = gone
          BY <1>0, <2>2, <2>4, <4>1, <5>1, <5>2
        <5>3. CASE r # gone
          BY <1>0, <2>4, <5>1, <5>3
        <5> QED
          BY <5>2, <5>3
      <4> QED
        BY <4>1, <4>2 DEF NoTextLost
    <3> QED
      BY <3>1, <3>2
  <2> QED
    BY <1>1, <2>1, <2>4
<1> QED
  BY <1>1, <1>2, <1>3, <1>4, <1>5, <1>6
     DEF Next, Step, Delete, Create, Copy, Apply, Propose, Reject, Evict, Crash, Check,
         Add, WriteTree, Commit, Load, Truncate, Fill, vars, files, history

\* Only what a client overwrote or deleted knowingly disappears, or what two
\* requests on one document buried, whatever fails and whichever pod dies.
THEOREM NoTextIsLost == Spec => []NoTextLost
<1>1. Init => NoTextLost
  <2> SUFFICES ASSUME Init
               PROVE  NoTextLost
    OBVIOUS
  <2>1. ASSUME NEW x \in owed
        PROVE  \E s \in Sources : md[s] = x
    <3>1. PICK s \in Initial : TRUE
      BY DEF Init
    <3> QED
      BY <3>1, WorkspaceAssumption DEF Init
  <2> QED
    BY <2>1 DEF NoTextLost
<1> QED
  BY <1>1, InitTypeInv, NextTypeInv, InitRequestInv, NextRequest, NextKept, PTL DEF Spec

-----------------------------------------------------------------------------
\* HEAD has what was committed without interference

\* No file, staged text or tree of a settled document changes.
LEMMA HeadFrame ==
    ASSUME HeadInv, headGood' \subseteq headGood,
           \A s \in headGood' :
               head'[s] = head[s] /\ staged'[s] = staged[s] /\ md'[s] = md[s],
           \A t \in Active' : op'[t].at = "commit" =>
               t \in Active /\ op[t].at = "commit" /\ op'[t].read = op[t].read
    PROVE  HeadInv'
BY DEF HeadInv

LEMMA NextHead == TypeInv /\ RequestInv /\ HeadInv /\ [Next]_vars => HeadInv'
<1> SUFFICES ASSUME TypeInv, RequestInv, HeadInv, [Next]_vars
             PROVE  HeadInv'
  OBVIOUS
<1>0. RestOK /\ Typed /\ DOMAIN md = Sources /\ DOMAIN staged = Sources
      /\ headGood \subseteq Sources
  BY TypeParts DEF RestOK, Files
<1> USE FirstSteps
\* A request that is taken up takes its document out.
<1>1. ASSUME NEW t \in Threads, \A u \in Threads \ {t} : Keeps(u),
             t \in Active' => op'[t].at # "commit"
      PROVE  \A u \in Active' : op'[u].at = "commit" =>
                 u \in Active /\ op[u].at = "commit" /\ op'[u].read = op[u].read
  BY <1>1 DEF Keeps, SameRequest, Active
<1>2. ASSUME NEW t \in Threads, NEW p \in Pods, NEW kind \in Kinds,
             NEW s \in Sources, NEW from \in Sources,
             NEW step \in {"add", "write", "copy", "remove", "check"}, NEW text \in Texts,
             NEW before \in Texts \cup {None},
             Begin(t, p, kind, s, from, step, text, before),
             \A x \in Sources \ {s} : md'[x] = md[x], UNCHANGED <<staged, head>>
      PROVE  HeadInv'
  <2>1. step \in Steps /\ step \notin Committing \cup Writing
    OBVIOUS
  <2>2. /\ \A u \in Threads \ {t} : Keeps(u) /\ Stays(u)
        /\ Begun(t, p, kind, s, from, step, text, before)
    BY <1>0, <1>2, <2>1, BeginOp
  <2>3. headGood' = headGood \ {s} /\ op'[t].at # "commit"
    BY <1>2, <2>1, <2>2 DEF Begin, Begun, Committing
  <2> QED
    BY <1>0, <1>1, <1>2, <2>2, <2>3, HeadFrame
<1>3. ASSUME NEW t \in Threads, NEW p \in Pods, NEW s \in Sources,
             Save(t, p, s) \/ Upload(t, p, s) \/ Delete(t, p, s)
      PROVE  HeadInv'
  <2>1. drawn' \in Texts /\ None \in Texts \cup {None}
    BY <1>3, FirstOp
  <2> DEFINE x == drawn'
  <2>2. x \in Texts /\ \/ Begin(t, p, "save", s, s, "add", x, None)
                       \/ Begin(t, p, "upload", s, s, "add", x, None)
                       \/ Begin(t, p, "delete", s, s, "remove", x, None)
    BY <1>3, <2>1 DEF Save, Upload, Delete
  <2>3. (\A y \in Sources \ {s} : md'[y] = md[y]) /\ UNCHANGED <<staged, head>>
    BY <1>0, <1>3 DEF Save, Upload, Delete, Write, files
  <2> HIDE DEF x
  <2> QED
    BY <1>2, <2>1, <2>2, <2>3
<1>4. ASSUME NEW t \in Threads, NEW p \in Pods, NEW from \in Sources,
             NEW kind \in Copies, Copy(t, p, kind, from)
      PROVE  HeadInv'
  <2>1. drawn' \in Texts /\ None \in Texts \cup {None}
    BY <1>4, FirstOp
  <2> DEFINE x == drawn'
  <2>2. PICK s \in FreeName : Begin(t, p, kind, s, from, "copy", x, None)
    BY <1>4 DEF Copy
  <2>3. s \in Sources /\ kind \in Kinds /\ UNCHANGED <<md, staged, head>> /\ x \in Texts
    BY <1>4, <2>1 DEF FreeName, Copy, files
  <2> HIDE DEF x
  <2> QED
    BY <1>2, <2>1, <2>2, <2>3
<1>5. ASSUME NEW t \in Threads, NEW p \in Pods, Create(t, p)
      PROVE  HeadInv'
  <2>1. drawn' \in Texts /\ None \in Texts \cup {None}
    BY <1>5, FirstOp
  <2> DEFINE x == drawn'
  <2>2. PICK s \in FreeName : Begin(t, p, "create", s, s, "write", x, None)
    BY <1>5 DEF Create
  <2>3. s \in Sources /\ UNCHANGED <<md, staged, head>> /\ x \in Texts
    BY <1>5, <2>1 DEF FreeName, Create, files
  <2> HIDE DEF x
  <2> QED
    BY <1>2, <2>1, <2>2, <2>3
<1>6. ASSUME NEW t \in Threads, NEW p \in Pods, Apply(t, p)
      PROVE  HeadInv'
  <2>1. PICK e \in pending[p] :
            Begin(t, p, "apply", e.src, e.src, "check", e.after, e.before)
    BY <1>6 DEF Apply
  <2>2. e.src \in Sources /\ e.after \in Texts /\ e.before \in Texts \cup {None}
    BY <1>0 DEF RestOK, Edit
  <2>3. UNCHANGED <<md, staged, head>>
    BY <1>6 DEF Apply, files
  <2> QED
    BY <1>2, <2>1, <2>2, <2>3
<1>7. ASSUME NEW s \in Sources, SaveDraft(s)
      PROVE  HeadInv'
  <2>1. /\ headGood' = headGood \ {s} /\ UNCHANGED <<staged, head>>
        /\ \A y \in Sources \ {s} : md'[y] = md[y]
        /\ \A u \in Threads : Keeps(u)
    BY <1>0, <1>7, MeetsOp DEF SaveDraft, Write
  <2>2. \A u \in Active' : op'[u].at = "commit" =>
            u \in Active /\ op[u].at = "commit" /\ op'[u].read = op[u].read
    BY <2>1 DEF Keeps, SameRequest, Active
  <2> QED
    BY <1>0, <2>1, <2>2, HeadFrame
<1>8. ASSUME NEW p \in Pods, Crash(p)
      PROVE  HeadInv'
  <2>1. UNCHANGED <<md, staged, head, headGood>> /\ \A u \in Threads : Keeps(u)
    BY <1>8, CrashOp DEF Crash, files
  <2>2. \A u \in Active' : op'[u].at = "commit" =>
            u \in Active /\ op[u].at = "commit" /\ op'[u].read = op[u].read
    BY <2>1 DEF Keeps, SameRequest, Active
  <2> QED
    BY <2>1, <2>2, HeadFrame
<1>9. CASE UNCHANGED <<op, md, staged, head, headGood>>
  BY <1>9 DEF HeadInv, Active
<1>10. ASSUME NEW t \in Threads, Check(t) \/ Load(t) \/ Truncate(t) \/ Fill(t)
       PROVE  HeadInv'
  <2>1. UNCHANGED <<md, staged, head, headGood>>
    BY <1>10 DEF Check, Load, Truncate, Fill, files, history
  <2>2. /\ \A u \in Threads \ {t} : Keeps(u)
        /\ t \in Active' => op'[t].at # "commit"
    BY <1>10, CheckOp, LoadOp, TruncateOp, FillOp DEF Alone, Moved
  <2> QED
    BY <1>1, <2>1, <2>2, HeadFrame
<1>11. ASSUME NEW t \in Threads, WriteText(t) \/ CopyText(t)
       PROVE  HeadInv'
  <2>1. /\ UNCHANGED <<staged, head>> /\ headGood' \subseteq headGood
        /\ \A s \in headGood' : md'[s] = md[s]
    BY <1>0, <1>11 DEF WriteText, CopyText, Write
  <2>2. /\ \A u \in Threads \ {t} : Keeps(u)
        /\ t \in Active' => op'[t].at # "commit"
    BY <1>11, WriteTextOp, CopyTextOp DEF Alone, Moved
  <2> QED
    BY <1>1, <2>1, <2>2, HeadFrame
<1>12. ASSUME NEW t \in Threads, Remove(t)
       PROVE  HeadInv'
  <2>1. /\ UNCHANGED <<staged, head>> /\ headGood' \subseteq headGood
        /\ \A s \in headGood' : md'[s] = md[s]
    BY <1>0, <1>12 DEF Remove
  <2>2. /\ \A u \in Threads \ {t} : Keeps(u)
        /\ t \in Active' => op'[t].at # "commit"
    BY <1>12, RemoveOp DEF Alone, Moved
  <2> QED
    BY <1>1, <2>1, <2>2, HeadFrame
<1>13. ASSUME NEW t \in Threads, Add(t)
       PROVE  HeadInv'
  <2>1. /\ UNCHANGED <<md, head, headGood>>
        /\ \A u \in Threads \ {t} : Keeps(u)
        /\ t \in Active' => op'[t].at # "commit"
    BY <1>13, AddOp DEF Add, Alone, Moved, history
  <2>2. staged' = staged \/ staged' = [staged EXCEPT ![op[t].src] = md[op[t].src]]
    BY <1>13, AddOp
  <2>3. \A s \in headGood : staged'[s] = staged[s]
    BY <1>0, <2>2 DEF HeadInv
  <2> QED
    BY <1>1, <2>1, <2>3, HeadFrame
<1>14. ASSUME NEW t \in Threads, WriteTree(t)
       PROVE  HeadInv'
  <2>1. /\ UNCHANGED <<md, staged, head, headGood>>
        /\ \A u \in Threads \ {t} : Keeps(u)
        /\ op'[t].read = staged
    BY <1>14, WriteTreeOp DEF WriteTree, Alone, files, history
  <2>2. ASSUME NEW s \in headGood, NEW u \in Active', op'[u].at = "commit"
        PROVE  op'[u].read[s] = md[s]
    <3>1. CASE u = t
      BY <2>1, <3>1 DEF HeadInv
    <3>2. CASE u # t
      <4>1. u \in Active /\ op[u].at = "commit" /\ op'[u].read = op[u].read
        BY <2>1, <2>2, <3>2 DEF Keeps, SameRequest, Active
      <4> QED
        BY <4>1 DEF HeadInv
    <3> QED
      BY <3>1, <3>2
  <2> QED
    BY <2>1, <2>2 DEF HeadInv
<1>15. ASSUME NEW t \in Threads, Commit(t)
       PROVE  HeadInv'
  <2>1. /\ UNCHANGED <<md, staged>> /\ t \in Active /\ op[t].at = "commit"
        /\ \A u \in Threads \ {t} : Keeps(u)
        /\ t \in Active' => op'[t].at # "commit"
    BY <1>15, CommitOp DEF Commit, Alone, Moved
  <2>2. CASE UNCHANGED <<head, headGood>>
    BY <1>1, <2>1, <2>2, HeadFrame
  <2>3. CASE /\ head' = op[t].read
             /\ headGood' = IF op[t].met \/ op[t].spoilt THEN headGood
                            ELSE headGood \cup {op[t].src}
    <3>1. ASSUME NEW s \in headGood'
          PROVE  /\ head'[s] = md[s] /\ staged[s] = md[s]
                 /\ \A u \in Active' : op'[u].at = "commit" => op'[u].read[s] = md[s]
      <4>1. \A u \in Active' : op'[u].at = "commit" =>
                u # t /\ u \in Active /\ op[u].at = "commit" /\ op'[u].read = op[u].read
        BY <1>1, <2>1
      <4>2. CASE s \in headGood
        BY <2>1, <2>3, <4>1, <4>2 DEF HeadInv
      <4>3. CASE s \notin headGood
        <5>1. ~op[t].met /\ ~op[t].spoilt /\ s = op[t].src
          BY <2>3, <3>1, <4>3
        <5>2. op[t].read[s] = md[s] /\ staged[s] = md[s]
          BY <2>1, <5>1, OwnBefore DEF FilesOwn, Committing
        <5>3. \A u \in Active : u # t => op[u].at # "commit"
          BY <2>1, <5>1 DEF RequestInv, SpoiltMutual, Committing
        <5> QED
          BY <2>3, <4>1, <5>2, <5>3
      <4> QED
        BY <4>2, <4>3
    <3> QED
      BY <2>1, <3>1 DEF HeadInv
  <2> QED
    BY <1>15, <2>2, <2>3 DEF Commit
<1> QED
  BY <1>3, <1>4, <1>5, <1>6, <1>7, <1>8, <1>9, <1>10, <1>11, <1>12, <1>13, <1>14, <1>15
     DEF Next, Step, Propose, Reject, Evict, vars, files, history

\* HEAD has the text of every document whose last writer committed it without a
\* failure, another request on the document or another commit meanwhile.
THEOREM HeadHasWhatWasSaved == Spec => []HeadHasSavedText
<1>1. Init => HeadInv
  BY DEF Init, HeadInv, Active
<1>2. HeadInv => HeadHasSavedText
  BY DEF HeadInv, HeadHasSavedText
<1> QED
  BY <1>1, <1>2, InitTypeInv, NextTypeInv, InitRequestInv, NextRequest, NextHead, PTL
     DEF Spec

-----------------------------------------------------------------------------
\* The registry is right where nothing disturbed it

\* The entries of those under way.
EntriesOf(t) == Entries(op[t].kind, op[t].src, op[t].from)

LEMMA InitRegistry == Init => RegistryInv
<1> SUFFICES ASSUME Init
             PROVE  RegistryInv
  OBVIOUS
<1>1. Active = {} /\ registry = made /\ registry # Torn
  BY WorkspaceAssumption DEF Init, Active
<1> QED
  BY <1>1 DEF RegistryInv

\* No more is said of the registry, which stays, as do the updates of it.
LEMMA RegistryFrame ==
    ASSUME RegistryInv, registryGood' \subseteq registryGood, UNCHANGED registry,
           \A s \in registryGood' : s \in made' <=> s \in made,
           \A u \in Active' :
               /\ EntriesOf(u)' \cap registryGood' = {}
               /\ op'[u].at \in Writing =>
                      u \in Active /\ op[u].at \in Writing /\ op'[u].read = op[u].read,
           registryGood' # {} =>
               \A u \in Active : op[u].at = "fill" => u \in Active' /\ op'[u].at = "fill"
    PROVE  RegistryInv'
<1>1. ASSUME NEW u \in Active'
      PROVE  EntriesOf(u)' \cap registryGood' = {}
  BY <1>1
<1>2. ASSUME NEW s \in registryGood'
      PROVE  /\ registry' # Torn => (s \in registry' <=> s \in made')
             /\ registry' = Torn /\ (\A u \in Active' : op'[u].at # "fill") => s \notin made'
             /\ \A u \in Active' : op'[u].at \in Writing =>
                    (s \in op'[u].read <=> s \in made')
  BY <1>2 DEF RegistryInv
<1> QED
  BY <1>1, <1>2 DEF RegistryInv, EntriesOf

\* A step of one request that writes no registry.
LEMMA RegistryStep ==
    ASSUME RegistryInv, registryGood' \subseteq registryGood, UNCHANGED registry,
           \A s \in registryGood' : s \in made' <=> s \in made,
           NEW t \in Threads,
           \A u \in Threads \ {t} : Keeps(u) /\ Stays(u),
           t \in Active => op[t].at # "fill",
           t \in Active' => /\ op'[t].at \notin Writing
                            /\ EntriesOf(t)' \cap registryGood' = {}
    PROVE  RegistryInv'
<1>1. ASSUME NEW u \in Active'
      PROVE  /\ EntriesOf(u)' \cap registryGood' = {}
             /\ op'[u].at \in Writing =>
                    u \in Active /\ op[u].at \in Writing /\ op'[u].read = op[u].read
  <2>1. CASE u = t
    BY <2>1
  <2>2. CASE u # t
    <3>1. u \in Active /\ SameRequest(u)
      BY <2>2 DEF Keeps, Active
    <3>2. EntriesOf(u)' = EntriesOf(u)
      BY <3>1 DEF EntriesOf, SameRequest
    <3>3. EntriesOf(u) \cap registryGood = {}
      BY <3>1 DEF RegistryInv, EntriesOf
    <3> QED
      BY <3>1, <3>2, <3>3 DEF SameRequest
  <2> QED
    BY <2>1, <2>2
<1>2. ASSUME NEW u \in Active, op[u].at = "fill"
      PROVE  u \in Active' /\ op'[u].at = "fill"
  BY <1>2 DEF Keeps, Stays, SameRequest, Active
<1> QED
  BY <1>1, <1>2, RegistryFrame

\* A request under way, up to where it reads the registry.
LEMMA RegistryMoves ==
    ASSUME TypeInv, RegistryInv, NEW t \in Active, NEW step, step \notin Writing,
           UNCHANGED <<registry, registryGood>>,
           \A s \in registryGood : s \in made' <=> s \in made,
           Alone(t) \/ \A u \in Threads \ {t} : Keeps(u) /\ Stays(u),
           op[t].at # "fill", t \in Active' => Moved(t, step)
    PROVE  RegistryInv'
<1>1. \A u \in Threads \ {t} : Keeps(u) /\ Stays(u)
  BY DEF Alone
<1>2. EntriesOf(t) \cap registryGood = {}
  BY DEF RegistryInv, EntriesOf
<1>3. t \in Active' => op'[t].at \notin Writing /\ EntriesOf(t)' = EntriesOf(t)
  BY DEF Moved, EntriesOf
<1>4. t \in Threads
  BY DEF Active
<1> QED
  BY <1>1, <1>2, <1>3, <1>4, RegistryStep

LEMMA FirstRegistry ==
    ASSUME TypeInv, RegistryInv, NEW t \in Threads, NEW p \in Pods
    PROVE  /\ \A s \in Sources : Save(t, p, s) \/ Upload(t, p, s) \/ Delete(t, p, s)
                                     => RegistryInv'
           /\ \A kind \in Copies, s \in Sources : Copy(t, p, kind, s) => RegistryInv'
           /\ Create(t, p) => RegistryInv'
           /\ Apply(t, p) => RegistryInv'
<1> USE FirstSteps
<1>0. RestOK /\ Typed
  BY TypeParts
<1>1. ASSUME NEW kind \in Kinds, NEW s \in Sources, NEW from \in Sources,
             NEW step \in {"add", "write", "copy", "remove", "check"}, NEW text \in Texts,
             NEW before \in Texts \cup {None},
             Begin(t, p, kind, s, from, step, text, before), UNCHANGED <<made, registry>>
      PROVE  RegistryInv'
  <2>1. step \in Steps /\ step \notin Committing \cup Writing
    OBVIOUS
  <2>2. /\ \A u \in Threads \ {t} : Keeps(u) /\ Stays(u)
        /\ Begun(t, p, kind, s, from, step, text, before)
    BY <1>0, <1>1, <2>1, BeginOp
  <2>3. registryGood' = registryGood \ Entries(kind, s, from)
    BY <1>1 DEF Begin
  <2>4. /\ t \notin Active /\ op'[t].at \notin Writing
        /\ EntriesOf(t)' \cap registryGood' = {}
    BY <2>1, <2>2, <2>3 DEF Begun, EntriesOf
  <2> QED
    BY <1>1, <2>2, <2>3, <2>4, RegistryStep
<1>2. ASSUME NEW s \in Sources, Save(t, p, s) \/ Upload(t, p, s) \/ Delete(t, p, s)
      PROVE  RegistryInv'
  <2>1. drawn' \in Texts /\ None \in Texts \cup {None}
    BY <1>2, FirstOp
  <2> DEFINE x == drawn'
  <2>2. x \in Texts /\ \/ Begin(t, p, "save", s, s, "add", x, None)
                       \/ Begin(t, p, "upload", s, s, "add", x, None)
                       \/ Begin(t, p, "delete", s, s, "remove", x, None)
    BY <1>2, <2>1 DEF Save, Upload, Delete
  <2>3. UNCHANGED <<made, registry>>
    BY <1>2 DEF Save, Upload, Delete
  <2> HIDE DEF x
  <2> QED
    BY <1>1, <2>1, <2>2, <2>3
<1>3. ASSUME NEW from \in Sources, NEW kind \in Copies, Copy(t, p, kind, from)
      PROVE  RegistryInv'
  <2>1. drawn' \in Texts /\ None \in Texts \cup {None}
    BY <1>3, FirstOp
  <2> DEFINE x == drawn'
  <2>2. PICK s \in FreeName : Begin(t, p, kind, s, from, "copy", x, None)
    BY <1>3 DEF Copy
  <2>3. s \in Sources /\ kind \in Kinds /\ UNCHANGED <<made, registry>> /\ x \in Texts
    BY <1>3, <2>1 DEF FreeName, Copy
  <2> HIDE DEF x
  <2> QED
    BY <1>1, <2>1, <2>2, <2>3
<1>4. ASSUME Create(t, p)
      PROVE  RegistryInv'
  <2>1. drawn' \in Texts /\ None \in Texts \cup {None}
    BY <1>4, FirstOp
  <2> DEFINE x == drawn'
  <2>2. PICK s \in FreeName : Begin(t, p, "create", s, s, "write", x, None)
    BY <1>4 DEF Create
  <2>3. s \in Sources /\ UNCHANGED <<made, registry>> /\ x \in Texts
    BY <1>4, <2>1 DEF FreeName, Create
  <2> HIDE DEF x
  <2> QED
    BY <1>1, <2>1, <2>2, <2>3
<1>5. ASSUME Apply(t, p)
      PROVE  RegistryInv'
  <2>1. PICK e \in pending[p] :
            Begin(t, p, "apply", e.src, e.src, "check", e.after, e.before)
    BY <1>5 DEF Apply
  <2>2. e.src \in Sources /\ e.after \in Texts /\ e.before \in Texts \cup {None}
    BY <1>0 DEF RestOK, Edit
  <2>3. UNCHANGED <<made, registry>>
    BY <1>5 DEF Apply
  <2> QED
    BY <1>1, <2>1, <2>2, <2>3
<1> QED
  BY <1>2, <1>3, <1>4, <1>5

\* A request at work on a document has its entries out of what is settled.
LEMMA MovesRegistry ==
    ASSUME TypeInv, RequestInv, RegistryInv, NEW t \in Threads
    PROVE  /\ Check(t) => RegistryInv'
           /\ WriteText(t) => RegistryInv'
           /\ CopyText(t) => RegistryInv'
           /\ Add(t) => RegistryInv'
           /\ WriteTree(t) => RegistryInv'
           /\ Commit(t) => RegistryInv'
           /\ Remove(t) => RegistryInv'
<1>1. ASSUME t \in Active
      PROVE  EntriesOf(t) \cap registryGood = {} /\ Fit(t)
  BY <1>1, OwnBefore DEF RegistryInv, EntriesOf
<1>2. \A step \in {"write", "add", "tree", "commit", "remove", "load"} : step \notin Writing
  BY DEF Writing
<1>3. ASSUME Check(t)
      PROVE  RegistryInv'
  <2>1. UNCHANGED <<registry, registryGood, made>>
    BY <1>3 DEF Check, history
  <2> QED
    BY <1>2, <1>3, <2>1, CheckOp, RegistryMoves
<1>4. ASSUME WriteText(t)
      PROVE  RegistryInv'
  <2>1. /\ Alone(t) /\ op[t].at = "write" /\ t \in Active /\ Moved(t, "add")
        /\ UNCHANGED <<registry, registryGood>>
    BY <1>4, WriteTextOp DEF WriteText
  <2>2. op[t].kind = "create" => op[t].src \in EntriesOf(t)
    BY DEF EntriesOf, Entries
  <2>3. \A s \in registryGood : s \in made' <=> s \in made
    BY <1>1, <1>4, <2>1, <2>2 DEF WriteText
  <2> QED
    BY <1>2, <2>1, <2>3, RegistryMoves
<1>5. ASSUME CopyText(t)
      PROVE  RegistryInv'
  <2>1. /\ Alone(t) /\ op[t].at = "copy" /\ t \in Active
        /\ t \in Active' => Moved(t, "add")
        /\ UNCHANGED <<registry, registryGood>>
    BY <1>5, CopyTextOp DEF CopyText
  <2>2. op[t].src \in EntriesOf(t)
    BY <1>1, <2>1 DEF EntriesOf, Entries, Fit, Copies
  <2>3. made' = made \/ made' = made \cup {op[t].src}
    BY <1>5 DEF CopyText
  <2>4. \A s \in registryGood : s \in made' <=> s \in made
    BY <1>1, <2>1, <2>2, <2>3
  <2> QED
    BY <1>2, <2>1, <2>4, RegistryMoves
<1>6. ASSUME Add(t)
      PROVE  RegistryInv'
  <2>1. /\ op[t].at = "add" /\ t \in Active
        /\ \A u \in Threads \ {t} : Keeps(u) /\ Stays(u)
        /\ \E step \in {"load", "remove", "tree"} : t \in Active' => Moved(t, step)
        /\ UNCHANGED <<registry, registryGood, made>>
    BY <1>6, AddOp DEF Add, Alone, history
  <2> QED
    BY <1>2, <2>1, RegistryMoves
<1>7. ASSUME WriteTree(t)
      PROVE  RegistryInv'
  <2>1. UNCHANGED <<registry, registryGood, made>>
    BY <1>7 DEF WriteTree, history
  <2> QED
    BY <1>2, <1>7, <2>1, WriteTreeOp, RegistryMoves
<1>8. ASSUME Commit(t)
      PROVE  RegistryInv'
  <2>1. /\ op[t].at = "commit" /\ t \in Active /\ Alone(t)
        /\ \E step \in {"load", "remove"} : t \in Active' => Moved(t, step)
        /\ UNCHANGED <<registry, registryGood, made>>
    BY <1>8, CommitOp DEF Commit
  <2> QED
    BY <1>2, <2>1, RegistryMoves
<1>9. ASSUME Remove(t)
      PROVE  RegistryInv'
  <2> DEFINE gone == IF op[t].kind = "rename" THEN op[t].from ELSE op[t].src
  <2>1. /\ op[t].at = "remove" /\ t \in Active /\ Alone(t)
        /\ t \in Active' => Moved(t, "load")
        /\ UNCHANGED <<registry, registryGood>>
        /\ made' = made \/ made' = made \ {gone}
    BY <1>9, RemoveOp DEF Remove
  <2>2. gone \in EntriesOf(t)
    BY <1>1, <2>1 DEF EntriesOf, Entries, Fit
  <2>3. \A s \in registryGood : s \in made' <=> s \in made
    BY <1>1, <2>1, <2>2
  <2> QED
    BY <1>2, <2>1, <2>3, RegistryMoves
<1> QED
  BY <1>3, <1>4, <1>5, <1>6, <1>7, <1>8, <1>9

\* An update is read, and what it says of the settled sources is right.
LEMMA LoadRegistry ==
    ASSUME TypeInv, RequestInv, RegistryInv, NEW t \in Threads, Load(t)
    PROVE  RegistryInv'
<1>1. /\ op[t].at = "load" /\ t \in Active
      /\ UNCHANGED <<registry, made>>
  BY LoadOp DEF Load
<1>2. /\ Fit(t) /\ (~op[t].met => MadeOwn(t))
      /\ EntriesOf(t) \cap registryGood = {}
  BY <1>1, OwnBefore DEF RegistryInv, EntriesOf
<1>3. CASE t \notin Active' /\ Alone(t) /\ registryGood' = registryGood
  <2>1. "load" \notin Writing
    BY DEF Writing
  <2> QED
    BY <1>1, <1>3, <2>1, RegistryMoves
<1>4. CASE /\ t \notin Active' /\ Alone(t) /\ op[t].kind = "delete"
           /\ op[t].src \notin Loaded
           /\ Settle(t) /\ \A u \in Active : op[u].at \notin Writing
  <2>1. ASSUME NEW u \in Active'
        PROVE  /\ u \in Active /\ SameRequest(u) /\ u # t
               /\ EntriesOf(u)' = EntriesOf(u) /\ op'[u].at \notin Writing
    <3>1. u \in Active /\ SameRequest(u) /\ u # t
      BY <1>4, <2>1 DEF Alone, Keeps, Active
    <3> QED
      BY <1>4, <3>1 DEF SameRequest, EntriesOf
  <2>2. CASE op[t].met \/ op[t].spoilt
    <3>1. registryGood' = registryGood
      BY <1>4, <2>2 DEF Settle
    <3>2. "load" \notin Writing
      BY DEF Writing
    <3> QED
      BY <1>1, <1>4, <3>1, <3>2, RegistryMoves
  <2>3. CASE ~(op[t].met \/ op[t].spoilt)
    <3>1. EntriesOf(t) = {op[t].src} /\ registryGood' = registryGood \cup {op[t].src}
      BY <1>4, <2>3 DEF Settle, EntriesOf, Entries
    <3>2. op[t].src \notin made
      BY <1>1, <1>2, <1>4, <2>3 DEF MadeOwn
    <3>3. ASSUME NEW u \in Active'
          PROVE  EntriesOf(u)' \cap registryGood' = {}
      <4>1. EntriesOf(u) \cap registryGood = {}
        BY <2>1 DEF RegistryInv, EntriesOf
      <4>2. Touches(t) \cap Touches(u) = {}
        BY <1>1, <2>1, <2>3 DEF RequestInv, MetMutual
      <4>3. EntriesOf(u) \subseteq Touches(u)
        BY DEF EntriesOf, Entries, Touches
      <4>4. op[t].src \in Touches(t)
        BY DEF Touches
      <4> QED
        BY <2>1, <3>1, <4>1, <4>2, <4>3, <4>4
    <3>4. ASSUME NEW s \in registryGood'
          PROVE  /\ registry # Torn => (s \in registry <=> s \in made)
                 /\ registry = Torn => s \notin made
      <4>1. CASE s = op[t].src
        BY <1>4, <3>2, <4>1 DEF Loaded
      <4>2. CASE s # op[t].src
        <5>1. s \in registryGood
          BY <3>1, <3>4, <4>2
        <5>2. \A u \in Active : op[u].at # "fill"
          BY <1>4 DEF Writing
        <5> QED
          BY <5>1, <5>2 DEF RegistryInv
      <4> QED
        BY <4>1, <4>2
    <3> QED
      BY <1>1, <2>1, <3>3, <3>4 DEF RegistryInv, EntriesOf
  <2> QED
    BY <2>2, <2>3
<1>5. CASE /\ Moved(t, "truncate") /\ op'[t].read = Updated(op[t], Loaded)
           /\ registryGood' = IF registry = Torn THEN {} ELSE registryGood
           /\ \A u \in Threads \ {t} : Keeps(u) /\ Stays(u)
  <2>1. CASE registry = Torn
    <3>1. registryGood' = {}
      BY <1>5, <2>1
    <3> QED
      BY <3>1 DEF RegistryInv
  <2>2. CASE registry # Torn
    <3>1. registryGood' = registryGood /\ Loaded = registry
      BY <1>5, <2>2 DEF Loaded
    <3>2. EntriesOf(t)' = EntriesOf(t)
      BY <1>5 DEF Moved, EntriesOf
    <3>3. ASSUME NEW u \in Active', u # t
          PROVE  /\ u \in Active /\ SameRequest(u)
                 /\ EntriesOf(u)' = EntriesOf(u)
      <4>1. u \in Active /\ SameRequest(u)
        BY <1>5, <3>3 DEF Keeps, Active
      <4> QED
        BY <4>1 DEF SameRequest, EntriesOf
    <3>4. ASSUME NEW u \in Active'
          PROVE  EntriesOf(u)' \cap registryGood' = {}
      <4>1. CASE u = t
        BY <1>2, <3>1, <3>2, <4>1
      <4>2. CASE u # t
        <5>1. EntriesOf(u) \cap registryGood = {}
          BY <3>3, <4>2 DEF RegistryInv, EntriesOf
        <5> QED
          BY <3>1, <3>3, <4>2, <5>1
      <4> QED
        BY <4>1, <4>2
    <3>5. ASSUME NEW s \in registryGood
          PROVE  s \in op'[t].read <=> s \in made
      <4>1. op[t].kind \in {"create", "duplicate", "rename", "delete"}
        BY <1>1, <1>2 DEF Fit
      <4>2. /\ s # op[t].src
            /\ op[t].kind = "rename" => s # op[t].from
        BY <1>2, <3>5, <4>1 DEF EntriesOf, Entries
      <4>3. s \in Updated(op[t], Loaded) <=> s \in registry
        BY <3>1, <4>1, <4>2 DEF Updated
      <4>4. s \in registry <=> s \in made
        BY <2>2, <3>5 DEF RegistryInv
      <4> QED
        BY <1>5, <4>3, <4>4
    <3>6. ASSUME NEW s \in registryGood', NEW u \in Active', op'[u].at \in Writing
          PROVE  s \in op'[u].read <=> s \in made'
      <4>1. CASE u = t
        BY <1>1, <3>1, <3>5, <3>6, <4>1
      <4>2. CASE u # t
        BY <1>1, <3>1, <3>3, <3>6, <4>2 DEF RegistryInv, SameRequest
      <4> QED
        BY <4>1, <4>2
    <3>7. \A s \in registryGood' : s \in registry' <=> s \in made'
      BY <1>1, <2>2, <3>1 DEF RegistryInv
    <3>8. registry' # Torn
      BY <1>1, <2>2
    <3> QED
      BY <3>4, <3>6, <3>7, <3>8 DEF RegistryInv, EntriesOf
  <2> QED
    BY <2>1, <2>2
<1> QED
  BY <1>3, <1>4, <1>5, LoadOp

\* The file is emptied, and filled: then it says what the update says, or, when
\* another pod had it open as well, nothing that can be parsed.
LEMMA FillRegistry ==
    ASSUME TypeInv, RequestInv, RegistryInv, NEW t \in Threads
    PROVE  /\ Truncate(t) => RegistryInv'
           /\ Fill(t) => RegistryInv'
<1>1. ASSUME Truncate(t)
      PROVE  RegistryInv'
  <2>1. /\ t \in Active /\ op[t].at = "truncate" /\ Alone(t) /\ Moved(t, "fill")
        /\ op'[t].read = op[t].read
        /\ registry' = Torn /\ UNCHANGED <<made, registryGood>>
    BY <1>1, TruncateOp DEF Truncate, history
  <2>2. ASSUME NEW u \in Active'
        PROVE  /\ u \in Active /\ EntriesOf(u)' = EntriesOf(u)
               /\ op'[u].read = op[u].read
               /\ op'[u].at \in Writing => op[u].at \in Writing
    <3>1. CASE u = t
      BY <2>1, <3>1 DEF Moved, EntriesOf, Writing
    <3>2. CASE u # t
      <4>1. u \in Active /\ SameRequest(u)
        BY <2>1, <2>2, <3>2 DEF Alone, Keeps, Active
      <4> QED
        BY <4>1 DEF EntriesOf, SameRequest
    <3> QED
      BY <3>1, <3>2
  <2>3. t \in Active' /\ op'[t].at = "fill"
    BY <2>1 DEF Moved
  <2>4. \A u \in Active' : EntriesOf(u)' \cap registryGood' = {}
    BY <2>1, <2>2 DEF RegistryInv, EntriesOf
  <2>5. ASSUME NEW s \in registryGood'
        PROVE  /\ registry' # Torn => (s \in registry' <=> s \in made')
               /\ registry' = Torn /\ (\A u \in Active' : op'[u].at # "fill") => s \notin made'
               /\ \A u \in Active' : op'[u].at \in Writing =>
                      (s \in op'[u].read <=> s \in made')
    BY <2>1, <2>2, <2>3, <2>5 DEF RegistryInv
  <2> QED
    BY <2>4, <2>5 DEF RegistryInv, EntriesOf
<1>2. ASSUME registryGood' = {}
      PROVE  RegistryInv'
  BY <1>2 DEF RegistryInv
<1>3. ASSUME Fill(t), registry' = op[t].read, Settle(t)
      PROVE  RegistryInv'
  <2>1. /\ t \in Active /\ op[t].at = "fill" /\ Alone(t) /\ t \notin Active'
        /\ registry' = op[t].read /\ UNCHANGED made
        /\ registryGood' = IF op[t].met \/ op[t].spoilt THEN registryGood
                           ELSE registryGood \cup EntriesOf(t)
    BY <1>3, FillOp DEF Fill, Settle, EntriesOf
  <2>2. registry' \subseteq Sources /\ registry' # Torn /\ op[t].at \in Writing
    <3>1. op[t].at \in Writing
      BY <2>1 DEF Writing
    <3>2. op[t].read \subseteq Sources
      BY <2>1, <3>1, ActiveFields
    <3> QED
      BY <2>1, <3>1, <3>2, WorkspaceAssumption
  <2>3. ASSUME NEW u \in Active'
        PROVE  /\ u \in Active /\ u # t /\ SameRequest(u)
               /\ EntriesOf(u)' = EntriesOf(u)
    <3>1. u \in Active /\ u # t /\ SameRequest(u)
      BY <2>1, <2>3 DEF Alone, Keeps, Active
    <3> QED
      BY <3>1 DEF EntriesOf, SameRequest
  <2>4. ASSUME NEW u \in Active'
        PROVE  EntriesOf(u)' \cap registryGood' = {}
    <3>1. EntriesOf(u) \cap registryGood = {}
      BY <2>3 DEF RegistryInv, EntriesOf
    <3>2. CASE op[t].met \/ op[t].spoilt
      BY <2>1, <2>3, <3>1, <3>2
    <3>3. CASE ~(op[t].met \/ op[t].spoilt)
      <4>1. Touches(t) \cap Touches(u) = {}
        BY <2>1, <2>3, <3>3 DEF RequestInv, MetMutual
      <4>2. EntriesOf(u) \subseteq Touches(u) /\ EntriesOf(t) \subseteq Touches(t)
        BY DEF EntriesOf, Entries, Touches
      <4> QED
        BY <2>1, <2>3, <3>1, <3>3, <4>1, <4>2
    <3> QED
      BY <3>2, <3>3
  <2>5. ASSUME NEW s \in registryGood'
        PROVE  /\ s \in registry' <=> s \in made'
               /\ \A u \in Active' : op'[u].at \in Writing =>
                      (s \in op'[u].read <=> s \in made')
    <3>1. CASE s \in registryGood
      BY <2>1, <2>2, <2>3, <3>1 DEF RegistryInv, SameRequest
    <3>2. CASE s \notin registryGood
      <4>1. ~op[t].met /\ ~op[t].spoilt /\ s \in EntriesOf(t)
        BY <2>1, <2>5, <3>2
      <4>2. s \in op[t].read <=> s \in made
        BY <2>1, <2>2, <4>1, OwnBefore DEF MadeOwn, EntriesOf
      <4>3. \A u \in Active' : op'[u].at \notin Writing
        <5> SUFFICES ASSUME NEW u \in Active'
                     PROVE  op'[u].at \notin Writing
          OBVIOUS
        <5>1. op[u].at \notin Writing
          BY <2>1, <2>2, <2>3, <4>1 DEF RequestInv, SpoiltMutual
        <5> QED
          BY <2>3, <5>1 DEF SameRequest
      <4> QED
        BY <2>1, <4>2, <4>3
    <3> QED
      BY <3>1, <3>2
  <2> QED
    BY <2>2, <2>4, <2>5 DEF RegistryInv, EntriesOf
<1> QED
  BY <1>1, <1>2, <1>3 DEF Fill

\* A draft is saved, a pod dies, or no request moves.
LEMMA OtherRegistry ==
    ASSUME TypeInv, RegistryInv,
           \/ \E s \in Sources : SaveDraft(s)
           \/ \E p \in Pods, s \in Sources : Propose(p, s)
           \/ \E p \in Pods : Reject(p) \/ Evict(p) \/ Crash(p)
           \/ UNCHANGED vars
    PROVE  RegistryInv'
<1>0. Typed
  BY TypeParts
<1>1. ASSUME \A u \in Threads : Keeps(u), registryGood' \subseteq registryGood,
             UNCHANGED <<registry, made>>,
             registryGood' # {} =>
                 \A u \in Active : op[u].at = "fill" => Stays(u)
      PROVE  RegistryInv'
  <2>1. ASSUME NEW u \in Active'
        PROVE  /\ EntriesOf(u)' \cap registryGood' = {}
               /\ op'[u].at \in Writing =>
                      u \in Active /\ op[u].at \in Writing /\ op'[u].read = op[u].read
    <3>1. u \in Active /\ SameRequest(u)
      BY <1>1, <2>1 DEF Keeps, Active
    <3>2. EntriesOf(u)' = EntriesOf(u)
      BY <3>1 DEF EntriesOf, SameRequest
    <3>3. EntriesOf(u) \cap registryGood = {}
      BY <3>1 DEF RegistryInv, EntriesOf
    <3> QED
      BY <1>1, <3>1, <3>2, <3>3 DEF SameRequest
  <2>2. registryGood' # {} =>
            \A u \in Active : op[u].at = "fill" => u \in Active' /\ op'[u].at = "fill"
    BY <1>1 DEF Keeps, Stays, SameRequest, Active
  <2> QED
    BY <1>1, <2>1, <2>2, RegistryFrame
<1>2. ASSUME NEW s \in Sources, SaveDraft(s)
      PROVE  RegistryInv'
  <2>1. \A u \in Threads : Keeps(u) /\ Stays(u)
    BY <1>0, <1>2, MeetsOp DEF SaveDraft
  <2>2. \A u \in Active : Stays(u)
    BY <2>1 DEF Active
  <2> QED
    BY <1>1, <1>2, <2>1, <2>2 DEF SaveDraft
<1>3. ASSUME NEW p \in Pods, Crash(p)
      PROVE  RegistryInv'
  <2>1. /\ UNCHANGED <<registry, made>>
        /\ registryGood' = IF \E u \in Active : op[u].pod = p /\ op[u].at = "fill"
                           THEN {} ELSE registryGood
    BY <1>3 DEF Crash
  <2>2. \A u \in Threads : Keeps(u) /\ (~Stays(u) => op[u].pod = p)
    BY <1>3, CrashOp
  <2>3. registryGood' # {} => \A u \in Active : op[u].at = "fill" => Stays(u)
    BY <2>1, <2>2 DEF Active
  <2> QED
    BY <1>1, <2>1, <2>2, <2>3
<1>4. CASE UNCHANGED <<op, registry, made, registryGood>>
  <2>1. \A u : Keeps(u) /\ Stays(u)
    BY <1>4 DEF Keeps, Stays, SameRequest, Active
  <2> QED
    BY <1>1, <1>4, <2>1
<1> QED
  BY <1>2, <1>3, <1>4 DEF Propose, Reject, Evict, vars, files, history

LEMMA NextRegistry == TypeInv /\ RequestInv /\ RegistryInv /\ [Next]_vars => RegistryInv'
BY FirstRegistry, MovesRegistry, LoadRegistry, FillRegistry, OtherRegistry DEF Next, Step

\* When nothing is under way the registry has exactly the files the studio made,
\* but for the sources whose last change failed, overlapped another on the same
\* document or in the registry, and for every source once the registry was read
\* half-written or was left unparseable, by a pod that died while it wrote it or
\* by two pods whose writes of it overlapped.
THEOREM RegistryIsTrue == Spec => []RegistryTruth
<1>1. RegistryInv => RegistryTruth
  BY DEF RegistryInv, RegistryTruth, Loaded
<1> QED
  BY <1>1, InitTypeInv, NextTypeInv, InitRequestInv, NextRequest, InitRegistry,
     NextRegistry, PTL DEF Spec
=============================================================================
