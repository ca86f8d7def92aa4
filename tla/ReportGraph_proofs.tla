------------------------- MODULE ReportGraph_proofs -------------------------
(***************************************************************************)
(* Proofs about ReportGraph for every set of titles and sources, every cap *)
(* on revisions and every recursion limit: the reviewer has the last word  *)
(* on what is finalized, the cap on rewriting, citations and the numbers   *)
(* of the reference list, types, and the room the recursion limit leaves.  *)
(***************************************************************************)
EXTENDS ReportGraph, FiniteSetTheorems, FunctionTheorems, TLAPS

-----------------------------------------------------------------------------
\* The inductive invariant

ControlTypeOK ==
    /\ node \in Nodes \cup Ends
    /\ feedback \subseteq Titles
    /\ gaps \subseteq Titles
    /\ reviewed \in BOOLEAN
    /\ revision \in Nat
    /\ rewrites \in Nat
    /\ seen \in BOOLEAN

\* The code's flag and the history agree: reviewed means seen as it stands.
FlagMeansSeen == reviewed => seen

\* While a draft stands reviewed, what the last review asked for is still in
\* section_feedback, whatever the researcher did in between.
FeedbackKept == reviewed => feedback = asked

\* Feedback is of a counted review, and rewrites lag behind the count.
FeedbackIsCounted ==
    /\ rewrites <= revision
    /\ feedback # {} => rewrites < revision

\* The supervisor sent the run to this node for a reason that still holds.
SentForAReason ==
    /\ node \in {"finalize", "end"} =>
        reviewed /\ (feedback # {} => revision >= MaxRevisions)
    /\ node = "writer" /\ Drafted => reviewed /\ feedback # {} /\ revision < MaxRevisions

GInv ==
    /\ ControlTypeOK
    /\ FlagMeansSeen
    /\ FeedbackKept
    /\ FeedbackIsCounted
    /\ SentForAReason
    /\ RewritesBelowCap

-----------------------------------------------------------------------------
LEMMA InitGInv == Init => GInv
<1> SUFFICES ASSUME Init
             PROVE  GInv
  OBVIOUS
<1>1. /\ node = "supervisor" /\ feedback = {} /\ gaps = {} /\ asked = {}
      /\ reviewed = FALSE /\ seen = FALSE /\ revision = 0 /\ rewrites = 0
  BY DEF Init
<1>2. ControlTypeOK
  BY <1>1 DEF ControlTypeOK, Nodes
<1>3. FlagMeansSeen /\ FeedbackKept
  BY <1>1 DEF FlagMeansSeen, FeedbackKept
<1>4. FeedbackIsCounted /\ RewritesBelowCap
  BY <1>1 DEF FeedbackIsCounted, RewritesBelowCap
<1>5. SentForAReason
  BY <1>1 DEF SentForAReason
<1>6. QED
  BY <1>2, <1>3, <1>4, <1>5 DEF GInv

\* Planning leads to research and touches nothing else.
LEMMA PlanStep ==
    ASSUME GInv, Plan
    PROVE  GInv'
BY DEF Plan, Run, GInv, ControlTypeOK, FlagMeansSeen, FeedbackKept,
       FeedbackIsCounted, SentForAReason, RewritesBelowCap, Nodes, Ends, Drafted,
       researchVars, reviewVars, historyVars

\* The router's tests are what SentForAReason remembers.
LEMMA RouteStep ==
    ASSUME GInv, Route
    PROVE  GInv'
<1> USE DEF GInv, reviewVars, historyVars
<1>1. UNCHANGED <<sections, feedback, gaps, reviewed, revision, seen, asked, rewrites>>
  BY DEF Route
<1>2. node' \in Nodes
  BY DEF Route, NextNode, Nodes
<1>3. node' = "finalize" =>
        reviewed /\ (feedback # {} => revision >= MaxRevisions)
  BY GraphAssumption DEF Route, NextNode, MayRevise, ControlTypeOK
<1>4. node' = "writer" /\ Drafted => reviewed /\ feedback # {} /\ revision < MaxRevisions
  BY DEF Route, NextNode, MayRevise
<1>5. SentForAReason'
  BY <1>1, <1>2, <1>3, <1>4 DEF SentForAReason, Nodes, Drafted
<1>6. QED
  BY <1>1, <1>2, <1>5 DEF ControlTypeOK, FlagMeansSeen, FeedbackKept,
                          FeedbackIsCounted, RewritesBelowCap

\* Research closes the gaps and leaves the feedback alone.
LEMMA ResearchStep ==
    ASSUME GInv, Research
    PROVE  GInv'
<1>1. /\ UNCHANGED <<sections, feedback, reviewed, revision, seen, asked, rewrites>>
      /\ node' = "supervisor" /\ gaps' = {}
  BY DEF Research, FeedbackLeft
<1>2. QED
  BY <1>1 DEF GInv, ControlTypeOK, FlagMeansSeen, FeedbackKept, FeedbackIsCounted,
              SentForAReason, RewritesBelowCap, Nodes

\* Writing counts as a rewrite only with feedback below the cap.
LEMMA WriteStep ==
    ASSUME GInv, Write
    PROVE  GInv'
<1> USE DEF GInv
<1>1. /\ node = "writer" /\ node' = "supervisor"
      /\ feedback' = {} /\ reviewed' = FALSE /\ seen' = FALSE
      /\ rewrites' = IF Drafted THEN rewrites + 1 ELSE rewrites
      /\ UNCHANGED <<gaps, revision, asked>>
  BY DEF Write, Run, AwaitsReview
<1>2. CASE Drafted
  <2>1. rewrites < revision /\ revision < MaxRevisions /\ rewrites' = rewrites + 1
    BY <1>1, <1>2 DEF SentForAReason, FeedbackIsCounted
  <2>2. rewrites' \in Nat /\ rewrites' <= revision /\ rewrites' < MaxRevisions
    BY <2>1, GraphAssumption DEF ControlTypeOK
  <2>3. QED
    BY <1>1, <2>2 DEF ControlTypeOK, FlagMeansSeen, FeedbackKept, FeedbackIsCounted,
                      SentForAReason, RewritesBelowCap, Nodes
<1>3. CASE ~Drafted
  <2>1. rewrites' = rewrites
    BY <1>1, <1>3
  <2>2. QED
    BY <1>1, <2>1 DEF ControlTypeOK, FlagMeansSeen, FeedbackKept, FeedbackIsCounted,
                      SentForAReason, RewritesBelowCap, Nodes
<1>4. QED
  BY <1>2, <1>3

\* A review that asks for something is counted before anybody acts on it.
LEMMA JudgeStep ==
    ASSUME GInv, NEW f \in SUBSET Titles, NEW g \in SUBSET Titles, NEW r \in Nat,
           Judge(f, g, r),
           r >= revision, f # {} => r > revision
    PROVE  GInv'
BY DEF Judge, GInv, ControlTypeOK, FlagMeansSeen, FeedbackKept, FeedbackIsCounted,
       SentForAReason, RewritesBelowCap, Nodes

\* The steps that only move the run on, or end it.
LEMMA EndStep ==
    ASSUME GInv, ReviewFails \/ Finalize \/ Abort
    PROVE  GInv'
<1> USE DEF GInv, reviewVars, historyVars
<1>1. UNCHANGED <<sections, feedback, gaps, reviewed, revision, seen, asked, rewrites>>
  BY DEF ReviewFails, Finalize, Abort
<1>2. \/ node' \in {"failed", "aborted"}
      \/ node = "finalize" /\ node' = "end"
  BY DEF ReviewFails, Finalize, Abort, Run
<1>3. QED
  BY <1>1, <1>2 DEF ControlTypeOK, FlagMeansSeen, FeedbackKept, FeedbackIsCounted,
                    SentForAReason, RewritesBelowCap, Ends, Drafted

-----------------------------------------------------------------------------
LEMMA NextGInv == GInv /\ [Next]_vars => GInv'
<1> SUFFICES ASSUME GInv, [Next]_vars
             PROVE  GInv'
  OBVIOUS
<1>1. CASE Plan
  BY <1>1, PlanStep
<1>2. CASE Route
  BY <1>2, RouteStep
<1>3. CASE Research
  BY <1>3, ResearchStep
<1>4. CASE Write
  BY <1>4, WriteStep
<1>5. CASE Approve
  <2>1. revision \in Nat /\ Judge({}, {}, revision)
    BY <1>5 DEF Approve, GInv, ControlTypeOK
  <2>2. QED
    BY <2>1, JudgeStep
<1>6. CASE RequestChanges
  <2>1. PICK f \in SUBSET Titles, g \in SUBSET Titles : Judge(f, g, revision + 1)
    BY <1>6 DEF RequestChanges
  <2>2. revision + 1 \in Nat /\ revision + 1 >= revision /\ revision + 1 > revision
    BY DEF GInv, ControlTypeOK
  <2>3. QED
    BY <2>1, <2>2, JudgeStep
<1>7. CASE ReviewFails \/ Finalize \/ Abort
  BY <1>7, EndStep
<1>8. CASE UNCHANGED vars
  BY <1>8 DEF GInv, ControlTypeOK, FlagMeansSeen, FeedbackKept, FeedbackIsCounted,
              SentForAReason, RewritesBelowCap, Drafted, vars, runVars,
              reviewVars, historyVars
<1>9. QED
  BY <1>1, <1>2, <1>3, <1>4, <1>5, <1>6, <1>7, <1>8 DEF Next

\* The inductive invariant holds in every reachable state.
THEOREM GraphInvariant == Spec => []GInv
BY InitGInv, NextGInv, PTL DEF Spec

\* For every cap and every sequence of reviews: no draft is finalized that the
\* reviewer has not judged in its final form.
THEOREM SeenBeforeFinal == Spec => []FinalDraftWasSeen
<1>1. GInv => FinalDraftWasSeen
  BY DEF GInv, SentForAReason, FlagMeansSeen, FinalDraftWasSeen
<1>2. QED
  BY <1>1, GraphInvariant, PTL

\* For every cap: what the last review wanted rewritten is left undone only when
\* the cap is reached, detours over the researcher included.
THEOREM AnsweredBelowCap == Spec => []UnansweredOnlyAtCap
<1>1. GInv => UnansweredOnlyAtCap
  BY DEF GInv, SentForAReason, FeedbackKept, UnansweredOnlyAtCap
<1>2. QED
  BY <1>1, GraphInvariant, PTL

\* For every cap: the draft is rewritten fewer times than REPORT_MAX_REVISIONS.
THEOREM RewritesBounded == Spec => []RewritesBelowCap
<1>1. GInv => RewritesBelowCap
  BY DEF GInv
<1>2. QED
  BY <1>1, GraphInvariant, PTL

-----------------------------------------------------------------------------
\* The citations

\* Every sources block agrees with the reference list as it is now.
BlocksResolve ==
    \A t \in DOMAIN evidence : \A c \in evidence[t].block :
        c[1] \in DOMAIN references /\ references[c[1]] = c[2]

\* Evidence is there for all sections or for none, and for all once anybody
\* writes, reviews or has a gap to close.
EvidenceCovers ==
    /\ DOMAIN evidence = {} \/ DOMAIN evidence = ToSet(outline)
    /\ node \in {"writer", "reviewer"} \/ gaps # {} => DOMAIN evidence # {}

CitationInv ==
    /\ BlocksResolve
    /\ EvidenceCovers
    /\ outdated \subseteq DOMAIN sections
    /\ FreshCitationsResolve

\* What _sources_block lists is numbered as the reference list has it.
LEMMA BlockIsNumbered ==
    ASSUME NEW refs, NEW ss, NEW c \in SourcesBlock(refs, ss)
    PROVE  c[1] \in DOMAIN refs /\ refs[c[1]] = c[2]
BY DEF SourcesBlock

LEMMA InitCitationInv == Init => CitationInv
BY DEF Init, CitationInv, BlocksResolve, EvidenceCovers, FreshCitationsResolve

\* New numbers come with new blocks for all sections, and all texts are outdated.
LEMMA ResearchCites ==
    ASSUME CitationInv, Research
    PROVE  CitationInv'
<1>1. PICK new \in [Targets -> Findings] :
          LET found == [t \in ToSet(outline) |-> IF t \in Targets THEN new[t]
                                                 ELSE evidence[t].sources]
              refs == BuildReferences(found)
          IN  /\ evidence' = [t \in ToSet(outline) |->
                                [sources |-> found[t],
                                 block |-> BlockOf(t, refs, found)]]
              /\ references' = refs
  BY DEF Research
<1>2. /\ DOMAIN evidence' = ToSet(outline)
      /\ \A t \in ToSet(outline) :
             \E ss : evidence'[t].block = SourcesBlock(references', ss)
  BY <1>1 DEF BlockOf
<1>3. /\ outline' = outline /\ sections' = sections /\ outdated' = DOMAIN sections
      /\ node' = "supervisor" /\ gaps' = {}
  BY DEF Research
<1>4. BlocksResolve'
  BY <1>2, BlockIsNumbered DEF BlocksResolve
<1>5. EvidenceCovers'
  BY <1>2, <1>3 DEF EvidenceCovers
<1>6. FreshCitationsResolve'
  BY <1>3 DEF FreshCitationsResolve
<1> QED
  BY <1>3, <1>4, <1>5, <1>6 DEF CitationInv

\* A new text cites its block or nothing.
LEMMA WriteCites ==
    ASSUME CitationInv, Write
    PROVE  CitationInv'
<1>1. PICK new \in [ToWrite -> UNION {Texts(i) : i \in ToWrite}] :
          /\ \A i \in ToWrite : new[i] \in Texts(i)
          /\ sections' = [i \in DOMAIN sections \cup ToWrite |->
                              IF i \in ToWrite THEN new[i] ELSE sections[i]]
  BY DEF Write
<1>2. /\ outdated' = outdated \ ToWrite /\ node = "writer" /\ node' = "supervisor"
      /\ UNCHANGED <<outline, evidence, references, gaps>>
  BY DEF Write, Run, researchVars
<1>3. BlocksResolve' /\ EvidenceCovers'
  BY <1>2 DEF CitationInv, BlocksResolve, EvidenceCovers
<1>4. outdated' \subseteq DOMAIN sections'
  BY <1>1, <1>2 DEF CitationInv
<1>5. ASSUME NEW i \in DOMAIN sections' \ outdated', NEW c \in sections'[i].cites
      PROVE  c[1] \in DOMAIN references /\ references[c[1]] = c[2]
  <2>1. CASE i \in ToWrite
    <3>1. sections'[i] \in Texts(i)
      BY <1>1, <2>1
    <3>2. c \in evidence[outline[i]].block
      BY <1>5, <3>1 DEF Texts
    <3>3. outline[i] \in DOMAIN evidence
      <4>1. i \in DOMAIN outline
        BY <2>1 DEF ToWrite
      <4>2. outline[i] \in ToSet(outline)
        BY <4>1 DEF ToSet
      <4> QED
        BY <1>2, <4>2 DEF CitationInv, EvidenceCovers
    <3> QED
      BY <3>2, <3>3 DEF CitationInv, BlocksResolve
  <2>2. CASE i \notin ToWrite
    <3>1. i \in DOMAIN sections \ outdated /\ sections'[i] = sections[i]
      BY <1>1, <1>2, <1>5, <2>2
    <3> QED
      BY <1>5, <3>1 DEF CitationInv, FreshCitationsResolve
  <2> QED
    BY <2>1, <2>2
<1>6. FreshCitationsResolve'
  BY <1>2, <1>5 DEF FreshCitationsResolve
<1> QED
  BY <1>3, <1>4, <1>6 DEF CitationInv

LEMMA NextCitationInv == CitationInv /\ [Next]_vars => CitationInv'
<1> SUFFICES ASSUME CitationInv, [Next]_vars
             PROVE  CitationInv'
  OBVIOUS
<1>1. CASE Research
  BY <1>1, ResearchCites
<1>2. CASE Write
  BY <1>2, WriteCites
<1>3. ASSUME UNCHANGED <<evidence, references, sections, outdated>>, EvidenceCovers'
      PROVE  CitationInv'
  BY <1>3 DEF CitationInv, BlocksResolve, FreshCitationsResolve
<1>4. CASE Plan
  <2>1. /\ outline = <<>> /\ node' = "researcher"
        /\ UNCHANGED <<evidence, references, sections, gaps, outdated>>
    BY <1>4 DEF Plan, researchVars, reviewVars, historyVars
  <2>2. ToSet(<<>>) = {}
    BY DEF ToSet
  <2>3. EvidenceCovers'
    BY <2>1, <2>2 DEF CitationInv, EvidenceCovers
  <2> QED
    BY <1>3, <2>1, <2>3
<1>5. CASE Route
  <2>1. /\ node' = NextNode
        /\ UNCHANGED <<outline, evidence, references, sections, gaps, outdated>>
    BY <1>5 DEF Route, researchVars, reviewVars, historyVars
  <2>2. NextNode \in {"writer", "reviewer"} => DOMAIN evidence # {}
    BY DEF NextNode
  <2>3. EvidenceCovers'
    BY <2>1, <2>2 DEF CitationInv, EvidenceCovers
  <2> QED
    BY <1>3, <2>1, <2>3
<1>6. CASE Approve \/ RequestChanges \/ ReviewFails \/ Finalize \/ Abort
  <2>1. /\ node' \notin {"writer", "reviewer"}
        /\ node = "reviewer" \/ gaps' = gaps
        /\ UNCHANGED <<outline, evidence, references, sections, outdated>>
    BY <1>6 DEF Approve, RequestChanges, Judge, Run, ReviewFails, Finalize, Abort,
                researchVars, reviewVars, historyVars
  <2>2. EvidenceCovers'
    BY <2>1 DEF CitationInv, EvidenceCovers
  <2> QED
    BY <1>3, <2>1, <2>2
<1>7. CASE UNCHANGED vars
  BY <1>3, <1>7 DEF vars, runVars, researchVars, reviewVars, historyVars, CitationInv,
                    EvidenceCovers
<1> QED
  BY <1>1, <1>2, <1>4, <1>5, <1>6, <1>7 DEF Next

\* Sections written since the last research cite the reference list as it is now,
\* whatever the searches return and however often only some sections are
\* researched again.
THEOREM CitationsResolve == Spec => []FreshCitationsResolve
<1>1. CitationInv => FreshCitationsResolve
  BY DEF CitationInv
<1> QED
  BY <1>1, InitCitationInv, NextCitationInv, PTL DEF Spec

-----------------------------------------------------------------------------
\* The numbers of the reference list

\* Two places are in order one way or the other, and a chain of them as well.
LEMMA BeforeIsAnOrder ==
    /\ \A p, q \in Nat \X Nat : p = q \/ Before(p, q) \/ Before(q, p)
    /\ \A p \in Nat \X Nat : ~Before(p, p)
    /\ \A p, q, r \in Nat \X Nat : Before(p, q) /\ Before(q, r) => Before(p, r)
BY DEF Before

\* Counting what stands before it tells the members of a finite set of places
\* apart.
LEMMA RanksAreDistinct ==
    ASSUME NEW S \in SUBSET (Nat \X Nat), IsFiniteSet(S)
    PROVE  /\ Cardinality(S) \in Nat
           /\ \A p \in S : Cardinality({r \in S : Before(r, p)}) + 1 \in 1..Cardinality(S)
           /\ \A p, q \in S :
                  Cardinality({r \in S : Before(r, p)}) = Cardinality({r \in S : Before(r, q)})
                      => p = q
<1> DEFINE Earlier(p) == {r \in S : Before(r, p)}
           N == Cardinality(S)
<1>1. N \in Nat
  BY FS_CardinalityType
<1>2. ASSUME NEW p \in S
      PROVE  IsFiniteSet(Earlier(p)) /\ Cardinality(Earlier(p)) \in Nat
  BY FS_Subset, FS_CardinalityType
<1>3. ASSUME NEW p \in S
      PROVE  Cardinality(Earlier(p)) < N
  <2>1. p \notin Earlier(p)
    BY BeforeIsAnOrder
  <2>2. Cardinality(Earlier(p)) <= N /\ Cardinality(Earlier(p)) # N
    BY <2>1, FS_Subset
  <2> QED
    BY <1>1, <1>2, <2>2
<1>4. ASSUME NEW p \in S, NEW q \in S, Before(p, q)
      PROVE  Cardinality(Earlier(p)) < Cardinality(Earlier(q))
  <2>1. Earlier(p) \in SUBSET Earlier(q)
    BY <1>4, BeforeIsAnOrder
  <2>2. p \in Earlier(q) /\ p \notin Earlier(p)
    BY <1>4, BeforeIsAnOrder
  <2>3. /\ Cardinality(Earlier(p)) <= Cardinality(Earlier(q))
        /\ Cardinality(Earlier(p)) # Cardinality(Earlier(q))
    BY <1>2, <2>1, <2>2, FS_Subset
  <2> HIDE DEF Earlier
  <2> QED
    BY <1>2, <2>3
<1> HIDE DEF Earlier
<1>5. ASSUME NEW p \in S
      PROVE  Cardinality(Earlier(p)) + 1 \in 1..N
  BY <1>1, <1>2, <1>3
<1>6. ASSUME NEW p \in S, NEW q \in S, Cardinality(Earlier(p)) = Cardinality(Earlier(q))
      PROVE  p = q
  <2>1. ~Before(p, q) /\ ~Before(q, p)
    BY <1>2, <1>4, <1>6
  <2> QED
    BY <2>1, BeforeIsAnOrder
<1> QED
  BY <1>1, <1>5, <1>6 DEF Earlier

\* And every number up to their count is taken.
LEMMA EveryRankIsTaken ==
    ASSUME NEW S \in SUBSET (Nat \X Nat), IsFiniteSet(S), NEW n \in 1..Cardinality(S)
    PROVE  \E p \in S : Cardinality({q \in S : Before(q, p)}) = n - 1
<1> DEFINE Rank(p) == Cardinality({q \in S : Before(q, p)})
           N == Cardinality(S)
           rank == [p \in S |-> Rank(p) + 1]
<1>1. /\ N \in Nat
      /\ \A p \in S : Rank(p) \in Nat
      /\ \A p \in S : Rank(p) + 1 \in 1..N
      /\ \A p, q \in S : Rank(p) = Rank(q) => p = q
  <2>1. ASSUME NEW p \in S
        PROVE  Rank(p) \in Nat
    BY FS_Subset, FS_CardinalityType
  <2> QED
    BY <2>1, RanksAreDistinct
<1> HIDE DEF Rank
<1>2. rank \in Injection(S, 1..N)
  <2>1. ASSUME NEW p \in S, NEW q \in S, rank[p] = rank[q]
        PROVE  p = q
    BY <1>1, <2>1
  <2>2. rank \in [S -> 1..N]
    BY <1>1
  <2> QED
    BY <2>1, <2>2, Fun_IsInj
<1>3. IsFiniteSet(1..N) /\ Cardinality(1..N) = N
  BY <1>1, FS_Interval
<1>4. rank \in Surjection(S, 1..N)
  BY <1>2, <1>3, FS_Injection
<1>5. PICK p \in S : rank[p] = n
  BY <1>4 DEF Surjection
<1>6. Rank(p) = n - 1
  BY <1>1, <1>5
<1> QED
  BY <1>6 DEF Rank

\* What is found for a section is a list of sources, of bounded length.
LEMMA FindingsAreSeqs ==
    ASSUME NEW ss \in Findings
    PROVE  /\ ss \in Seq(Sources)
           /\ DOMAIN ss \subseteq 1..MaxSources
<1>1. PICK m \in 0..MaxSources : ss \in [1..m -> Sources]
  BY DEF Findings, SeqOf
<1>2. m \in Nat /\ m <= MaxSources
  BY <1>1, GraphAssumption
<1> QED
  BY <1>1, <1>2, GraphAssumption

\* There are finitely many places, and each has a source.
LEMMA PlacesOfAnOutline ==
    ASSUME outline \in Seq(Titles), NEW found,
           \A t \in ToSet(outline) : found[t] \in Findings
    PROVE  /\ Places(found) \in SUBSET (Nat \X Nat)
           /\ IsFiniteSet(Places(found))
           /\ \A p \in Places(found) : SourceAt(found, p) \in Sources
<1>1. DOMAIN outline = 1..Len(outline) /\ Len(outline) \in Nat
  OBVIOUS
<1>2. IsFiniteSet(DOMAIN outline) /\ IsFiniteSet(1..MaxSources)
  BY <1>1, GraphAssumption, FS_Interval
<1>3. IsFiniteSet((DOMAIN outline) \X (1..MaxSources))
  BY <1>2, FS_Product
<1>4. Places(found) \in SUBSET ((DOMAIN outline) \X (1..MaxSources))
  BY DEF Places
<1>5. IsFiniteSet(Places(found))
  BY <1>3, <1>4, FS_Subset
<1>6. Places(found) \in SUBSET (Nat \X Nat)
  BY <1>1, <1>4, GraphAssumption
<1>7. ASSUME NEW p \in Places(found)
      PROVE  SourceAt(found, p) \in Sources
  <2>1. p[1] \in DOMAIN outline /\ p[2] \in DOMAIN found[outline[p[1]]]
    BY <1>7 DEF Places
  <2>2. outline[p[1]] \in ToSet(outline)
    BY <2>1 DEF ToSet
  <2>3. found[outline[p[1]]] \in Seq(Sources)
    BY <2>2, FindingsAreSeqs
  <2> QED
    BY <2>1, <2>3 DEF SourceAt
<1> QED
  BY <1>5, <1>6, <1>7

\* _build_references gives every source found exactly one number.
LEMMA ReferencesNumberSources ==
    ASSUME outline \in Seq(Titles), NEW found,
           \A t \in ToSet(outline) : found[t] \in Findings
    PROVE  /\ BuildReferences(found) \in Seq(Sources)
           /\ IsInjective(BuildReferences(found))
           /\ \A t \in ToSet(outline) : \A s \in ToSet(found[t]) :
                  \E n \in DOMAIN BuildReferences(found) : BuildReferences(found)[n] = s
<1> DEFINE new == NewPlaces(found)
           Rank(p) == Cardinality({q \in new : Before(q, p)})
           NthPlace(n) == CHOOSE p \in new : Rank(p) = n - 1
           refs == BuildReferences(found)
<1>1. new \in SUBSET Places(found)
  BY DEF NewPlaces
<1>2. new \in SUBSET (Nat \X Nat) /\ IsFiniteSet(new) /\ Cardinality(new) \in Nat
  BY <1>1, PlacesOfAnOutline, FS_Subset, FS_CardinalityType
<1>3. refs = [n \in 1..Cardinality(new) |-> SourceAt(found, NthPlace(n))]
  BY DEF BuildReferences
<1>4. ASSUME NEW n \in 1..Cardinality(new)
      PROVE  NthPlace(n) \in new /\ Rank(NthPlace(n)) = n - 1
  <2>1. \E p \in new : Rank(p) = n - 1
    BY <1>2, EveryRankIsTaken
  <2> HIDE DEF new, Rank
  <2> QED
    BY <2>1
<1>5. ASSUME NEW p \in new, NEW q \in new, SourceAt(found, p) = SourceAt(found, q)
      PROVE  p = q
  <2>1. ~Before(p, q) /\ ~Before(q, p)
    BY <1>1, <1>5 DEF NewPlaces
  <2> QED
    BY <1>2, <2>1, BeforeIsAnOrder
<1> HIDE DEF new, Rank, NthPlace, refs
<1>6. refs \in Seq(Sources)
  <2>1. ASSUME NEW n \in 1..Cardinality(new)
        PROVE  SourceAt(found, NthPlace(n)) \in Sources
    BY <1>1, <1>4, PlacesOfAnOutline
  <2> QED
    BY <1>2, <1>3, <2>1
<1>7. IsInjective(refs)
  <2>1. ASSUME NEW m \in 1..Cardinality(new), NEW n \in 1..Cardinality(new),
               refs[m] = refs[n]
        PROVE  m = n
    <3>1. NthPlace(m) = NthPlace(n)
      BY <1>3, <1>4, <1>5, <2>1
    <3>2. m - 1 = n - 1
      BY <1>4, <3>1
    <3> QED
      BY <1>2, <3>2
  <2> QED
    BY <1>3, <2>1 DEF IsInjective
<1>8. ASSUME NEW t \in ToSet(outline), NEW s \in ToSet(found[t])
      PROVE  \E n \in DOMAIN refs : refs[n] = s
  <2> DEFINE same == {p \in Places(found) : SourceAt(found, p) = s}
  <2>1. PICK i \in DOMAIN outline : t = outline[i]
    BY DEF ToSet
  <2>2. PICK k \in DOMAIN found[t] : s = found[t][k]
    BY DEF ToSet
  <2>3. k \in 1..MaxSources
    BY <2>2, FindingsAreSeqs
  <2>4. <<i, k>> \in same
    BY <2>1, <2>2, <2>3 DEF Places, SourceAt
  <2>5. same \in SUBSET (Nat \X Nat) /\ IsFiniteSet(same)
    BY PlacesOfAnOutline, FS_Subset
  <2>6. 1 \in 1..Cardinality(same)
    <3>1. Cardinality(same) \in Nat /\ Cardinality(same) # 0
      BY <2>4, <2>5, FS_EmptySet, FS_CardinalityType
    <3> QED
      BY <3>1
  <2>7. PICK p \in same : Cardinality({q \in same : Before(q, p)}) = 0
    <3> HIDE DEF same
    <3>1. \E p \in same : Cardinality({q \in same : Before(q, p)}) = 1 - 1
      BY <2>5, <2>6, EveryRankIsTaken
    <3>2. 1 - 1 = 0
      OBVIOUS
    <3> QED
      BY <3>1, <3>2, Zenon
  <2>8. \A q \in same : ~Before(q, p)
    <3>1. IsFiniteSet({q \in same : Before(q, p)})
      BY <2>5, FS_Subset
    <3> QED
      BY <2>7, <3>1, FS_EmptySet
  <2>9. p \in new
    BY <2>8 DEF new, NewPlaces
  <2>10. Rank(p) + 1 \in 1..Cardinality(new) /\ Rank(p) \in Nat
    BY <1>2, <2>9, RanksAreDistinct, FS_Subset, FS_CardinalityType DEF Rank
  <2>11. NthPlace(Rank(p) + 1) = p
    <3>1. /\ NthPlace(Rank(p) + 1) \in new
          /\ Rank(NthPlace(Rank(p) + 1)) = Rank(p)
      BY <1>4, <2>10
    <3> QED
      BY <1>2, <2>9, <3>1, RanksAreDistinct DEF Rank
  <2>12. refs[Rank(p) + 1] = s
    BY <1>3, <2>10, <2>11
  <2> QED
    BY <1>3, <2>10, <2>12
<1> QED
  BY <1>6, <1>7, <1>8 DEF refs

\* Every number of the reference list stands for one source, no source has two,
\* and the block of a section offers the writer a number for everything found
\* for it.
SourcesNumberedOnce ==
    /\ IsInjective(references)
    /\ \A t \in DOMAIN evidence : \A s \in ToSet(evidence[t].sources) :
           \E n \in DOMAIN references : <<n, s>> \in evidence[t].block

ResearchInv ==
    /\ TypeOK
    /\ \A t \in DOMAIN evidence : evidence[t].sources \in Findings
    /\ SourcesNumberedOnce

LEMMA OutlinesAreSeqs ==
    ASSUME NEW o \in Outlines
    PROVE  o \in Seq(Titles)
<1>1. PICK m \in 0..MaxSections : o \in [1..m -> Titles]
  BY DEF Outlines, SeqOf
<1>2. m \in Nat
  BY <1>1, GraphAssumption
<1> QED
  BY <1>1, <1>2

\* A block holds numbers with sources.
LEMMA BlockType ==
    ASSUME NEW refs \in Seq(Sources), NEW ss \in Seq(Sources)
    PROVE  SourcesBlock(refs, ss) \subseteq Citation
<1>1. DOMAIN refs \subseteq Nat \ {0}
  OBVIOUS
<1>2. ToSet(ss) \subseteq Sources
  BY DEF ToSet
<1> QED
  BY <1>1, <1>2 DEF SourcesBlock, Citation

LEMMA InitResearchInv == Init => ResearchInv
<1> SUFFICES ASSUME Init
             PROVE  ResearchInv
  OBVIOUS
<1>1. outline \in Seq(Titles)
  BY OutlinesAreSeqs DEF Init
<1>2. 0 \in 0..RecursionLimit
  BY GraphAssumption
<1>3. TypeOK
  <2>1. DOMAIN evidence = {} /\ DOMAIN sections = {} /\ references \in Seq(Sources)
    BY DEF Init
  <2> QED
    BY <1>1, <1>2, <2>1 DEF Init, TypeOK, Nodes
<1>4. SourcesNumberedOnce
  BY DEF Init, SourcesNumberedOnce, IsInjective
<1> QED
  BY <1>3, <1>4 DEF Init, ResearchInv

\* One step on, and never past the limit.
LEMMA RunSteps ==
    ASSUME steps \in 0..RecursionLimit, NEW n, Run(n)
    PROVE  steps' \in 0..RecursionLimit
BY GraphAssumption DEF Run

\* The research numbers the sources of all sections anew.
LEMMA ResearchNumbers ==
    ASSUME ResearchInv, CitationInv, Research
    PROVE  ResearchInv'
<1>1. PICK new \in [Targets -> Findings] :
          LET found == [t \in ToSet(outline) |-> IF t \in Targets THEN new[t]
                                                 ELSE evidence[t].sources]
              refs == BuildReferences(found)
          IN  /\ evidence' = [t \in ToSet(outline) |->
                                [sources |-> found[t],
                                 block |-> BlockOf(t, refs, found)]]
              /\ references' = refs
  BY DEF Research
<1> DEFINE found == [t \in ToSet(outline) |-> IF t \in Targets THEN new[t]
                                              ELSE evidence[t].sources]
<1>2. PICK f : f = found
  OBVIOUS
<1>3. /\ evidence' = [t \in ToSet(outline) |->
                        [sources |-> f[t], block |-> SourcesBlock(references', f[t])]]
      /\ references' = BuildReferences(f)
  BY <1>1, <1>2 DEF BlockOf
<1>4. \A t \in ToSet(outline) : f[t] \in Findings
  <2>1. ASSUME NEW t \in ToSet(outline), t \notin Targets
        PROVE  t \in DOMAIN evidence
    BY <2>1 DEF Targets, CitationInv, EvidenceCovers
  <2> QED
    BY <1>1, <1>2, <2>1 DEF ResearchInv
<1>5. outline \in Seq(Titles) /\ steps \in 0..RecursionLimit
  BY DEF ResearchInv, TypeOK
<1> HIDE DEF found
<1>6. /\ references' \in Seq(Sources)
      /\ IsInjective(references')
      /\ \A t \in ToSet(outline) : \A s \in ToSet(f[t]) :
             \E n \in DOMAIN references' : references'[n] = s
  BY <1>3, <1>4, <1>5, ReferencesNumberSources
<1>7. \A t \in DOMAIN evidence' : evidence'[t] \in Evidence
  BY <1>3, <1>4, <1>6, FindingsAreSeqs, BlockType DEF Evidence
<1>8. TypeOK'
  <2>1. DOMAIN evidence' \subseteq Titles
    BY <1>3, <1>5 DEF ToSet
  <2>2. steps' \in 0..RecursionLimit
    BY <1>5, RunSteps DEF Research
  <2>3. /\ node' = "supervisor" /\ gaps' = {} /\ feedback' = feedback
        /\ outdated' = DOMAIN sections
        /\ UNCHANGED <<outline, sections, reviewed, revision, seen, asked, rewrites>>
    BY DEF Research, FeedbackLeft
  <2> QED
    BY <1>6, <1>7, <2>1, <2>2, <2>3 DEF ResearchInv, TypeOK, Nodes
<1>9. SourcesNumberedOnce'
  <2>1. ASSUME NEW t \in DOMAIN evidence', NEW s \in ToSet(evidence'[t].sources)
        PROVE  \E n \in DOMAIN references' : <<n, s>> \in evidence'[t].block
    <3>1. t \in ToSet(outline) /\ s \in ToSet(f[t])
      BY <1>3, <2>1
    <3>2. PICK n \in DOMAIN references' : references'[n] = s
      BY <1>6, <3>1
    <3>3. <<n, s>> \in SourcesBlock(references', f[t])
      BY <3>1, <3>2 DEF SourcesBlock
    <3> QED
      BY <1>3, <3>1, <3>2, <3>3
  <2> QED
    BY <1>6, <2>1 DEF SourcesNumberedOnce
<1> QED
  BY <1>3, <1>4, <1>8, <1>9 DEF ResearchInv

\* A new text cites numbers with sources.
LEMMA WriteTypes ==
    ASSUME ResearchInv, CitationInv, Write
    PROVE  ResearchInv'
<1>1. PICK new \in [ToWrite -> UNION {Texts(i) : i \in ToWrite}] :
          /\ \A i \in ToWrite : new[i] \in Texts(i)
          /\ sections' = [i \in DOMAIN sections \cup ToWrite |->
                              IF i \in ToWrite THEN new[i] ELSE sections[i]]
  BY DEF Write
<1>2. /\ feedback' = {} /\ reviewed' = FALSE /\ seen' = FALSE
      /\ rewrites' = IF Drafted THEN rewrites + 1 ELSE rewrites
      /\ outdated' = outdated \ ToWrite
      /\ node = "writer" /\ node' = "supervisor"
      /\ UNCHANGED <<outline, evidence, references, gaps, revision, asked>>
  BY DEF Write, Run, AwaitsReview, researchVars
<1>3. ToWrite \subseteq DOMAIN outline
  BY DEF ToWrite
<1>4. ASSUME NEW i \in ToWrite
      PROVE  Texts(i) \subseteq Text
  <2>1. outline[i] \in ToSet(outline)
    BY <1>3 DEF ToSet
  <2>2. outline[i] \in DOMAIN evidence
    BY <1>2, <2>1 DEF CitationInv, EvidenceCovers
  <2>3. evidence[outline[i]].block \subseteq Citation
    BY <2>2 DEF ResearchInv, TypeOK, Evidence
  <2> QED
    BY <2>3 DEF Texts, Text
<1>5. \A i \in DOMAIN sections' : sections'[i] \in Text
  BY <1>1, <1>4 DEF ResearchInv, TypeOK
<1>6. DOMAIN sections' \subseteq DOMAIN outline
  BY <1>1, <1>3 DEF ResearchInv, TypeOK
<1>7. steps' \in 0..RecursionLimit
  BY RunSteps DEF Write, ResearchInv, TypeOK
<1>8. rewrites' \in Nat
  BY <1>2 DEF ResearchInv, TypeOK
<1>9. TypeOK'
  BY <1>2, <1>5, <1>6, <1>7, <1>8 DEF ResearchInv, TypeOK, Nodes
<1> QED
  BY <1>2, <1>9 DEF ResearchInv, SourcesNumberedOnce

\* The other steps leave what was found and written alone.
LEMMA ControlTypes ==
    ASSUME ResearchInv, UNCHANGED <<researchVars, sections>>,
           outline' \in Seq(Titles), DOMAIN outline \subseteq DOMAIN outline',
           node' \in Nodes \cup Ends, steps' \in 0..RecursionLimit,
           feedback' \subseteq Titles, gaps' \subseteq Titles, asked' \subseteq Titles,
           reviewed' \in BOOLEAN, seen' \in BOOLEAN, revision' \in Nat,
           UNCHANGED <<rewrites, outdated>>
    PROVE  ResearchInv'
<1>1. TypeOK'
  BY DEF ResearchInv, TypeOK, researchVars
<1> QED
  BY <1>1 DEF ResearchInv, SourcesNumberedOnce, researchVars

LEMMA JudgeTypes ==
    ASSUME ResearchInv, NEW f \in SUBSET Titles, NEW g \in SUBSET Titles,
           NEW r \in Nat, Judge(f, g, r)
    PROVE  ResearchInv'
<1>1. steps' \in 0..RecursionLimit
  BY RunSteps DEF Judge, ResearchInv, TypeOK
<1>2. node' \in Nodes /\ outline' \in Seq(Titles) /\ outline' = outline
  BY DEF Judge, Nodes, ResearchInv, TypeOK
<1> QED
  BY <1>1, <1>2, ControlTypes DEF Judge

LEMMA NextResearchInv == ResearchInv /\ CitationInv /\ [Next]_vars => ResearchInv'
<1> SUFFICES ASSUME ResearchInv, CitationInv, [Next]_vars
             PROVE  ResearchInv'
  OBVIOUS
<1>1. TypeOK
  BY DEF ResearchInv
<1>2. CASE Plan
  <2>1. outline' \in Seq(Titles) /\ DOMAIN outline = {}
    BY <1>2, OutlinesAreSeqs DEF Plan
  <2>2. node' \in Nodes /\ steps' \in 0..RecursionLimit
    BY <1>1, <1>2, RunSteps DEF Plan, Nodes, TypeOK
  <2> QED
    BY <1>1, <1>2, <2>1, <2>2, ControlTypes DEF Plan, TypeOK, reviewVars, historyVars
<1>3. CASE Route
  <2>1. node' \in Nodes /\ steps' \in 0..RecursionLimit
    BY <1>1, <1>3, RunSteps DEF Route, NextNode, Nodes, TypeOK
  <2> QED
    BY <1>1, <1>3, <2>1, ControlTypes DEF Route, TypeOK, reviewVars, historyVars
<1>4. CASE Research
  BY <1>4, ResearchNumbers
<1>5. CASE Write
  BY <1>5, WriteTypes
<1>6. CASE Approve
  BY <1>1, <1>6, JudgeTypes DEF Approve, TypeOK
<1>7. CASE RequestChanges
  <2>1. PICK f \in SUBSET Titles, g \in SUBSET Titles : Judge(f, g, revision + 1)
    BY <1>7 DEF RequestChanges
  <2>2. revision + 1 \in Nat
    BY <1>1 DEF TypeOK
  <2> QED
    BY <2>1, <2>2, JudgeTypes
<1>8. CASE ReviewFails \/ Finalize \/ Abort
  <2>1. node' \in Ends
    BY <1>8 DEF ReviewFails, Finalize, Abort, Ends
  <2>2. steps' \in 0..RecursionLimit
    BY <1>1, <1>8, RunSteps DEF ReviewFails, Finalize, Abort, TypeOK
  <2>3. UNCHANGED <<outline, researchVars, sections, reviewVars, historyVars>>
    BY <1>8 DEF ReviewFails, Finalize, Abort
  <2> QED
    BY <1>1, <2>1, <2>2, <2>3, ControlTypes DEF TypeOK, reviewVars, historyVars
<1>9. CASE UNCHANGED vars
  BY <1>1, <1>9, ControlTypes DEF TypeOK, vars, runVars, reviewVars, historyVars
<1> QED
  BY <1>2, <1>3, <1>4, <1>5, <1>6, <1>7, <1>8, <1>9 DEF Next

THEOREM ResearchInvariant == Spec => [](ResearchInv /\ CitationInv)
BY InitResearchInv, InitCitationInv, NextResearchInv, NextCitationInv, PTL DEF Spec

\* The types hold for every set of titles and sources and all bounds; the
\* reference list is a list because every number up to its length is given out.
THEOREM GraphTypeCorrect == Spec => []TypeOK
<1>1. ResearchInv => TypeOK
  BY DEF ResearchInv
<1> QED
  BY <1>1, ResearchInvariant, PTL

\* At any time, however often only some sections were researched again, no source
\* has two numbers in the reference list, and the sources block of every section
\* has a number for each source found for it (_build_references, _sources_block).
THEOREM EverySourceHasOneNumber == Spec => []SourcesNumberedOnce
<1>1. ResearchInv => SourcesNumberedOnce
  BY DEF ResearchInv
<1> QED
  BY <1>1, ResearchInvariant, PTL

-----------------------------------------------------------------------------
\* The recursion limit

\* What is there when a node runs: a draft to review or finalize, a review behind
\* every gap, evidence behind every draft.
Progress ==
    /\ Drafted => DOMAIN evidence # {}
    /\ ~Drafted => feedback = {} /\ gaps = {} /\ ~reviewed /\ rewrites = 0
    /\ node \in {"reviewer", "finalize", "end"} => Drafted
    /\ node \in {"writer", "reviewer", "finalize"} => gaps = {} /\ DOMAIN evidence # {}
    /\ node = "researcher" /\ DOMAIN evidence # {} => gaps # {}
    /\ gaps # {} => reviewed

\* A round of supervisor, researcher, supervisor, writer, supervisor and reviewer
\* takes six steps; rewrites counts the rounds after the first.
Rounds == 6 * rewrites

\* Steps that may be behind a run when the given node is next.
StepsSpent ==
    /\ node = "supervisor" =>
        \/ DOMAIN evidence = {} /\ steps = 0
        \/ DOMAIN evidence # {} /\ ~Drafted /\ steps <= 2
        \/ Drafted /\ ~reviewed /\ steps <= Rounds + 4
        \/ Drafted /\ reviewed /\ gaps # {} /\ steps <= Rounds + 6
        \/ Drafted /\ reviewed /\ gaps = {} /\ steps <= Rounds + 8
    /\ node = "researcher" =>
        \/ DOMAIN evidence = {} /\ steps <= 1
        \/ Drafted /\ steps <= Rounds + 7
    /\ node = "writer" =>
        \/ ~Drafted /\ steps <= 3
        \/ Drafted /\ steps <= Rounds + 9
    /\ node = "reviewer" => steps <= Rounds + 5
    /\ node = "finalize" => steps <= Rounds + 9
    /\ node \in Ends => steps <= Rounds + 10

PaceInv == steps \in Nat /\ Progress /\ StepsSpent

\* The last round ends with a detour over the researcher.
LongestRun == IF MaxRevisions = 0 THEN 10 ELSE 6 * MaxRevisions + 4

LEMMA InitPace == Init => PaceInv
<1> SUFFICES ASSUME Init
             PROVE  PaceInv
  OBVIOUS
<1>1. /\ node = "supervisor" /\ steps = 0 /\ feedback = {} /\ gaps = {}
      /\ reviewed = FALSE /\ rewrites = 0 /\ DOMAIN evidence = {} /\ ~Drafted
  BY DEF Init, Drafted
<1> QED
  BY <1>1 DEF PaceInv, Progress, StepsSpent, Ends

\* Only the first step plans, when nothing is there yet.
LEMMA PlanPace ==
    ASSUME CitationInv, PaceInv, HasContent, HasContent', Plan
    PROVE  PaceInv'
<1>1. /\ outline = <<>> /\ steps = 0 /\ steps' = 1 /\ node' = "researcher"
      /\ UNCHANGED <<evidence, sections, feedback, gaps, reviewed, rewrites>>
  BY DEF Plan, Run, HasContent, PaceInv, researchVars, reviewVars, historyVars
<1>2. DOMAIN evidence = {}
  <2>1. ToSet(<<>>) = {}
    BY DEF ToSet
  <2> QED
    BY <1>1, <2>1 DEF CitationInv, EvidenceCovers
<1>3. ~Drafted
  BY <1>2 DEF PaceInv, Progress
<1>4. Drafted' = Drafted
  BY <1>1 DEF Drafted
<1> QED
  BY <1>1, <1>2, <1>3, <1>4 DEF PaceInv, Progress, StepsSpent, Ends

LEMMA RoutePace ==
    ASSUME TypeOK, PaceInv, Route
    PROVE  PaceInv'
<1>1. /\ node = "supervisor" /\ steps' = steps + 1 /\ node' = NextNode
      /\ UNCHANGED <<evidence, sections, feedback, gaps, reviewed, rewrites>>
  BY DEF Route, Run, researchVars, reviewVars, historyVars
<1>2. Drafted' = Drafted
  BY <1>1 DEF Drafted
<1>3. rewrites \in Nat /\ steps \in Nat
  BY DEF TypeOK, PaceInv
<1>4. Progress'
  BY <1>1, <1>2 DEF PaceInv, Progress, NextNode, Ends
<1>5. StepsSpent'
  BY <1>1, <1>2, <1>3 DEF PaceInv, Progress, StepsSpent, NextNode, Rounds, Ends
<1> QED
  BY <1>1, <1>3, <1>4, <1>5 DEF PaceInv

LEMMA ResearchPace ==
    ASSUME TypeOK, PaceInv, HasContent, HasContent', Research
    PROVE  PaceInv'
<1>1. /\ node = "researcher" /\ steps' = steps + 1 /\ node' = "supervisor" /\ gaps' = {}
      /\ UNCHANGED <<outline, sections, feedback, reviewed, rewrites>>
  BY DEF Research, Run, FeedbackLeft
<1>2. rewrites \in Nat /\ steps \in Nat /\ outline \in Seq(Titles)
  BY DEF TypeOK, PaceInv
<1>3. DOMAIN evidence' # {}
  <2>1. DOMAIN evidence' = ToSet(outline)
    BY DEF Research
  <2>2. outline # <<>>
    BY <1>1, <1>2 DEF HasContent
  <2>3. 1 \in DOMAIN outline
    BY <1>2, <2>2
  <2> QED
    BY <2>1, <2>3 DEF ToSet
<1>4. Drafted' = Drafted
  BY <1>1 DEF Drafted
<1>5. Progress'
  BY <1>1, <1>3, <1>4 DEF PaceInv, Progress
<1>6. StepsSpent'
  BY <1>1, <1>2, <1>3, <1>4 DEF PaceInv, Progress, StepsSpent, Rounds, Ends
<1> QED
  BY <1>1, <1>2, <1>5, <1>6 DEF PaceInv

\* The first draft is of the whole outline; every later one closes a round.
LEMMA WritePace ==
    ASSUME TypeOK, PaceInv, HasContent, HasContent', Write
    PROVE  PaceInv'
<1>1. /\ node = "writer" /\ steps' = steps + 1 /\ node' = "supervisor"
      /\ feedback' = {} /\ reviewed' = FALSE
      /\ rewrites' = IF Drafted THEN rewrites + 1 ELSE rewrites
      /\ UNCHANGED <<outline, evidence, gaps>>
  BY DEF Write, Run, AwaitsReview, researchVars
<1>2. rewrites \in Nat /\ steps \in Nat /\ outline \in Seq(Titles)
  BY DEF TypeOK, PaceInv
<1>3. gaps = {} /\ DOMAIN evidence # {}
  BY <1>1 DEF PaceInv, Progress
<1>4. DOMAIN sections' = DOMAIN sections \cup ToWrite
  BY DEF Write
<1>5. Drafted'
  <2>1. CASE Drafted
    <3>1. DOMAIN sections' # {}
      BY <1>4, <2>1 DEF Drafted
    <3> QED
      BY <3>1 DEF HasContent
  <2>2. CASE ~Drafted
    <3>1. feedback = {}
      BY <2>2 DEF PaceInv, Progress
    <3>2. outline # <<>>
      BY <1>1, <1>2, <1>3 DEF HasContent
    <3>3. 1 \in ToWrite
      BY <1>2, <3>1, <3>2 DEF ToWrite
    <3> QED
      BY <1>4, <3>3 DEF HasContent
  <2> QED
    BY <2>1, <2>2
<1>6. Progress'
  BY <1>1, <1>3, <1>5 DEF Progress
<1>7. steps' <= 6 * rewrites' + 4
  <2>1. CASE Drafted
    BY <1>1, <1>2, <2>1 DEF PaceInv, StepsSpent, Rounds
  <2>2. CASE ~Drafted
    BY <1>1, <1>2, <2>2 DEF PaceInv, StepsSpent, Progress
  <2> QED
    BY <2>1, <2>2
<1>8. StepsSpent'
  BY <1>1, <1>5, <1>7 DEF StepsSpent, Rounds, Ends
<1> QED
  BY <1>1, <1>2, <1>6, <1>8 DEF PaceInv

LEMMA JudgePace ==
    ASSUME TypeOK, PaceInv, NEW f, NEW g, NEW r, Judge(f, g, r)
    PROVE  PaceInv'
<1>1. /\ node = "reviewer" /\ steps' = steps + 1 /\ node' = "supervisor"
      /\ reviewed' = TRUE /\ feedback' = f /\ gaps' = g
      /\ UNCHANGED <<evidence, sections, rewrites>>
  BY DEF Judge, Run, researchVars
<1>2. rewrites \in Nat /\ steps \in Nat
  BY DEF TypeOK, PaceInv
<1>3. Drafted' = Drafted /\ Drafted /\ DOMAIN evidence # {}
  BY <1>1 DEF PaceInv, Progress, Drafted
<1>4. Progress'
  BY <1>1, <1>3 DEF Progress
<1>5. steps' <= 6 * rewrites' + 6
  BY <1>1, <1>2 DEF PaceInv, StepsSpent, Rounds
<1>6. StepsSpent'
  BY <1>1, <1>2, <1>3, <1>5 DEF StepsSpent, Rounds, Ends
<1> QED
  BY <1>1, <1>2, <1>4, <1>6 DEF PaceInv

\* The steps that end a run.
LEMMA EndPace ==
    ASSUME TypeOK, PaceInv, ReviewFails \/ Finalize \/ Abort
    PROVE  PaceInv'
<1>1. /\ node \in Nodes
      /\ node' \in {"failed", "aborted"} \/ (node = "finalize" /\ node' = "end")
      /\ steps' = steps \/ (node \in {"reviewer", "finalize"} /\ steps' = steps + 1)
  BY DEF ReviewFails, Finalize, Abort, Run, Nodes
<1>2. UNCHANGED <<evidence, sections, feedback, gaps, reviewed, rewrites>>
  BY DEF ReviewFails, Finalize, Abort, researchVars, reviewVars, historyVars
<1>3. rewrites \in Nat /\ steps \in Nat
  BY DEF TypeOK, PaceInv
<1>4. Drafted' = Drafted
  BY <1>2 DEF Drafted
<1>5. Progress'
  BY <1>1, <1>2, <1>4 DEF PaceInv, Progress, Ends
<1>6. steps' <= 6 * rewrites' + 10
  <2>1. steps <= 6 * rewrites + 9
    BY <1>1, <1>3 DEF PaceInv, StepsSpent, Rounds, Progress, Nodes
  <2> QED
    BY <1>1, <1>2, <1>3, <2>1
<1>7. StepsSpent'
  BY <1>1, <1>6 DEF StepsSpent, Rounds, Ends
<1> QED
  BY <1>1, <1>3, <1>5, <1>7 DEF PaceInv

LEMMA NextPace ==
    TypeOK /\ CitationInv /\ PaceInv /\ HasContent /\ HasContent' /\ [Next]_vars => PaceInv'
<1> SUFFICES ASSUME TypeOK, CitationInv, PaceInv, HasContent, HasContent', [Next]_vars
             PROVE  PaceInv'
  OBVIOUS
<1>1. CASE Plan
  BY <1>1, PlanPace
<1>2. CASE Route
  BY <1>2, RoutePace
<1>3. CASE Research
  BY <1>3, ResearchPace
<1>4. CASE Write
  BY <1>4, WritePace
<1>5. CASE Approve \/ RequestChanges
  <2>1. PICK f, g, r : Judge(f, g, r)
    BY <1>5 DEF Approve, RequestChanges
  <2> QED
    BY <2>1, JudgePace
<1>6. CASE ReviewFails \/ Finalize \/ Abort
  BY <1>6, EndPace
<1>7. CASE UNCHANGED vars
  BY <1>7 DEF PaceInv, Progress, StepsSpent, Rounds, Drafted, vars, runVars,
              researchVars, reviewVars, historyVars
<1> QED
  BY <1>1, <1>2, <1>3, <1>4, <1>5, <1>6, <1>7 DEF Next

\* Who still has a node to run has not come to the longest run.
LEMMA PaceIsShort ==
    ASSUME TypeOK, PaceInv, RewritesBelowCap
    PROVE  /\ steps <= LongestRun
           /\ node \in Nodes => steps < LongestRun
<1>1. rewrites \in Nat /\ MaxRevisions \in Nat /\ steps \in Nat
  BY GraphAssumption DEF TypeOK, PaceInv
<1>2. 6 * rewrites + 10 <= LongestRun
  <2>1. CASE rewrites = 0
    BY <1>1, <2>1 DEF LongestRun
  <2>2. CASE rewrites < MaxRevisions
    BY <1>1, <2>2 DEF LongestRun
  <2> QED
    BY <2>1, <2>2 DEF RewritesBelowCap
<1>3. LongestRun \in Nat
  BY <1>1 DEF LongestRun
<1>4. CASE node \in Nodes
  <2>1. steps <= 6 * rewrites + 9
    BY <1>1, <1>4 DEF PaceInv, StepsSpent, Rounds, Progress, Nodes
  <2> QED
    BY <1>1, <1>2, <1>3, <2>1
<1>5. CASE node \in Ends
  <2>1. steps <= 6 * rewrites + 10
    BY <1>5 DEF PaceInv, StepsSpent, Rounds
  <2>2. node \notin Nodes
    BY <1>5 DEF Nodes, Ends
  <2> QED
    BY <1>1, <1>2, <1>3, <2>1, <2>2
<1> QED
  BY <1>4, <1>5 DEF TypeOK

LEMMA PaceInvariant == Spec /\ []HasContent => []PaceInv
BY InitPace, NextPace, GraphTypeCorrect, ResearchInvariant, PTL DEF Spec

\* For every cap, whatever the models and searches answer: a run whose plan has
\* sections and whose drafts are not blank takes at most six steps for each
\* revision the cap allows, and four for the end.
THEOREM RunIsShort == Spec /\ []HasContent => [](steps <= LongestRun)
<1>1. TypeOK /\ PaceInv /\ RewritesBelowCap => steps <= LongestRun
  BY PaceIsShort
<1> QED
  BY <1>1, PaceInvariant, GraphTypeCorrect, RewritesBounded, PTL

NeverAborted == node # "aborted"

\* A recursion limit of that many steps is never met: the safety part of
\* RunIsFinalized, for every cap.
THEOREM LimitLeavesRoom ==
    ASSUME RecursionLimit >= 10, RecursionLimit >= 6 * MaxRevisions + 4
    PROVE  Spec /\ []HasContent => []NeverAborted
<1>1. Init => NeverAborted
  BY DEF Init, NeverAborted
<1>2. TypeOK /\ PaceInv /\ RewritesBelowCap /\ NeverAborted /\ [Next]_vars
          => NeverAborted'
  <2> SUFFICES ASSUME TypeOK, PaceInv, RewritesBelowCap, node # "aborted", [Next]_vars
               PROVE  node' # "aborted"
    BY DEF NeverAborted
  <2>1. ~Abort
    <3>1. /\ LongestRun \in Nat /\ RecursionLimit \in Nat /\ steps \in Nat
          /\ LongestRun <= RecursionLimit
      BY GraphAssumption DEF LongestRun, PaceInv
    <3>2. node \in Nodes => steps < RecursionLimit
      BY <3>1, PaceIsShort
    <3> QED
      BY <3>1, <3>2 DEF Abort
  <2>2. CASE UNCHANGED vars
    BY <2>2 DEF vars, runVars
  <2>3. CASE Route
    BY <2>3 DEF Route, NextNode
  <2>4. CASE Plan \/ Research \/ Write \/ Approve \/ RequestChanges \/ ReviewFails \/ Finalize
    BY <2>4 DEF Plan, Research, Write, Approve, RequestChanges, Judge, ReviewFails, Finalize
  <2> QED
    BY <2>1, <2>2, <2>3, <2>4 DEF Next
<1> QED
  BY <1>1, <1>2, PaceInvariant, GraphTypeCorrect, RewritesBounded, PTL DEF Spec

\* report_jobs.py runs the graph with recursion_limit 50: enough for every
\* REPORT_MAX_REVISIONS up to 7, the default of 2 included.
COROLLARY FiftyStepsAreEnough ==
    ASSUME RecursionLimit = 50, MaxRevisions <= 7
    PROVE  Spec /\ []HasContent => []NeverAborted
<1>1. RecursionLimit >= 10 /\ RecursionLimit >= 6 * MaxRevisions + 4
  BY GraphAssumption
<1> QED
  BY <1>1, LimitLeavesRoom
=============================================================================
