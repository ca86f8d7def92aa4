---------------------------- MODULE ReportGraph ----------------------------
(***************************************************************************)
(* One run of the report graph (RAG/agents/report_graph.py): a supervisor  *)
(* routes between researcher, writer and reviewer until it finalizes, and  *)
(* LangGraph ends the run after RecursionLimit steps (report_jobs.py).     *)
(*                                                                         *)
(* What the language model, the retriever and the web answer is chosen     *)
(* freely: the outline, the sources found for a section, a section's text, *)
(* the review.  Titles also holds titles that no section has, since the    *)
(* reviewer names sections in its own words.                               *)
(***************************************************************************)
EXTENDS Integers, Sequences, FiniteSets, SequencesExt

CONSTANTS
    Titles,          \* section titles a plan or a review may name
    Sources,         \* web pages and documents that may be found
    MaxSections,     \* the plan's cap on sections
    MaxSources,      \* bound: sources found for one section
    MaxRevisions,    \* MAX_REVISIONS
    RecursionLimit   \* recursion_limit of the run

ASSUME GraphAssumption ==
    /\ MaxSections \in Nat /\ MaxSources \in Nat
    /\ MaxRevisions \in Nat /\ RecursionLimit \in Nat

VARIABLES
    node,       \* the node that runs next, or how the run ended
    outline,    \* the planned section titles; <<>> is no outline
    evidence,   \* evidence[t]: what was found for title t, and its sources block
    references, \* the numbered reference list: entry n is cited as [n]
    sections,   \* sections[i]: the text of section i, once written
    feedback,   \* titles the writer has to revise
    gaps,       \* titles the researcher has to look into again
    reviewed,   \* the reviewer has judged the current draft
    revision,   \* revision_count
    steps,      \* nodes run so far
    seen,       \* history: the reviewer has seen the sections as they stand
    asked,      \* history: titles the last review wanted rewritten
    rewrites,   \* history: passes of the writer over an existing draft
    outdated    \* history: sections not rewritten since the last research

runVars     == <<node, steps>>
researchVars == <<evidence, references>>
reviewVars  == <<feedback, gaps, reviewed, revision>>
historyVars == <<seen, asked, rewrites, outdated>>
vars == <<runVars, outline, researchVars, sections, reviewVars, historyVars>>

Nodes == {"supervisor", "researcher", "writer", "reviewer", "finalize"}
Ends == {"end", "failed", "aborted"}

Citation == (Nat \ {0}) \X Sources
Evidence == [sources : Seq(Sources), block : SUBSET Citation]
Text == [blank : BOOLEAN, cites : SUBSET Citation]

TypeOK ==
    /\ node \in Nodes \cup Ends
    /\ outline \in Seq(Titles)
    /\ DOMAIN evidence \subseteq Titles
    /\ \A t \in DOMAIN evidence : evidence[t] \in Evidence
    /\ references \in Seq(Sources)
    /\ DOMAIN sections \subseteq DOMAIN outline
    /\ \A i \in DOMAIN sections : sections[i] \in Text
    /\ feedback \subseteq Titles
    /\ gaps \subseteq Titles
    /\ reviewed \in BOOLEAN
    /\ revision \in Nat
    /\ steps \in 0..RecursionLimit
    /\ seen \in BOOLEAN
    /\ asked \subseteq Titles
    /\ rewrites \in Nat
    /\ outdated \subseteq DOMAIN outline

\* The caller may bring an outline of its own.
Outlines == SeqOf(Titles, MaxSections)

Init ==
    /\ node = "supervisor"
    /\ outline \in Outlines
    /\ evidence = <<>>
    /\ references = <<>>
    /\ sections = <<>>
    /\ feedback = {}
    /\ gaps = {}
    /\ reviewed = FALSE
    /\ revision = 0
    /\ steps = 0
    /\ seen = FALSE
    /\ asked = {}
    /\ rewrites = 0
    /\ outdated = {}

-----------------------------------------------------------------------------

\* LangGraph runs the node n.
Run(n) ==
    /\ node = n
    /\ steps < RecursionLimit
    /\ steps' = steps + 1

\* The assembled draft is not empty.
Drafted == \E i \in DOMAIN sections : ~sections[i].blank

\* The supervisor plans.  A plan may still be empty after the template fallback:
\* a JSON list of something else than objects passes the check and is then
\* filtered away.
Plan ==
    /\ Run("supervisor")
    /\ outline = <<>>
    /\ outline' \in Outlines
    /\ node' = "researcher"
    /\ UNCHANGED <<researchVars, sections, reviewVars, historyVars>>

\* Faulty variant of the cap, one revision too late.
MayReviseOnceMore == revision <= MaxRevisions

MayRevise == revision < MaxRevisions

\* route_report_supervisor.
NextNode ==
    IF gaps # {} \/ DOMAIN evidence = {} THEN "researcher"
    ELSE IF ~Drafted THEN "writer"
    ELSE IF ~reviewed THEN "reviewer"
    ELSE IF feedback # {} /\ MayRevise THEN "writer"
    ELSE "finalize"

Route ==
    /\ Run("supervisor")
    /\ outline # <<>>
    /\ node' = NextNode
    /\ UNCHANGED <<outline, researchVars, sections, reviewVars, historyVars>>

-----------------------------------------------------------------------------

\* Where the sources stand: place <<i, k>> is the k-th one found for section i.
Places(found) ==
    {p \in (DOMAIN outline) \X (1..MaxSources) : p[2] \in DOMAIN found[outline[p[1]]]}

SourceAt(found, p) == found[outline[p[1]]][p[2]]

Before(p, q) ==
    \/ p[1] < q[1]
    \/ p[1] = q[1] /\ p[2] < q[2]

\* _add: a source is new where no earlier place has it.
NewPlaces(found) ==
    {p \in Places(found) :
        \A q \in Places(found) : Before(q, p) => SourceAt(found, q) # SourceAt(found, p)}

\* _build_references: entry n is the source that is new after n-1 others.
BuildReferences(found) ==
    LET new == NewPlaces(found)
        NthPlace(n) == CHOOSE p \in new : Cardinality({q \in new : Before(q, p)}) = n - 1
    IN  [n \in 1..Cardinality(new) |-> SourceAt(found, NthPlace(n))]

\* Faulty variant: numbers from 0.
SourcesBlockFromZero(refs, ss) ==
    {<<c[1] - 1, c[2]>> : c \in {c \in (DOMAIN refs) \X ToSet(ss) : refs[c[1]] = c[2]}}

\* The lines "[n] label" of the sources ss in the reference list refs.
SourcesBlock(refs, ss) ==
    {c \in (DOMAIN refs) \X ToSet(ss) : refs[c[1]] = c[2]}

\* The sections to look into: those with a gap or, at first, all.
Targets == IF gaps # {} THEN ToSet(outline) \cap gaps ELSE ToSet(outline)

\* Faulty variant: only the sections of this batch get a new block.
BlockOfBatch(t, refs, found) ==
    IF t \in Targets THEN SourcesBlock(refs, found[t]) ELSE evidence[t].block

BlockOf(t, refs, found) == SourcesBlock(refs, found[t])

\* Distinct sources, in the order found.
Findings == {ss \in SeqOf(Sources, MaxSources) : IsInjective(ss)}

\* Faulty variant: the researcher takes the feedback for addressed as well.
NoFeedback == {}

FeedbackLeft == feedback

\* report_researcher_node: new evidence for the targets over the old of the
\* others, then numbers and blocks for all; retrieval that fails finds nothing.
Research ==
    /\ Run("researcher")
    /\ \E new \in [Targets -> Findings] :
        LET found == [t \in ToSet(outline) |-> IF t \in Targets THEN new[t]
                                               ELSE evidence[t].sources]
            refs == BuildReferences(found)
        IN  /\ evidence' = [t \in ToSet(outline) |->
                              [sources |-> found[t], block |-> BlockOf(t, refs, found)]]
            /\ references' = refs
    /\ gaps' = {}
    /\ feedback' = FeedbackLeft
    /\ outdated' = DOMAIN sections
    /\ node' = "supervisor"
    /\ UNCHANGED <<outline, sections, reviewed, revision,
                   seen, asked, rewrites>>

-----------------------------------------------------------------------------

\* The sections to write: the flagged ones or, without feedback, all.
ToWrite == {i \in DOMAIN outline : feedback = {} \/ outline[i] \in feedback}

\* What the model may return for section i: nothing, a text without citations
\* (also the placeholder for a failed call), or one that cites its whole block.
Texts(i) ==
    {[blank |-> TRUE, cites |-> {}], [blank |-> FALSE, cites |-> {}],
     [blank |-> FALSE, cites |-> evidence[outline[i]].block]}

\* Faulty variant: the flag of the last review survives the rewriting.
StillReviewed == reviewed

AwaitsReview == FALSE

\* report_writer_node.
Write ==
    /\ Run("writer")
    /\ \E new \in [ToWrite -> UNION {Texts(i) : i \in ToWrite}] :
        /\ \A i \in ToWrite : new[i] \in Texts(i)
        /\ sections' = [i \in DOMAIN sections \cup ToWrite |->
                          IF i \in ToWrite THEN new[i] ELSE sections[i]]
    /\ feedback' = {}
    /\ reviewed' = AwaitsReview
    /\ seen' = FALSE
    /\ rewrites' = IF Drafted THEN rewrites + 1 ELSE rewrites
    /\ outdated' = outdated \ ToWrite
    /\ node' = "supervisor"
    /\ UNCHANGED <<outline, researchVars, gaps, revision, asked>>

-----------------------------------------------------------------------------

\* The reviewer judges the draft.
Judge(f, g, r) ==
    /\ Run("reviewer")
    /\ reviewed' = TRUE
    /\ feedback' = f
    /\ gaps' = g
    /\ revision' = r
    /\ seen' = TRUE
    /\ asked' = f
    /\ node' = "supervisor"
    /\ UNCHANGED <<outline, researchVars, sections, rewrites, outdated>>

\* It approves, or lists nothing to act on; an unreadable review lists nothing.
Approve == Judge({}, {}, revision)

\* Faulty variant: the round is not counted.
RequestUncounted ==
    \E f, g \in SUBSET Titles : f \cup g # {} /\ Judge(f, g, revision)

RequestChanges ==
    \E f, g \in SUBSET Titles : f \cup g # {} /\ Judge(f, g, revision + 1)

\* The call of the model raises; nothing catches it inside the graph.
ReviewFails ==
    /\ Run("reviewer")
    /\ node' = "failed"
    /\ UNCHANGED <<outline, researchVars, sections, reviewVars, historyVars>>

Finalize ==
    /\ Run("finalize")
    /\ node' = "end"
    /\ UNCHANGED <<outline, researchVars, sections, reviewVars, historyVars>>

\* GraphRecursionError.
Abort ==
    /\ node \in Nodes
    /\ steps = RecursionLimit
    /\ node' = "aborted"
    /\ UNCHANGED <<steps, outline, researchVars, sections, reviewVars, historyVars>>

Next ==
    \/ Plan \/ Route
    \/ Research
    \/ Write
    \/ Approve \/ RequestChanges \/ ReviewFails
    \/ Finalize
    \/ Abort

Spec == Init /\ [][Next]_vars

\* Every call of a node returns or raises.
FairSpec == Spec /\ WF_vars(Next)

-----------------------------------------------------------------------------
\* Properties that hold

\* What is finalized has been reviewed in its final form: no path round the
\* supervisor skips the review of a rewritten draft (the writer's reviewed=False).
FinalDraftWasSeen == node \in {"finalize", "end"} => seen

\* A rewriting the last review asked for is left undone only at the cap; in
\* particular a gap of the same review does not swallow it.
UnansweredOnlyAtCap ==
    node \in {"finalize", "end"} /\ asked # {} => revision >= MaxRevisions

\* A draft is rewritten fewer times than REPORT_MAX_REVISIONS: the count is taken
\* at the review, and the review of the last draft is counted too.
RewritesBelowCap == rewrites = 0 \/ rewrites < MaxRevisions

\* Sections written since the last research cite the reference list as it is now,
\* also after a re-research of other sections only (the numbers are rebuilt over
\* the whole outline, and so are all sources blocks).
FreshCitationsResolve ==
    \A i \in DOMAIN sections \ outdated : \A c \in sections[i].cites :
        c[1] \in DOMAIN references /\ references[c[1]] = c[2]

\* The plan has sections, and what is written is not all blank.
HasContent ==
    /\ steps > 0 => outline # <<>>
    /\ DOMAIN sections # {} => Drafted

\* A run whose plan has sections and whose drafts are not blank is finalized, or
\* ends with the reviewer's exception; the recursion limit leaves room for every
\* round the cap allows.
RunIsFinalized == []HasContent => <>(node \in {"end", "failed"})
=============================================================================
