------------------------------ MODULE AskGraph ------------------------------
(***************************************************************************)
(* One run of the question-answering graph (RAG/agents/graph.py) as POST   *)
(* /ask drives it (handle_query in RAG/app.py): the supervisor routes      *)
(* between researcher, code interpreter, editor, writer and reviewer until *)
(* there is an answer or a question back to the user; the endpoint relays  *)
(* the first answer and saves the turn.                                    *)
(*                                                                         *)
(* Texts are numbered in the order they are written; 0 is the empty text.  *)
(* What the models, the index and the web answer is chosen freely.         *)
(***************************************************************************)
EXTENDS Integers, FiniteSets

CONSTANTS
    MaxRevisions,    \* the reviewer's cap, 2 in the code
    RecursionLimit   \* LangGraph's default, 25

ASSUME AskAssumption == MaxRevisions \in Nat /\ RecursionLimit \in Nat

VARIABLES
    ask,        \* the request and the deployment it meets, fixed for the run
    node,       \* the node that runs next, or how the run ended
    steps,      \* nodes run so far
    research,   \* research_results, by kind
    rewritten,  \* rewritten_query is set
    draft,      \* draft_response
    final,      \* final_response
    feedback,   \* review_feedback is not empty
    revision,   \* revision_count
    fastTrack,  \* fast_track
    needsWeb,   \* needs_web_approval
    needsEdit,  \* needs_edit_approval
    answer,     \* the message event sent to the client
    texts,      \* history: texts written so far
    judged,     \* history: the text the reviewer let pass
    reviews,    \* history: times the reviewer ran
    blank       \* history: a writer's text came out empty

runVars    == <<ask, node, steps>>
findVars   == <<research, rewritten>>
textVars   == <<draft, final, answer, texts>>
reviewVars == <<feedback, revision, judged, reviews>>
flagVars   == <<fastTrack, needsWeb, needsEdit>>
vars == <<runVars, findVars, textVars, reviewVars, flagVars, blank>>

\* What decides the first routing: the @update tag; a short social phrase; one
\* word, or no classifier (plain); a calculation by the look of it; anything else.
Kinds == {"update", "social", "plain", "calculation", "open"}

Asks == [kind : Kinds,
         images : BOOLEAN,      \* the user attached images
         allowWeb : BOOLEAN,    \* the user has approved a web search
         reviewer : BOOLEAN,    \* RAG_ENABLE_REVIEWER
         tables : BOOLEAN,      \* RAG_CODE_INTERPRETER, and there are tables
         multihop : BOOLEAN,    \* RAG_ENABLE_MULTIHOP
         web : BOOLEAN]         \* web_search_available()

Workers == {"researcher", "code_interpreter", "editor", "writer", "reviewer"}
Nodes == Workers \cup {"supervisor"}
Ends == {"end", "failed", "aborted"}
Results == {"empty", "noDocs", "docs", "web", "table"}

TypeOK ==
    /\ ask \in Asks
    /\ node \in Nodes \cup Ends
    /\ steps \in 0..RecursionLimit
    /\ research \in Results
    /\ rewritten \in BOOLEAN
    /\ {draft, final, answer, judged} \subseteq 0..texts
    /\ feedback \in BOOLEAN
    /\ revision \in 0..MaxRevisions
    /\ fastTrack \in BOOLEAN
    /\ needsWeb \in BOOLEAN
    /\ needsEdit \in BOOLEAN
    /\ texts \in Nat
    /\ reviews \in Nat
    /\ blank \in BOOLEAN

\* handle_query resets every key of the state, so that nothing of the session's
\* last checkpoint shows through.
Init ==
    /\ ask \in Asks
    /\ node = "supervisor"
    /\ steps = 0
    /\ research = "empty" /\ rewritten = FALSE
    /\ draft = 0 /\ final = 0 /\ answer = 0 /\ texts = 0
    /\ feedback = FALSE /\ revision = 0 /\ judged = 0 /\ reviews = 0
    /\ fastTrack = FALSE /\ needsWeb = FALSE /\ needsEdit = FALSE
    /\ blank = FALSE

-----------------------------------------------------------------------------

Run(n) ==
    /\ node = n
    /\ steps < RecursionLimit
    /\ steps' = steps + 1
    /\ UNCHANGED ask

\* Faulty variant: nobody looks at needs_web_approval.
FinishedUnlessWeb == final # 0 \/ needsEdit

Finished == final # 0 \/ needsWeb \/ needsEdit

\* Nothing is there yet for the supervisor to decide by.
Undecided == ~Finished /\ draft = 0 /\ ~feedback /\ research = "empty"

\* supervisor_node: where a run goes that has something to go by.
NextAgent ==
    IF Finished THEN "end"
    ELSE IF draft # 0 THEN "reviewer"
    ELSE "writer"

Route ==
    /\ Run("supervisor")
    /\ ~Undecided
    /\ node' = NextAgent
    /\ UNCHANGED <<findVars, textVars, reviewVars, flagVars, blank>>

\* _classify_intent and the tests before it; the classifier may say otherwise
\* when it is asked again.
Verdicts ==
    [update |-> {"editor"}, social |-> {"writer"}, plain |-> {"researcher"},
     calculation |-> {"code_interpreter"},
     open |-> {"writer", "code_interpreter", "researcher"}][ask.kind]

Classify ==
    /\ Run("supervisor")
    /\ Undecided
    /\ node' \in Verdicts
    /\ fastTrack' = (fastTrack \/ node' = "writer")
    /\ UNCHANGED <<findVars, textVars, reviewVars, needsWeb, needsEdit, blank>>

-----------------------------------------------------------------------------

Found(r) ==
    /\ research' = r
    /\ rewritten' = TRUE
    /\ node' = "supervisor"
    /\ UNCHANGED <<textVars, reviewVars, fastTrack, needsEdit, blank>>

\* The corpus has no confident match: ask before going to the web.
RequestWeb ==
    /\ Run("researcher")
    /\ ask.web /\ ~ask.allowWeb
    /\ needsWeb' = TRUE
    /\ Found("empty")

\* The user has approved, and the web has something.
SearchWeb ==
    /\ Run("researcher")
    /\ ask.web /\ ask.allowWeb
    /\ Found("web")
    /\ UNCHANGED needsWeb

\* The corpus' own context; without any match the search is not confident, and
\* the fixed text "No relevant documents found." comes out only when the web is
\* no way out either.
Retrieve ==
    /\ Run("researcher")
    /\ \/ Found("docs")
       \/ (~ask.web \/ ask.allowWeb) /\ Found("noDocs")
    /\ UNCHANGED needsWeb

\* _multi_hop_retrieve: one block for each step of the decomposition, which may
\* have no steps.
RetrieveHops ==
    /\ Run("researcher")
    /\ ask.multihop
    /\ \E r \in {"empty", "docs"} : Found(r)
    /\ UNCHANGED needsWeb

\* code_interpreter_node with tables to compute on.
Compute ==
    /\ Run("code_interpreter")
    /\ ask.tables
    /\ Found("table")
    /\ UNCHANGED needsWeb

\* Disabled, or no tables: only calc_result is set, and nobody reads it.
ComputeNothing ==
    /\ Run("code_interpreter")
    /\ ~ask.tables
    /\ node' = "supervisor"
    /\ UNCHANGED <<findVars, textVars, reviewVars, flagVars, blank>>

-----------------------------------------------------------------------------

\* The endpoint sends the first final response to the client and saves the turn;
\* when the session store raises, the request ends with an error event.
Deliver(t) ==
    /\ answer' = IF answer = 0 THEN t ELSE answer
    /\ node' \in {"supervisor"} \cup (IF t # 0 THEN {"failed"} ELSE {})

\* editor_node has nothing to propose and says so.
EditorDeclines ==
    /\ Run("editor")
    /\ texts' = texts + 1
    /\ final' = texts'
    /\ Deliver(final')
    /\ UNCHANGED <<findVars, draft, reviewVars, flagVars, blank>>

\* editor_node stashes an edit and asks for approval.
EditorProposes ==
    /\ Run("editor")
    /\ needsEdit' = TRUE
    /\ node' = "supervisor"
    /\ UNCHANGED <<findVars, textVars, reviewVars, fastTrack, needsWeb, blank>>

\* The researcher has run and there is nothing to write from.
NothingFound ==
    /\ rewritten \/ research # "empty"
    /\ research \in {"empty", "noDocs"}
    /\ ~feedback
    /\ ~ask.images
    /\ ~fastTrack

\* writer_node: _NO_DOCS_REPLY.
WriteNoDocs ==
    /\ Run("writer")
    /\ NothingFound
    /\ texts' = texts + 1
    /\ draft' = texts' /\ final' = texts'
    /\ Deliver(final')
    /\ UNCHANGED <<findVars, reviewVars, flagVars, blank>>

\* Faulty variant: a revised draft is taken for reviewed.
ToFirstReview == ask.reviewer /\ ~fastTrack /\ ~feedback

\* The draft goes to the reviewer.
ToReview == ask.reviewer /\ ~fastTrack

\* writer_node: the model's text, which may be empty.
WriteDraft ==
    /\ Run("writer")
    /\ ~NothingFound
    /\ \E t \in {0, texts + 1} :
        /\ draft' = t
        /\ blank' = (blank \/ t = 0)
        /\ texts' = IF t = 0 THEN texts ELSE t
        /\ final' = IF ToReview THEN final ELSE t
        /\ Deliver(IF ToReview THEN 0 ELSE t)
    /\ UNCHANGED <<findVars, reviewVars, flagVars>>

-----------------------------------------------------------------------------

\* Faulty variant: the cap is one revision late.
OverCap == revision > MaxRevisions

AtCap == revision >= MaxRevisions

\* reviewer_node: approved, or at the cap.
Approve ==
    /\ Run("reviewer")
    /\ final' = draft
    /\ feedback' = FALSE
    /\ judged' = draft
    /\ reviews' = reviews + 1
    /\ Deliver(draft)
    /\ UNCHANGED <<findVars, draft, texts, revision, flagVars, blank>>

\* Faulty variant: the round is not counted.
RejectUncounted ==
    /\ Run("reviewer")
    /\ ~AtCap
    /\ feedback' \in BOOLEAN
    /\ draft' = 0
    /\ reviews' = reviews + 1
    /\ node' = "supervisor"
    /\ UNCHANGED <<findVars, final, answer, texts, revision, judged, flagVars, blank>>

\* Not approved; the feedback may be empty all the same.
Reject ==
    /\ Run("reviewer")
    /\ ~AtCap
    /\ feedback' \in BOOLEAN
    /\ revision' = revision + 1
    /\ draft' = 0
    /\ reviews' = reviews + 1
    /\ node' = "supervisor"
    /\ UNCHANGED <<findVars, final, answer, texts, judged, flagVars, blank>>

\* A node raises (a model, the index, the web or the trace file): the endpoint
\* sends an error event.
Fail ==
    /\ node \in Nodes
    /\ Run(node)
    /\ node' = "failed"
    /\ UNCHANGED <<findVars, textVars, reviewVars, flagVars, blank>>

\* GraphRecursionError.
Abort ==
    /\ node \in Nodes
    /\ steps = RecursionLimit
    /\ node' = "aborted"
    /\ UNCHANGED <<ask, steps, findVars, textVars, reviewVars, flagVars, blank>>

Next ==
    \/ Route \/ Classify
    \/ RequestWeb \/ SearchWeb \/ Retrieve \/ RetrieveHops
    \/ Compute \/ ComputeNothing
    \/ EditorDeclines \/ EditorProposes
    \/ WriteNoDocs \/ WriteDraft
    \/ Approve \/ Reject
    \/ Fail \/ Abort

Spec == Init /\ [][Next]_vars

\* Every call of a node returns or raises.
FairSpec == Spec /\ WF_vars(Next)

-----------------------------------------------------------------------------
\* Properties that hold

\* A stream that ends with done has told the client exactly one thing: an answer,
\* the question whether to search the web, or an edit to approve.
DoneMeansOneOutcome ==
    node = "end" =>
        \/ answer # 0 /\ ~needsWeb /\ ~needsEdit
        \/ answer = 0 /\ (needsWeb <=> ~needsEdit)

\* With the reviewer on, an answer written from documents, the web or a
\* calculation is a text the reviewer let pass, whatever detours the run took.
\* (The exception: after an empty fast-track text the question may be researched
\* while fast_track still tells the writer to skip the reviewer.)
GroundedAnswerWasJudged ==
    answer # 0 /\ ask.reviewer /\ research \in {"docs", "web", "table"} /\ ~blank
        => judged = answer

\* The reviewer looks at a question at most once more than the cap says, empty
\* feedback and blank drafts included.
ReviewsBounded == reviews <= MaxRevisions + 1

\* Drafts are not blank, decompositions have steps, and a calculation finds
\* tables.
HasMaterial ==
    /\ ~blank
    /\ node = "code_interpreter" => ask.tables
    /\ rewritten /\ research = "empty" => needsWeb

\* A run that always has something to go on ends by itself within the recursion
\* limit: the longest way, MaxRevisions + 1 rounds of writer and reviewer, fits.
RunEnds == []HasMaterial => <>(node \in {"end", "failed"})
=============================================================================
