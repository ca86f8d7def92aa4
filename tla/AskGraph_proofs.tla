-------------------------- MODULE AskGraph_proofs --------------------------
(***************************************************************************)
(* Proofs about AskGraph for every request, every deployment, every cap on *)
(* revisions and every recursion limit: one outcome per finished run, no   *)
(* grounded answer past the reviewer, the bound on reviews, types, and the *)
(* room LangGraph's recursion limit leaves.                                *)
(***************************************************************************)
EXTENDS AskGraph, TLAPS

-----------------------------------------------------------------------------
\* The inductive invariant

ControlTypeOK ==
    /\ ask \in Asks
    /\ node \in Nodes \cup Ends
    /\ draft \in Nat /\ final \in Nat /\ answer \in Nat /\ texts \in Nat
    /\ judged \in Nat /\ revision \in Nat /\ reviews \in Nat
    /\ feedback \in BOOLEAN /\ fastTrack \in BOOLEAN /\ blank \in BOOLEAN
    /\ needsWeb \in BOOLEAN /\ needsEdit \in BOOLEAN

\* What the client was sent is the final response.
SentIsFinal == answer = final

\* A run that has its outcome goes nowhere but to its end, and has only one.
OutcomeEndsRun ==
    /\ Finished => node \in {"supervisor"} \cup Ends
    /\ node = "end" => Finished
    /\ needsWeb => final = 0 /\ ~needsEdit
    /\ needsEdit => final = 0

\* Where the supervisor sends a run that has nothing yet, nothing is there yet;
\* what the reviewer is sent is a text.
SentForAReason ==
    /\ node = "editor" => research = "empty"
    /\ node = "reviewer" => draft # 0

\* A fast track leads from the classifier straight to the final text.
FastTrackIsShort ==
    fastTrack /\ ~blank =>
        /\ research = "empty"
        /\ final = 0 => node \in {"writer", "failed", "aborted"}

\* Every review but the last one is counted.
ReviewsCounted ==
    /\ revision <= MaxRevisions
    /\ reviews <= revision + 1
    /\ final = 0 => reviews = revision

AInv ==
    /\ ControlTypeOK
    /\ SentIsFinal
    /\ OutcomeEndsRun
    /\ SentForAReason
    /\ FastTrackIsShort
    /\ ReviewsCounted
    /\ GroundedAnswerWasJudged

-----------------------------------------------------------------------------
LEMMA InitAInv == Init => AInv
<1> SUFFICES ASSUME Init
             PROVE  AInv
  OBVIOUS
<1>1. ControlTypeOK
  BY DEF Init, ControlTypeOK, Nodes
<1>2. OutcomeEndsRun /\ SentForAReason /\ FastTrackIsShort
  BY DEF Init, OutcomeEndsRun, Finished, SentForAReason, FastTrackIsShort
<1>3. SentIsFinal /\ ReviewsCounted /\ GroundedAnswerWasJudged
  <2>1. revision = 0 /\ reviews = 0 /\ answer = 0 /\ final = 0
    BY DEF Init
  <2>2. QED
    BY <2>1, AskAssumption DEF SentIsFinal, ReviewsCounted, GroundedAnswerWasJudged
<1>4. QED
  BY <1>1, <1>2, <1>3 DEF AInv

\* The supervisor.
LEMMA RouteAInv == AInv /\ (Route \/ Classify) => AInv'
<1> SUFFICES ASSUME AInv, Route \/ Classify
             PROVE  AInv'
  OBVIOUS
<1> USE DEF AInv, ControlTypeOK, SentIsFinal, OutcomeEndsRun, Finished,
            SentForAReason, FastTrackIsShort, ReviewsCounted,
            GroundedAnswerWasJudged, Nodes, Workers, Ends, Run,
            findVars, textVars, reviewVars, flagVars
<1>1. CASE Route
  <2>1. node' = NextAgent /\ node = "supervisor"
    BY <1>1 DEF Route
  <2>2. UNCHANGED <<ask, findVars, textVars, reviewVars, flagVars, blank>>
    BY <1>1 DEF Route
  <2>3. CASE Finished
    <3>1. node' = "end" /\ node = "supervisor"
      BY <2>1, <2>3 DEF NextAgent
    <3>2. ControlTypeOK' /\ SentIsFinal'
      BY <2>2, <3>1
    <3>3. OutcomeEndsRun' /\ SentForAReason'
      BY <2>2, <2>3, <3>1
    <3>4. FastTrackIsShort'
      BY <2>2, <2>3, <3>1
    <3>5. ReviewsCounted' /\ GroundedAnswerWasJudged'
      BY <2>2
    <3>6. QED
      BY <3>2, <3>3, <3>4, <3>5
  <2>4. CASE ~Finished
    <3>1. node' \in {"reviewer", "writer"} /\ (node' = "reviewer" => draft # 0)
      BY <2>1, <2>4 DEF NextAgent
    <3>2. QED
      BY <2>1, <2>2, <2>4, <3>1
  <2>5. QED
    BY <2>3, <2>4
<1>2. CASE Classify
  <2>1. /\ node' \in {"editor", "writer", "researcher", "code_interpreter"}
        /\ node = "supervisor" /\ ~Finished /\ research = "empty"
        /\ fastTrack' = (fastTrack \/ node' = "writer")
    BY <1>2 DEF Classify, Undecided, Verdicts, Asks, Kinds
  <2>2. UNCHANGED <<ask, findVars, textVars, reviewVars, needsWeb, needsEdit, blank>>
    BY <1>2 DEF Classify
  <2>3. fastTrack /\ ~blank => FALSE
    BY <2>1
  <2>4. QED
    BY <2>1, <2>2, <2>3
<1>3. QED
  BY <1>1, <1>2

\* Researcher, code interpreter, editor.
LEMMA WorkAInv ==
    AInv /\ (\/ RequestWeb \/ SearchWeb \/ Retrieve \/ RetrieveHops
             \/ Compute \/ ComputeNothing \/ EditorDeclines \/ EditorProposes) => AInv'
<1> SUFFICES ASSUME AInv,
                    \/ RequestWeb \/ SearchWeb \/ Retrieve \/ RetrieveHops
                    \/ Compute \/ ComputeNothing \/ EditorDeclines \/ EditorProposes
             PROVE  AInv'
  OBVIOUS
<1> USE DEF AInv, ControlTypeOK, SentIsFinal, OutcomeEndsRun, Finished,
            SentForAReason, FastTrackIsShort, ReviewsCounted,
            GroundedAnswerWasJudged, Nodes, Workers, Ends, Run,
            findVars, textVars, reviewVars, flagVars
<1>1. CASE RequestWeb
  BY <1>1 DEF RequestWeb, Found
<1>2. CASE SearchWeb \/ Retrieve \/ RetrieveHops \/ Compute
  <2>1. /\ node \in {"researcher", "code_interpreter"} /\ node' = "supervisor"
        /\ UNCHANGED <<ask, textVars, reviewVars, flagVars, blank>>
    BY <1>2 DEF SearchWeb, Retrieve, RetrieveHops, Compute, Found
  <2>2. QED
    BY <2>1
<1>3. CASE ComputeNothing
  BY <1>3 DEF ComputeNothing
<1>4. CASE EditorDeclines
  <2>1. /\ node = "editor" /\ node' \in {"supervisor", "failed"}
        /\ final' = texts + 1
        /\ answer' = IF answer = 0 THEN texts + 1 ELSE answer
        /\ texts' = texts + 1
        /\ UNCHANGED <<ask, findVars, draft, reviewVars, flagVars, blank>>
    BY <1>4 DEF EditorDeclines, Deliver
  <2>2. QED
    BY <2>1
<1>5. CASE EditorProposes
  BY <1>5 DEF EditorProposes
<1>6. QED
  BY <1>1, <1>2, <1>3, <1>4, <1>5

\* Writer and reviewer.
LEMMA WriteAInv == AInv /\ (WriteNoDocs \/ WriteDraft \/ Approve \/ Reject) => AInv'
<1> SUFFICES ASSUME AInv, WriteNoDocs \/ WriteDraft \/ Approve \/ Reject
             PROVE  AInv'
  OBVIOUS
<1> USE DEF AInv, ControlTypeOK, SentIsFinal, OutcomeEndsRun, Finished,
            SentForAReason, FastTrackIsShort, ReviewsCounted,
            GroundedAnswerWasJudged, Nodes, Workers, Ends, Run,
            findVars, textVars, reviewVars, flagVars
<1>1. CASE WriteNoDocs
  <2>1. /\ node = "writer" /\ node' \in {"supervisor", "failed"}
        /\ research \in {"empty", "noDocs"} /\ ~fastTrack
        /\ final' = texts + 1 /\ draft' = texts + 1 /\ texts' = texts + 1
        /\ answer' = IF answer = 0 THEN texts + 1 ELSE answer
        /\ UNCHANGED <<ask, findVars, reviewVars, flagVars, blank>>
    BY <1>1 DEF WriteNoDocs, NothingFound, Deliver
  <2>2. QED
    BY <2>1
<1>2. CASE WriteDraft
  <2>1. PICK t \in {0, texts + 1} :
            /\ draft' = t
            /\ blank' = (blank \/ t = 0)
            /\ texts' = IF t = 0 THEN texts ELSE t
            /\ final' = IF ToReview THEN final ELSE t
            /\ Deliver(IF ToReview THEN 0 ELSE t)
    BY <1>2 DEF WriteDraft
  <2>2. /\ node = "writer" /\ final = 0 /\ answer = 0
        /\ UNCHANGED <<ask, findVars, reviewVars, flagVars>>
    BY <1>2 DEF WriteDraft
  <2>3. CASE ToReview
    <3>1. final' = 0 /\ answer' = 0 /\ node' = "supervisor"
      BY <2>1, <2>2, <2>3 DEF Deliver
    <3>2. ~fastTrack
      BY <2>3 DEF ToReview
    <3>3. QED
      BY <2>1, <2>2, <3>1, <3>2
  <2>4. CASE ~ToReview
    <3>1. final' = t /\ answer' = t /\ node' \in {"supervisor", "failed"}
      BY <2>1, <2>2, <2>4 DEF Deliver
    <3>2. ~ask.reviewer \/ fastTrack
      BY <2>4 DEF ToReview
    <3>3. QED
      BY <2>1, <2>2, <3>1, <3>2
  <2>5. QED
    BY <2>3, <2>4
<1>3. CASE Approve
  <2>1. /\ node = "reviewer" /\ final = 0 /\ answer = 0 /\ draft # 0
        /\ final' = draft /\ judged' = draft /\ answer' = draft
        /\ node' \in {"supervisor", "failed"}
        /\ feedback' = FALSE /\ reviews' = reviews + 1
        /\ UNCHANGED <<ask, findVars, draft, texts, revision, flagVars, blank>>
    BY <1>3 DEF Approve, Deliver
  <2>2. ControlTypeOK' /\ SentIsFinal'
    <3>1. ControlTypeOK'
      <4>1. /\ final' \in Nat /\ judged' \in Nat /\ answer' \in Nat /\ reviews' \in Nat
            /\ draft' \in Nat /\ texts' \in Nat /\ revision' \in Nat
        BY <2>1
      <4>2. /\ node' \in Nodes \cup Ends /\ feedback' \in BOOLEAN
        BY <2>1
      <4>3. /\ ask' \in Asks /\ fastTrack' \in BOOLEAN /\ blank' \in BOOLEAN
            /\ needsWeb' \in BOOLEAN /\ needsEdit' \in BOOLEAN
        BY <2>1
      <4>4. QED
        BY <4>1, <4>2, <4>3
    <3>2. SentIsFinal'
      BY <2>1
    <3>3. QED
      BY <3>1, <3>2
  <2>3. OutcomeEndsRun' /\ SentForAReason'
    BY <2>1
  <2>4. FastTrackIsShort'
    BY <2>1
  <2>5. ReviewsCounted'
    BY <2>1
  <2>6. GroundedAnswerWasJudged'
    BY <2>1
  <2>7. QED
    BY <2>2, <2>3, <2>4, <2>5, <2>6
<1>4. CASE Reject
  <2>1. /\ node = "reviewer" /\ final = 0 /\ revision < MaxRevisions
        /\ revision' = revision + 1 /\ reviews' = reviews + 1
        /\ draft' = 0 /\ feedback' \in BOOLEAN /\ node' = "supervisor"
        /\ UNCHANGED <<ask, findVars, final, answer, texts, judged, flagVars, blank>>
    BY <1>4, AskAssumption DEF Reject, AtCap
  <2>2. QED
    BY <2>1, AskAssumption
<1>5. QED
  BY <1>1, <1>2, <1>3, <1>4

LEMMA NextAInv == AInv /\ [Next]_vars => AInv'
<1> SUFFICES ASSUME AInv, [Next]_vars
             PROVE  AInv'
  OBVIOUS
<1>1. CASE Fail \/ Abort
  <2>1. /\ node' \in {"failed", "aborted"}
        /\ UNCHANGED <<ask, findVars, textVars, reviewVars, flagVars, blank>>
    BY <1>1 DEF Fail, Abort, Run
  <2>2. QED
    BY <2>1 DEF AInv, ControlTypeOK, SentIsFinal, OutcomeEndsRun, Finished,
                SentForAReason, FastTrackIsShort, ReviewsCounted,
                GroundedAnswerWasJudged, Ends,
                findVars, textVars, reviewVars, flagVars
<1>2. CASE UNCHANGED vars
  BY <1>2 DEF AInv, ControlTypeOK, SentIsFinal, OutcomeEndsRun, Finished,
              SentForAReason, FastTrackIsShort, ReviewsCounted,
              GroundedAnswerWasJudged, vars, runVars,
              findVars, textVars, reviewVars, flagVars
<1>3. QED
  BY <1>1, <1>2, RouteAInv, WorkAInv, WriteAInv DEF Next

\* AInv holds in every state the graph reaches.
THEOREM AskInvariant == Spec => []AInv
BY InitAInv, NextAInv, PTL DEF Spec

\* A stream that ends with done has told the client exactly one thing
\* (the early returns of supervisor_node).
THEOREM OneOutcome == Spec => []DoneMeansOneOutcome
<1>1. AInv => DoneMeansOneOutcome
  BY DEF AInv, ControlTypeOK, SentIsFinal, OutcomeEndsRun, Finished, DoneMeansOneOutcome
<1>2. QED
  BY <1>1, AskInvariant, PTL

\* With the reviewer on, an answer written from findings is one the reviewer let
\* pass, as long as no text came out empty (writer_node's last return).
THEOREM JudgedBeforeAnswer == Spec => []GroundedAnswerWasJudged
<1>1. AInv => GroundedAnswerWasJudged
  BY DEF AInv
<1>2. QED
  BY <1>1, AskInvariant, PTL

\* The reviewer runs at most MaxRevisions + 1 times (revision_count >= 2).
THEOREM BoundedReviews == Spec => []ReviewsBounded
<1>1. AInv => ReviewsBounded
  BY AskAssumption DEF AInv, ControlTypeOK, ReviewsCounted, ReviewsBounded
<1>2. QED
  BY <1>1, AskInvariant, PTL

-----------------------------------------------------------------------------
\* Type correctness

\* The texts a run points at have been written, and the recursion limit counts.
LEMMA NextTypeOK == AInv /\ TypeOK /\ [Next]_vars => TypeOK'
<1> SUFFICES ASSUME AInv, TypeOK, [Next]_vars
             PROVE  TypeOK'
  OBVIOUS
<1> USE AskAssumption
<1>1. AInv'
  BY NextAInv
<1>2. steps' \in 0..RecursionLimit
  <2>1. /\ steps \in 0..RecursionLimit
        /\ steps' = steps \/ (steps < RecursionLimit /\ steps' = steps + 1)
    BY DEF TypeOK, Next, Route, Classify, RequestWeb, SearchWeb, Retrieve, RetrieveHops,
           Compute, ComputeNothing, EditorDeclines, EditorProposes, WriteNoDocs,
           WriteDraft, Approve, Reject, Fail, Abort, Run, vars, runVars
  <2> QED
    BY <2>1
<1>3. research' \in Results /\ rewritten' \in BOOLEAN
  <2>1. \/ UNCHANGED findVars
        \/ \E r \in Results : Found(r)
    BY DEF Next, Route, Classify, RequestWeb, SearchWeb, Retrieve, RetrieveHops,
           Compute, ComputeNothing, EditorDeclines, EditorProposes, WriteNoDocs,
           WriteDraft, Approve, Reject, Fail, Abort, vars, Results
  <2>2. research \in Results /\ rewritten \in BOOLEAN
    BY DEF TypeOK
  <2> QED
    BY <2>1, <2>2 DEF Found, findVars
<1>4. {draft', final', answer', judged'} \subseteq 0..texts'
  <2>1. /\ draft \in 0..texts /\ final \in 0..texts /\ answer \in 0..texts
        /\ judged \in 0..texts /\ texts \in Nat
    BY DEF TypeOK
  <2>2. CASE UNCHANGED <<textVars, judged>>
    BY <2>1, <2>2 DEF textVars
  <2>3. CASE EditorDeclines
    <3>1. /\ texts' = texts + 1 /\ final' = texts + 1 /\ judged' = judged /\ draft' = draft
          /\ answer' = IF answer = 0 THEN texts + 1 ELSE answer
      BY <2>3 DEF EditorDeclines, Deliver, reviewVars
    <3> QED
      BY <2>1, <3>1
  <2>4. CASE WriteNoDocs
    <3>1. /\ texts' = texts + 1 /\ final' = texts + 1 /\ judged' = judged
          /\ draft' = texts + 1
          /\ answer' = IF answer = 0 THEN texts + 1 ELSE answer
      BY <2>4 DEF WriteNoDocs, Deliver, reviewVars
    <3> QED
      BY <2>1, <3>1
  <2>5. CASE WriteDraft
    <3>1. PICK t \in {0, texts + 1} :
              /\ draft' = t /\ judged' = judged
              /\ texts' = IF t = 0 THEN texts ELSE t
              /\ final' = IF ToReview THEN final ELSE t
              /\ Deliver(IF ToReview THEN 0 ELSE t)
      BY <2>5 DEF WriteDraft, reviewVars
    <3>2. answer' \in {0, t, answer}
      BY <3>1 DEF Deliver
    <3>3. /\ t <= texts' /\ t \in Nat /\ texts <= texts' /\ texts' \in Nat
      BY <2>1, <3>1
    <3> QED
      BY <2>1, <3>1, <3>2, <3>3
  <2>6. CASE Approve
    <3>1. /\ texts' = texts /\ final' = draft /\ judged' = draft /\ draft' = draft
          /\ answer' = IF answer = 0 THEN draft ELSE answer
      BY <2>6 DEF Approve, Deliver
    <3> QED
      BY <2>1, <3>1
  <2>7. CASE Reject
    <3>1. draft' = 0 /\ UNCHANGED <<texts, final, answer, judged>>
      BY <2>7 DEF Reject
    <3> QED
      BY <2>1, <3>1
  <2> QED
    BY <2>2, <2>3, <2>4, <2>5, <2>6, <2>7
    DEF Next, Route, Classify, RequestWeb, SearchWeb, Retrieve, RetrieveHops, Compute,
        ComputeNothing, EditorProposes, Fail, Abort, Found, vars, reviewVars
<1> QED
  BY <1>1, <1>2, <1>3, <1>4 DEF AInv, ControlTypeOK, ReviewsCounted, TypeOK

\* Type correctness for every request, cap and recursion limit.
THEOREM AskTypeCorrect == Spec => []TypeOK
<1>1. Init => TypeOK
  <2> SUFFICES ASSUME Init
               PROVE  TypeOK
    OBVIOUS
  <2>1. /\ steps \in 0..RecursionLimit /\ {draft, final, answer, judged} \subseteq 0..texts
        /\ revision \in 0..MaxRevisions /\ texts \in Nat /\ reviews \in Nat
    BY AskAssumption DEF Init
  <2>2. /\ ask \in Asks /\ node \in Nodes \cup Ends /\ research \in Results
    BY DEF Init, Nodes, Results
  <2>3. /\ rewritten \in BOOLEAN /\ feedback \in BOOLEAN /\ fastTrack \in BOOLEAN
        /\ needsWeb \in BOOLEAN /\ needsEdit \in BOOLEAN /\ blank \in BOOLEAN
    BY DEF Init
  <2> QED
    BY <2>1, <2>2, <2>3 DEF TypeOK
<1> QED
  BY <1>1, InitAInv, NextAInv, NextTypeOK, PTL DEF Spec

-----------------------------------------------------------------------------
\* The recursion limit

\* A round of supervisor, writer, supervisor and reviewer takes four steps.
Rounds == 4 * revision

\* Steps that may be behind a run when the given node is next.
Pace ==
    /\ node = "supervisor" =>
        \/ Finished /\ steps <= Rounds + 6
        \/ ~Finished /\ research # "empty" /\ draft # 0 /\ steps <= Rounds + 4
        \/ ~Finished /\ research # "empty" /\ draft = 0 /\ steps <= Rounds + 2
        \/ Undecided /\ steps = 0
    /\ node \in {"researcher", "code_interpreter", "editor"} => steps <= 1
    /\ node = "writer" =>
        \/ research = "empty" /\ fastTrack /\ steps <= 1
        \/ research # "empty" /\ steps <= Rounds + 3
    /\ node = "reviewer" => research # "empty" /\ steps <= Rounds + 5
    /\ node \in Ends => steps <= Rounds + 7

LEMMA InitPace == Init => Pace
<1> SUFFICES ASSUME Init
             PROVE  Pace
  OBVIOUS
<1>1. node = "supervisor" /\ steps = 0 /\ Undecided
  BY DEF Init, Undecided, Finished
<1> QED
  BY <1>1 DEF Pace, Ends

\* The supervisor asks the classifier in the first step only.
LEMMA SupervisorPace ==
    ASSUME AInv, TypeOK, Pace, Route \/ Classify
    PROVE  Pace'
<1>1. revision \in Nat /\ steps \in Nat
  BY AskAssumption DEF AInv, ControlTypeOK, TypeOK
<1>2. node = "supervisor" /\ steps' = steps + 1
  BY DEF Route, Classify, Run
<1>3. CASE Route
  <2>1. /\ ~Undecided /\ node' = NextAgent
        /\ UNCHANGED <<research, draft, final, revision, needsWeb, needsEdit>>
    BY <1>3 DEF Route, findVars, textVars, reviewVars, flagVars
  <2>2. CASE Finished
    BY <1>1, <1>2, <2>1, <2>2 DEF Pace, NextAgent, Rounds, Ends
  <2>3. CASE ~Finished
    BY <1>1, <1>2, <2>1, <2>3 DEF Pace, NextAgent, Rounds, Ends
  <2> QED
    BY <2>2, <2>3
<1>4. CASE Classify
  <2>1. /\ Undecided /\ research' = research
        /\ node' \in {"editor", "writer", "researcher", "code_interpreter"}
    BY <1>4 DEF Classify, Verdicts, Asks, Kinds, AInv, ControlTypeOK, findVars
  <2>2. steps' <= 1 /\ research' = "empty"
    BY <1>1, <1>2, <2>1 DEF Pace, Undecided
  <2>3. node' = "writer" => fastTrack'
    <3>1. fastTrack' = (fastTrack \/ node' = "writer")
      BY <1>4 DEF Classify
    <3> QED
      BY <3>1, Zenon
  <2> QED
    BY <2>1, <2>2, <2>3 DEF Pace, Ends
<1> QED
  BY <1>3, <1>4

\* A worker comes back with something to write from, a question or an edit.
LEMMA WorkPace ==
    ASSUME AInv, TypeOK, Pace, HasMaterial, HasMaterial',
           \/ RequestWeb \/ SearchWeb \/ Retrieve \/ RetrieveHops
           \/ Compute \/ ComputeNothing \/ EditorDeclines \/ EditorProposes
    PROVE  Pace'
<1>1. revision \in Nat /\ steps \in Nat /\ texts \in Nat /\ final \in Nat
  BY AskAssumption DEF AInv, ControlTypeOK, TypeOK
<1>2. /\ node \in {"researcher", "code_interpreter", "editor"}
      /\ steps' = steps + 1 /\ revision' = revision
  BY DEF RequestWeb, SearchWeb, Retrieve, RetrieveHops, Compute, ComputeNothing,
         EditorDeclines, EditorProposes, Found, Run, reviewVars
<1>3. steps' \in Nat /\ steps' <= 2 /\ ~Finished /\ draft' = draft
  <2>1. ~Finished
    BY <1>2 DEF AInv, OutcomeEndsRun, Ends
  <2>2. draft' = draft
    BY DEF RequestWeb, SearchWeb, Retrieve, RetrieveHops, Compute, ComputeNothing,
           EditorDeclines, EditorProposes, Found, textVars
  <2> QED
    BY <1>1, <1>2, <2>1, <2>2 DEF Pace
<1>4. node' = "supervisor" \/ (node' = "failed")
  BY DEF RequestWeb, SearchWeb, Retrieve, RetrieveHops, Compute, ComputeNothing,
         EditorDeclines, EditorProposes, Found, Deliver
<1>5. Finished' \/ research' # "empty"
  <2>1. CASE RequestWeb \/ EditorProposes
    BY <2>1 DEF RequestWeb, EditorProposes, Finished
  <2>2. CASE SearchWeb \/ Retrieve \/ Compute
    BY <2>2 DEF SearchWeb, Retrieve, Compute, Found
  <2>3. CASE RetrieveHops
    <3>1. rewritten' /\ needsWeb' = needsWeb
      BY <2>3 DEF RetrieveHops, Found
    <3> QED
      BY <1>3, <3>1 DEF HasMaterial, Finished
  <2>4. CASE ComputeNothing
    BY <2>4 DEF ComputeNothing, Run, HasMaterial
  <2>5. CASE EditorDeclines
    <3>1. final' = texts + 1
      BY <2>5 DEF EditorDeclines
    <3> QED
      BY <1>1, <3>1 DEF Finished
  <2> QED
    BY <2>1, <2>2, <2>3, <2>4, <2>5
<1>6. /\ steps' <= Rounds' + 2 /\ steps' <= Rounds' + 4
      /\ steps' <= Rounds' + 6 /\ steps' <= Rounds' + 7
  BY <1>1, <1>2, <1>3 DEF Rounds
<1> QED
  BY <1>4, <1>5, <1>6 DEF Pace, Ends

\* Only a text from findings goes to the reviewer.
LEMMA WriterPace ==
    ASSUME AInv, TypeOK, Pace, HasMaterial', WriteNoDocs \/ WriteDraft
    PROVE  Pace'
<1>1. /\ revision \in Nat /\ steps \in Nat /\ texts \in Nat
      /\ AskAssumption
  BY AskAssumption DEF AInv, ControlTypeOK, TypeOK
<1>2. /\ node = "writer" /\ steps' = steps + 1
      /\ UNCHANGED <<research, revision, needsWeb, needsEdit>>
  BY DEF WriteNoDocs, WriteDraft, Run, findVars, reviewVars, flagVars
<1>3. node' \in {"supervisor", "failed"}
  BY DEF WriteNoDocs, WriteDraft, Deliver
<1>4. Rounds' = Rounds /\ Rounds \in Nat /\ steps' \in Nat /\ steps' <= Rounds + 4
  BY <1>1, <1>2 DEF Pace, Rounds
<1>5. \/ Finished'
      \/ ~Finished' /\ research' # "empty" /\ draft' # 0
  <2>1. CASE WriteNoDocs
    <3>1. final' = texts + 1
      BY <2>1 DEF WriteNoDocs
    <3> QED
      BY <1>1, <3>1 DEF Finished
  <2>2. CASE WriteDraft
    <3>1. PICK t \in {0, texts + 1} :
              /\ draft' = t
              /\ blank' = (blank \/ t = 0)
              /\ final' = IF ToReview THEN final ELSE t
      BY <2>2 DEF WriteDraft
    <3>2. t # 0
      BY <3>1 DEF HasMaterial
    <3>3. CASE ToReview
      <4>1. research # "empty"
        BY <1>2, <3>3 DEF Pace, ToReview
      <4> QED
        BY <1>2, <3>1, <3>2, <4>1
    <3>4. CASE ~ToReview
      BY <3>1, <3>2, <3>4 DEF Finished
    <3> QED
      BY <3>3, <3>4
  <2> QED
    BY <2>1, <2>2
<1> QED
  BY <1>3, <1>4, <1>5 DEF Pace, Ends

\* A rejection opens the next round, an approval is the outcome.
LEMMA ReviewerPace ==
    ASSUME AInv, TypeOK, Pace, Approve \/ Reject
    PROVE  Pace'
<1>1. revision \in Nat /\ steps \in Nat
  BY AskAssumption DEF AInv, ControlTypeOK, TypeOK
<1>2. /\ node = "reviewer" /\ steps' = steps + 1 /\ ~Finished /\ draft # 0
      /\ UNCHANGED <<research, needsWeb, needsEdit>>
  BY DEF Approve, Reject, Run, AInv, OutcomeEndsRun, SentForAReason, Ends,
         findVars, flagVars
<1>3. research # "empty" /\ steps' <= 4 * revision + 6 /\ steps' \in Nat
  BY <1>1, <1>2 DEF Pace, Rounds
<1>4. CASE Approve
  <2>1. final' = draft /\ revision' = revision /\ node' \in {"supervisor", "failed"}
    BY <1>4 DEF Approve, Deliver
  <2>2. Finished'
    BY <1>2, <2>1 DEF Finished
  <2>3. steps' <= Rounds' + 6 /\ steps' <= Rounds' + 7
    BY <1>1, <1>3, <2>1 DEF Rounds
  <2> QED
    BY <2>1, <2>2, <2>3 DEF Pace, Ends
<1>5. CASE Reject
  <2>1. /\ node' = "supervisor" /\ revision' = revision + 1 /\ draft' = 0
        /\ final' = final
    BY <1>5 DEF Reject
  <2>2. ~Finished' /\ research' # "empty"
    BY <1>2, <1>3, <2>1 DEF Finished
  <2>3. steps' <= Rounds' + 2
    BY <1>1, <1>3, <2>1 DEF Rounds
  <2> QED
    BY <2>1, <2>2, <2>3 DEF Pace, Ends
<1> QED
  BY <1>4, <1>5

\* Wherever a run is, it has come at most this far.
LEMMA PaceIsBounded ==
    ASSUME AInv, TypeOK, Pace
    PROVE  /\ steps <= 4 * revision + 7
           /\ node \in Nodes => steps <= 4 * revision + 6
<1>1. revision \in Nat /\ steps \in Nat
  BY AskAssumption DEF AInv, ControlTypeOK, TypeOK
<1>2. CASE node \in Nodes
  BY <1>1, <1>2 DEF Pace, Rounds, Nodes, Workers
<1>3. CASE node \in Ends
  BY <1>1, <1>3 DEF Pace, Rounds, Nodes, Workers, Ends
<1> QED
  BY <1>1, <1>2, <1>3 DEF TypeOK

LEMMA EndPace ==
    ASSUME AInv, TypeOK, Pace, Fail \/ Abort
    PROVE  Pace'
<1>1. /\ node \in Nodes /\ node' \in {"failed", "aborted"} /\ revision' = revision
      /\ steps' = steps \/ steps' = steps + 1
  BY DEF Fail, Abort, Run, reviewVars
<1>2. steps' <= Rounds' + 7
  BY <1>1, PaceIsBounded, AskAssumption DEF Rounds, AInv, ControlTypeOK, TypeOK
<1> QED
  BY <1>1, <1>2 DEF Pace, Ends

LEMMA NextPace ==
    AInv /\ TypeOK /\ Pace /\ HasMaterial /\ HasMaterial' /\ [Next]_vars => Pace'
<1> SUFFICES ASSUME AInv, TypeOK, Pace, HasMaterial, HasMaterial', [Next]_vars
             PROVE  Pace'
  OBVIOUS
<1>1. CASE UNCHANGED vars
  BY <1>1 DEF Pace, Rounds, Finished, Undecided, vars, runVars, findVars, textVars,
              reviewVars, flagVars
<1> QED
  BY <1>1, SupervisorPace, WorkPace, WriterPace, ReviewerPace, EndPace DEF Next

LEMMA PaceInvariant == Spec /\ []HasMaterial => []Pace
BY InitPace, NextPace, AskInvariant, AskTypeCorrect, PTL DEF Spec

\* For every request, deployment and cap, whatever the models answer: a run that
\* always has something to go on takes four steps for each revision the cap
\* allows, and seven for the rest.
THEOREM AskRunIsShort == Spec /\ []HasMaterial => [](steps <= 4 * MaxRevisions + 7)
<1>1. AInv /\ TypeOK /\ Pace => steps <= 4 * MaxRevisions + 7
  <2> SUFFICES ASSUME AInv, TypeOK, Pace
               PROVE  steps <= 4 * MaxRevisions + 7
    OBVIOUS
  <2>1. revision <= MaxRevisions /\ revision \in Nat /\ steps \in Nat
    BY AskAssumption DEF AInv, ReviewsCounted, ControlTypeOK, TypeOK
  <2> QED
    BY <2>1, PaceIsBounded, AskAssumption
<1> QED
  BY <1>1, PaceInvariant, AskInvariant, AskTypeCorrect, PTL

NeverAborted == node # "aborted"

\* A recursion limit of that many steps is never met: the safety part of RunEnds,
\* for every cap.
THEOREM AskLimitLeavesRoom ==
    ASSUME RecursionLimit >= 4 * MaxRevisions + 7
    PROVE  Spec /\ []HasMaterial => []NeverAborted
<1>1. Init => NeverAborted
  BY DEF Init, NeverAborted
<1>2. AInv /\ TypeOK /\ Pace /\ NeverAborted /\ [Next]_vars => NeverAborted'
  <2> SUFFICES ASSUME AInv, TypeOK, Pace, node # "aborted", [Next]_vars
               PROVE  node' # "aborted"
    BY DEF NeverAborted
  <2>1. ~Abort
    <3>1. revision <= MaxRevisions /\ revision \in Nat /\ steps \in Nat
      BY AskAssumption DEF AInv, ReviewsCounted, ControlTypeOK, TypeOK
    <3>2. node \in Nodes => steps < RecursionLimit
      BY <3>1, PaceIsBounded, AskAssumption
    <3> QED
      BY <3>2, <3>1, AskAssumption DEF Abort
  <2>2. CASE Classify
    BY <2>2 DEF Classify, Verdicts, AInv, ControlTypeOK, Asks, Kinds
  <2>3. CASE UNCHANGED vars
    BY <2>3 DEF vars, runVars
  <2> QED
    BY <2>1, <2>2, <2>3
    DEF Next, Route, NextAgent, RequestWeb, SearchWeb, Retrieve, RetrieveHops, Compute,
        ComputeNothing, EditorDeclines, EditorProposes, WriteNoDocs, WriteDraft, Approve,
        Reject, Fail, Found, Deliver
<1> QED
  BY <1>1, <1>2, PaceInvariant, AskInvariant, AskTypeCorrect, PTL DEF Spec

\* LangGraph's default of 25 steps is enough for the reviewer's cap of 2, and up
\* to a cap of 4.
COROLLARY DefaultLimitIsEnough ==
    ASSUME RecursionLimit = 25, MaxRevisions <= 4
    PROVE  Spec /\ []HasMaterial => []NeverAborted
<1>1. RecursionLimit >= 4 * MaxRevisions + 7
  BY AskAssumption
<1> QED
  BY <1>1, AskLimitLeavesRoom
=============================================================================
