----------------------------- MODULE Workspace -----------------------------
(***************************************************************************)
(* The workspace of documents: the endpoints that write, create, copy,     *)
(* rename and delete them (RAG/app.py), edits that wait for approval       *)
(* (services/pending_edits.py, agents/editor.py), the registry of reports  *)
(* (services/report_registry.py), and the git repository below             *)
(* (services/version_control.py).                                          *)
(*                                                                         *)
(* A text is a number, drawn afresh by whoever writes it.  The files, the  *)
(* registry and the repository are shared by the pods; pending edits and   *)
(* the lock of the registry are a pod's own.  What an operation does to    *)
(* the index is the subject of DualIndex; here it may only raise.          *)
(***************************************************************************)
EXTENDS Integers, Sequences, FiniteSets

CONSTANTS
    Sources, Pods,
    Threads,         \* requests under way at the same time
    Initial,         \* the reports there are at first
    None,            \* no file, no request
    Torn,            \* what reports.json holds when it cannot be parsed
    MaxTexts,        \* bound on the operations that write, create or propose
    MaxFaults        \* bound on failed calls and pod crashes together

ASSUME WorkspaceAssumption ==
    /\ Initial \subseteq Sources
    /\ MaxTexts \in Nat /\ MaxFaults \in Nat
    /\ None \notin 0 .. MaxTexts
    /\ \A e \in SUBSET Sources : e # Torn

Texts == 0 .. MaxTexts
Files == [Sources -> Texts \cup {None}]
Kinds == {"save", "upload", "apply", "create", "duplicate", "rename", "delete"}
Steps == {"check", "write", "copy", "add", "tree", "commit", "remove",
          "load", "truncate", "fill"}
Copies == {"duplicate", "rename"}

VARIABLES
    md,       \* the workspace's Markdown files
    staged,   \* the git index
    head,     \* the tree of the last commit
    registry, \* data/reports.json: the registered sources
    mixed,    \* it was opened, when it last was, while another had it open
    pending,  \* pending[p]: the edits that wait for approval in pod p
    op,       \* op[t]: request t
    drawn, faults,
    made,     \* history: the files the studio made
    owed,     \* history: texts nobody has overwritten or deleted knowingly
    verdicts, \* history: what became of the edit whose new text is x
    headGood, registryGood \* history: sources, see the end

files   == <<md, staged, head>>
history == <<made, owed, verdicts, headGood, registryGood>>
vars    == <<files, registry, mixed, pending, op, drawn, faults, history>>

\* read is the tree or the registry the request has last read; met says that
\* another request on its document overlapped it, spoilt that a commit or a
\* registry write did, or that a step failed.
IsRequest(r) ==
    /\ r \in [kind: Kinds, pod: Pods, at: Steps, src: Sources, from: Sources,
             text: Texts, before: Texts \cup {None}, read: {r.read},
             met: BOOLEAN, spoilt: BOOLEAN]
    /\ CASE r.at = "commit" -> r.read \in Files
         [] r.at \in {"truncate", "fill"} -> r.read \subseteq Sources
         [] OTHER -> r.read = None
Edit == [src: Sources, before: Texts \cup {None}, after: Texts]

ASSUME NoRequestAssumption ==
    None \notin [kind: Kinds, pod: Pods, at: Steps, src: Sources, from: Sources,
                 text: Texts, before: Texts \cup {None},
                 read: Files \cup (SUBSET Sources) \cup {None},
                 met: BOOLEAN, spoilt: BOOLEAN]

TypeOK ==
    /\ {md, staged, head} \subseteq Files
    /\ registry = Torn \/ registry \subseteq Sources
    /\ mixed \in BOOLEAN
    /\ pending \in [Pods -> SUBSET Edit]
    /\ \A t \in Threads : op[t] = None \/ IsRequest(op[t])
    /\ drawn \in 0 .. MaxTexts /\ faults \in 0 .. MaxFaults
    /\ made \subseteq Sources /\ owed \subseteq Texts
    /\ verdicts \in [Texts -> Seq({"written", "rejected"})]
    /\ headGood \subseteq Sources /\ registryGood \subseteq Sources

Init ==
    /\ md = [s \in Sources |-> IF s \in Initial THEN 0 ELSE None]
    /\ staged = md /\ head = md
    /\ registry = Initial /\ mixed = FALSE
    /\ pending = [p \in Pods |-> {}]
    /\ op = [t \in Threads |-> None]
    /\ drawn = 0 /\ faults = 0
    /\ made = Initial
    /\ owed = IF Initial = {} THEN {} ELSE {0}
    /\ verdicts = [x \in Texts |-> <<>>]
    /\ headGood = Sources /\ registryGood = Sources

-----------------------------------------------------------------------------
\* Helpers

Active == {t \in Threads : op[t] # None}
At(t, step) == t \in Active /\ op[t].at = step
Fault == faults < MaxFaults /\ faults' = faults + 1
Draw == drawn < MaxTexts /\ drawn' = drawn + 1

\* The documents a request works on.
Touches(t) == {op[t].src, op[t].from}
\* The sources whose registry entry a request of this kind changes.
Entries(kind, s, from) ==
    CASE kind \in {"create", "duplicate", "delete"} -> {s}
      [] kind = "rename" -> {s, from}
      [] OTHER -> {}

Meets(docs) == [u \in Threads |->
    IF u \in Active /\ Touches(u) \cap docs # {} THEN [op[u] EXCEPT !.met = TRUE]
                                                 ELSE op[u]]

\* A request is taken up by a pod; requests on the same document are told.
Begin(t, pod, kind, s, from, step, text, before) ==
    /\ op[t] = None
    /\ op' = [Meets({s, from}) EXCEPT ![t] =
          [kind |-> kind, pod |-> pod, at |-> step, src |-> s, from |-> from,
           text |-> text, before |-> before, read |-> None, spoilt |-> FALSE,
           met |-> \E u \in Active : Touches(u) \cap {s, from} # {}]]
    /\ headGood' = headGood \ {s}
    /\ registryGood' = registryGood \ Entries(kind, s, from)

Goto(t, step) == op' = [op EXCEPT ![t].at = step]
\* The answer is sent; a request that raised leaves the rest undone.
End(t) == op' = [op EXCEPT ![t] = None]

\* Text x replaces the file of s; knowingly says whether the old text may go.
Write(s, x, knowingly) ==
    /\ md' = [md EXCEPT ![s] = x]
    /\ owed' = (IF knowingly THEN owed \ {md[s]} ELSE owed) \cup {x}

-----------------------------------------------------------------------------
\* Requests: the first step, up to the first await

\* save_document writes the file; the rest happens in the same thread.
Save(t, p, s) ==
    /\ Draw
    /\ Begin(t, p, "save", s, s, "add", drawn', None)
    /\ Write(s, drawn', TRUE)
    /\ UNCHANGED <<staged, head, registry, mixed, pending, faults, made, verdicts>>

\* add_document writes the file, indexes it and commits nothing.
Upload(t, p, s) ==
    /\ Draw
    /\ Begin(t, p, "upload", s, s, "add", drawn', None)
    /\ Write(s, drawn', TRUE)
    /\ UNCHANGED <<staged, head, registry, mixed, pending, faults, made, verdicts>>

\* save_document_draft: only the file.
SaveDraft(s) ==
    /\ Draw
    /\ op' = Meets({s})
    /\ Write(s, drawn', TRUE)
    /\ headGood' = headGood \ {s}
    /\ UNCHANGED <<staged, head, registry, mixed, pending, faults, made, verdicts,
                   registryGood>>

\* A name for which there is no file, derived from the title; the first
\* definition is a faulty variant.
AnyName == Sources
FreeName == {s \in Sources : md[s] = None}

\* create_report chooses the name; the thread it starts writes the file.
Create(t, p) ==
    /\ Draw
    /\ \E s \in FreeName : Begin(t, p, "create", s, s, "write", drawn', None)
    /\ UNCHANGED <<files, registry, mixed, pending, faults, made, owed, verdicts>>

\* duplicate_report and rename_report: the document must exist.
Copy(t, p, kind, from) ==
    /\ Draw
    /\ md[from] # None
    /\ \E s \in FreeName : Begin(t, p, kind, s, from, "copy", drawn', None)
    /\ UNCHANGED <<files, registry, mixed, pending, faults, made, owed, verdicts>>

\* admin_delete_document.
Delete(t, p, s) ==
    /\ Draw
    /\ Begin(t, p, "delete", s, s, "remove", drawn', None)
    /\ UNCHANGED <<files, registry, mixed, pending, faults, made, owed, verdicts>>

-----------------------------------------------------------------------------
\* Edits that wait for approval

\* editor_node reads the file, has it rewritten and stashes both texts.  The
\* token leaves the pod with the node's answer, so that what happens to the
\* file meanwhile is as if it happened after.
Propose(p, s) ==
    /\ Draw
    /\ pending' = [pending EXCEPT ![p] = @ \cup
                      {[src |-> s, before |-> md[s], after |-> drawn']}]
    /\ UNCHANGED <<files, registry, mixed, op, faults, history>>

\* Faulty variant: the edit stays in the stash.
ApplyGet(t, p) ==
    /\ \E e \in pending[p] :
           Begin(t, p, "apply", e.src, e.src, "check", e.after, e.before)
    /\ UNCHANGED <<files, registry, mixed, pending, drawn, faults, made, owed,
                   verdicts>>

\* update_apply takes the edit out of the stash of the pod that serves the
\* request; another pod answers 404.
Apply(t, p) ==
    /\ \E e \in pending[p] :
           /\ Begin(t, p, "apply", e.src, e.src, "check", e.after, e.before)
           /\ pending' = [pending EXCEPT ![p] = @ \ {e}]
    /\ UNCHANGED <<files, registry, mixed, drawn, faults, made, owed, verdicts>>

\* update_reject.
Reject(p) ==
    /\ \E e \in pending[p] :
           /\ pending' = [pending EXCEPT ![p] = @ \ {e}]
           /\ verdicts' = [verdicts EXCEPT ![e.after] = Append(@, "rejected")]
    /\ UNCHANGED <<files, registry, mixed, op, drawn, faults, made, owed, headGood,
                   registryGood>>

\* _TTL_SECONDS have passed; pop and stash drop the edit.
Evict(p) ==
    /\ \E e \in pending[p] : pending' = [pending EXCEPT ![p] = @ \ {e}]
    /\ UNCHANGED <<files, registry, mixed, op, drawn, faults, history>>

\* Faulty variant of the comparison below.
CheckNothing(t) ==
    /\ At(t, "check")
    /\ Goto(t, "write")
    /\ UNCHANGED <<files, registry, mixed, pending, drawn, faults, history>>

\* apply_pending_edit: the file must still be what the preview was made from.
Check(t) ==
    /\ At(t, "check")
    /\ IF md[op[t].src] = op[t].before THEN Goto(t, "write") ELSE End(t)
    /\ UNCHANGED <<files, registry, mixed, pending, drawn, faults, history>>

-----------------------------------------------------------------------------
\* The common steps

\* apply and create write their text.
WriteText(t) ==
    LET o == op[t] IN
    /\ At(t, "write")
    /\ Write(o.src, o.text, o.met \/ (o.kind = "apply" /\ md[o.src] = o.before))
    /\ Goto(t, "add")
    /\ verdicts' = IF o.kind = "apply"
                   THEN [verdicts EXCEPT ![o.text] = Append(@, "written")]
                   ELSE verdicts
    /\ made' = IF o.kind = "create" THEN made \cup {o.src} ELSE made
    /\ headGood' = headGood \ {o.src}
    /\ UNCHANGED <<staged, head, registry, mixed, pending, drawn, faults,
                   registryGood>>

\* Faulty variant: the file that is copied is taken to be there.
CopyUnchecked(t) ==
    LET text == md[op[t].from] IN
    /\ At(t, "copy")
    /\ Write(op[t].src, text, op[t].met)
    /\ op' = [op EXCEPT ![t].at = "add", ![t].text = text]
    /\ made' = made \cup {op[t].src}
    /\ headGood' = headGood \ {op[t].src}
    /\ UNCHANGED <<staged, head, registry, mixed, pending, drawn, faults, verdicts,
                   registryGood>>

\* duplicate and rename read the old file and write the new one.
CopyText(t) ==
    LET text == md[op[t].from] IN
    /\ At(t, "copy")
    /\ \/ /\ text # None
          /\ Write(op[t].src, text, op[t].met)
          /\ op' = [op EXCEPT ![t].at = "add", ![t].text = text]
          /\ made' = made \cup {op[t].src}
          /\ headGood' = headGood \ {op[t].src}
       \/ /\ text = None
          /\ End(t)
          /\ UNCHANGED <<md, owed, made, headGood>>
    /\ UNCHANGED <<staged, head, registry, mixed, pending, drawn, faults, verdicts,
                   registryGood>>

\* The step after the commit; "end" is none.
AfterCommit(kind) ==
    CASE kind \in {"create", "duplicate"} -> "load"
      [] kind = "rename" -> "remove"
      [] OTHER -> "end"
Proceed(t) ==
    LET step == AfterCommit(op[t].kind) IN
    IF step = "end" THEN End(t)
    ELSE op' = [op EXCEPT ![t].at = step, ![t].read = None, ![t].spoilt = FALSE]

\* Two requests between the first and the last of these steps spoil each other.
Enter(t, steps, next, read) ==
    LET others == {u \in Active \ {t} : op[u].at \in steps}
    IN op' = [u \in Threads |->
          IF u = t
          THEN [op[t] EXCEPT !.at = next, !.read = read,
                             !.spoilt = @ \/ others # {}]
          ELSE IF u \in others THEN [op[u] EXCEPT !.spoilt = TRUE] ELSE op[u]]

\* Faulty variant: only files git does not know are added.
AddNew(t) ==
    LET s == op[t].src IN
    /\ At(t, "add")
    /\ \/ /\ op[t].kind # "upload" /\ md[s] # None
          /\ staged' = [staged EXCEPT ![s] = IF @ = None THEN md[s] ELSE @]
          /\ Enter(t, {"tree", "commit"}, "tree", None)
          /\ UNCHANGED faults
       \/ /\ op[t].kind = "upload" \/ md[s] = None
          /\ Proceed(t)
          /\ UNCHANGED <<staged, faults>>
       \/ /\ Fault
          /\ End(t) \/ Proceed(t)
          /\ UNCHANGED staged
    /\ UNCHANGED <<md, head, registry, mixed, pending, drawn, history>>

\* The document is indexed, which may raise; then commit_change adds its files,
\* gives up when there are none, and logs a failure of git.
Add(t) ==
    LET s == op[t].src IN
    /\ At(t, "add")
    /\ \/ /\ op[t].kind # "upload" /\ md[s] # None
          /\ staged' = [staged EXCEPT ![s] = md[s]]
          /\ Enter(t, {"tree", "commit"}, "tree", None)
          /\ UNCHANGED faults
       \/ /\ op[t].kind = "upload" \/ md[s] = None
          /\ Proceed(t)
          /\ UNCHANGED <<staged, faults>>
       \/ /\ Fault
          /\ End(t) \/ Proceed(t)
          /\ UNCHANGED staged
    /\ UNCHANGED <<md, head, registry, mixed, pending, drawn, history>>

\* repo.index.commit writes the tree of all that is staged ...
WriteTree(t) ==
    /\ At(t, "tree")
    /\ op' = [op EXCEPT ![t].at = "commit", ![t].read = staged]
    /\ UNCHANGED <<files, registry, mixed, pending, drawn, faults, history>>

\* ... and moves HEAD to it.
Commit(t) ==
    /\ At(t, "commit")
    /\ Proceed(t)
    /\ \/ /\ head' = op[t].read
          /\ headGood' = IF op[t].met \/ op[t].spoilt THEN headGood
                         ELSE headGood \cup {op[t].src}
          /\ UNCHANGED faults
       \/ /\ Fault
          /\ UNCHANGED <<head, headGood>>
    /\ UNCHANGED <<md, staged, registry, mixed, pending, drawn, made, owed,
                   verdicts, registryGood>>

\* delete_document_by_source: the index, which may raise, then the files; of
\* the old document in a rename.
Remove(t) ==
    LET gone == IF op[t].kind = "rename" THEN op[t].from ELSE op[t].src IN
    /\ At(t, "remove")
    /\ \/ /\ md' = [md EXCEPT ![gone] = None]
          /\ owed' = IF op[t].kind = "delete" \/ op[t].met THEN owed \ {md[gone]}
                                                          ELSE owed
          /\ made' = made \ {gone}
          /\ headGood' = headGood \ {gone}
          /\ Goto(t, "load")
          /\ UNCHANGED faults
       \/ /\ Fault
          /\ End(t)
          /\ UNCHANGED <<md, owed, made, headGood>>
    /\ UNCHANGED <<staged, head, registry, mixed, pending, drawn, verdicts,
                   registryGood>>

-----------------------------------------------------------------------------
\* The registry

\* record, rename and remove of report_registry; the first definition is a
\* faulty variant whose rename keeps the old entry.
UpdatedKeep(o, entries) ==
    IF o.kind = "delete" THEN entries \ {o.src} ELSE entries \cup {o.src}
Updated(o, entries) ==
    CASE o.kind = "delete" -> entries \ {o.src}
      [] o.kind = "rename" -> (entries \ {o.from}) \cup {o.src}
      [] OTHER -> entries \cup {o.src}

\* The request is over, its entries are as it wants them.
Settle(t) ==
    registryGood' = IF op[t].met \/ op[t].spoilt THEN registryGood
                    ELSE registryGood \cup Entries(op[t].kind, op[t].src, op[t].from)

\* _load: what cannot be parsed counts as empty.
Loaded == IF registry = Torn THEN {} ELSE registry

\* The first half of an update, under the pod's lock.  remove writes only if
\* there is an entry.
Load(t) ==
    LET writers == {u \in Active : op[u].at \in {"truncate", "fill"}} IN
    /\ At(t, "load")
    /\ \A u \in writers : op[u].pod # op[t].pod
    /\ IF op[t].kind = "delete" /\ op[t].src \notin Loaded
       THEN End(t) /\ IF writers # {} THEN UNCHANGED registryGood ELSE Settle(t)
       ELSE /\ Enter(t, {"truncate", "fill"}, "truncate", Updated(op[t], Loaded))
            /\ registryGood' = IF registry = Torn THEN {} ELSE registryGood
    /\ UNCHANGED <<files, registry, mixed, pending, drawn, faults, made, owed,
                   verdicts, headGood>>

\* write_text empties the file, also for another pod that has it open ...
Truncate(t) ==
    /\ At(t, "truncate")
    /\ registry' = Torn
    /\ mixed' = \E u \in Active : op[u].at = "fill"
    /\ Goto(t, "fill")
    /\ UNCHANGED <<files, pending, drawn, faults, history>>

\* ... and fills it, each writer from the beginning: of two that have it open at
\* once, the shorter text may be left with the end of the longer one, for good.
Fill(t) ==
    /\ At(t, "fill")
    /\ \/ /\ registry' = op[t].read
          /\ Settle(t)
       \/ /\ mixed
          /\ registry' = Torn
          /\ registryGood' = {}
    /\ End(t)
    /\ UNCHANGED <<files, mixed, pending, drawn, faults, made, owed, verdicts, headGood>>

\* A pod dies with its requests and its stash.
Crash(p) ==
    /\ Fault
    /\ op' = [t \in Threads |->
                 IF t \in Active /\ op[t].pod = p THEN None ELSE op[t]]
    /\ pending' = [pending EXCEPT ![p] = {}]
    /\ registryGood' = IF \E t \in Active : op[t].pod = p /\ op[t].at = "fill"
                       THEN {} ELSE registryGood
    /\ UNCHANGED <<files, registry, mixed, drawn, made, owed, verdicts, headGood>>

-----------------------------------------------------------------------------
Step(t) ==
    \/ Check(t) \/ WriteText(t) \/ CopyText(t) \/ Add(t) \/ WriteTree(t)
    \/ Commit(t) \/ Remove(t) \/ Load(t) \/ Truncate(t) \/ Fill(t)

Next ==
    \/ \E t \in Threads, p \in Pods, s \in Sources :
           Save(t, p, s) \/ Upload(t, p, s) \/ Delete(t, p, s)
    \/ \E t \in Threads, p \in Pods, s \in Sources, kind \in Copies :
           Copy(t, p, kind, s)
    \/ \E t \in Threads, p \in Pods : Create(t, p) \/ Apply(t, p)
    \/ \E s \in Sources : SaveDraft(s)
    \/ \E p \in Pods, s \in Sources : Propose(p, s)
    \/ \E p \in Pods : Reject(p) \/ Evict(p) \/ Crash(p)
    \/ \E t \in Threads : Step(t)

Spec == Init /\ [][Next]_vars

-----------------------------------------------------------------------------
(***************************************************************************)
(* Properties                                                              *)
(***************************************************************************)

\* No text disappears from the workspace unless a client overwrote or deleted
\* that document, approved an edit that was shown against that very text, or
\* two requests worked on the document at once.  In particular a rename that
\* fails half-way, a name taken for a new report, and an edit approved late
\* bury nothing.
NoTextLost == \A x \in owed : \E s \in Sources : md[s] = x

\* An edit meets one fate: it is written once, or rejected, or neither.
EditDecidedOnce == \A x \in Texts : Len(verdicts[x]) <= 1

\* HEAD has the text of a document whose last writer committed it without a
\* failure and without another request on the document or another commit
\* meanwhile; commits of other documents later on do not take it back.
HeadHasSavedText == \A s \in headGood : head[s] = md[s]

\* When nothing is under way, a source is registered exactly if the studio made
\* its file, unless the last change of its entry failed, overlapped another
\* registry write or another request on the document, or the registry was read
\* while it was half-written since, or left so, by a pod that died or by two pods
\* that wrote it at once.
RegistryTruth ==
    Active = {} =>
        \A s \in registryGood : s \in Loaded <=> s \in made
=============================================================================
