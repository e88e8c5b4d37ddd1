---------------------------- MODULE StoryDetail ----------------------------
(***************************************************************************)
(* The work-item workspace behind the story dialog of the planning pages   *)
(* and behind the page of one work item                                    *)
(* (components/planning/work-item-workspace-state.ts): a story, a draft of *)
(* its fields, its labels and its tasks, each changed before the server    *)
(* has agreed.  The hook stays mounted while stories are opened and        *)
(* closed, so its state and its handlers outlive the story they were for.  *)
(*                                                                         *)
(* The fields of a story are one text; a patch of a task is its status.    *)
(* The list of epics to choose from, the refresh of the page behind the    *)
(* dialog and the texts of errors are left out.                            *)
(***************************************************************************)
EXTENDS PlanningPage

CONSTANTS
    DetailStories, Texts, Labels, TaskIds,
    Temp,                \* the id of an optimistic task
    InitialDetails       \* what the server may start with

VARIABLES
    shown,       \* p.workItemId while the dialog is open
    detail,      \* state: the story loaded last and, once loaded, its fields, labels and tasks
    draft,       \* draft and draftForId, and whether the user typed in it
    busy,        \* isSaving, isDeleting, isCreatingTask
    marks,       \* pendingTaskIds and pendingLabelIds
    labels,      \* labels and labelsForId
    available,   \* availableLabels are loaded
    blurred      \* ghost: the sides of a story that may be shown as they are not

detailVars == <<pageVars, shown, detail, draft, busy, marks, labels, available, blurred>>

TaskStatuses == {"TODO", "DONE"}
Sides == {"text", "labels", "tasks"}
NoTasks == [t \in {} |-> "TODO"]
StoredTasks == UNION {[S -> TaskStatuses] : S \in SUBSET TaskIds}

ASSUME DetailAssumption ==
    /\ NoKey \notin DetailStories /\ Temp \notin TaskIds
    /\ InitialDetails \subseteq [there : SUBSET DetailStories, text : [DetailStories -> Texts],
                                 labels : [DetailStories -> SUBSET Labels], tasks : [DetailStories -> StoredTasks]]

Blank == [kind |-> "loading", for |-> NoKey, story |-> NoKey, text |-> NoKey, labels |-> {}, tasks |-> NoTasks]
NoDraft == [for |-> NoKey, text |-> NoKey, typed |-> FALSE]
ToStoryDraft(d) == [for |-> d.story, text |-> d.text, typed |-> FALSE]
LabelsOf(s, set) == [of |-> s, set |-> set]

ActiveItem(s, d) == s # NoKey /\ d.for = s /\ d.kind = "ok"
Active == ActiveItem(shown, detail)
Unsaved == Active /\ draft.for # NoKey /\ draft.text # detail.text

-----------------------------------------------------------------------------
(* Calls and effects *)

\* What a handler captured and uses after its await.
DetailArg(op, id, status) == [draft |-> IF op = "save" THEN draft ELSE NoDraft, id |-> id, status |-> status]
Previous(op) == [tasks |-> IF op \in {"patchTask", "deleteTask"} THEN detail.tasks ELSE NoTasks,
                 labels |-> IF op \in {"attach", "detach"} THEN labels.set ELSE {}]
DetailCall(op, s, phase, id, status) == NewCall(op, s, selected, phase, DetailArg(op, id, status), Previous(op))

\* A save answers with the whole story and makes the labels load again.
SidesOf(op) ==
    CASE op = "load" -> Sides
      [] op \in {"save", "status", "deleteItem"} -> {"text", "labels"}
      [] op \in {"labels", "attach", "detach"} -> {"labels"}
      [] OTHER -> {"tasks"}
Touched(cs) == UNION {SidesOf(c.op) : c \in cs}
Blur(s, sides) == {<<x, s>> : x \in sides}

\* Mutant: the first story seeds the draft for all.
RenderSeededOnce(s, d, dr, cs, fresh) ==
    /\ shown' = s /\ detail' = d /\ calls' = cs
    /\ draft' = IF ActiveItem(s, d) /\ draft.for = NoKey THEN ToStoryDraft(d) ELSE draft

\* Mutant: every answer seeds the draft again.
RenderReseeds(s, d, dr, cs, fresh) ==
    /\ shown' = s /\ detail' = d /\ calls' = cs
    /\ draft' = IF ActiveItem(s, d) THEN ToStoryDraft(d) ELSE dr

\* What is rendered changes: the effects on the story seed a draft for another story
\* (draftForId) and fetch the labels again for another story object.
Render(s, d, dr, cs, fresh) ==
    LET active == ActiveItem(s, d)
        kept == IF active /\ ~fresh THEN cs ELSE {c \in cs : c.op # "labels"}
    IN  /\ shown' = s /\ detail' = d
        /\ draft' = IF active /\ dr.for # d.story THEN ToStoryDraft(d) ELSE dr
        /\ calls' = IF active /\ fresh THEN kept \cup {DetailCall("labels", d.story, "fetch", NoKey, "TODO")} ELSE kept

\* resetState
ResetDetail == marks' = {} /\ labels' = LabelsOf(NoKey, {}) /\ available' = FALSE

-----------------------------------------------------------------------------
(* The user *)

DetailInit ==
    /\ Mount("detail") /\ selected = NoProject /\ calls = {}
    /\ srv \in InitialDetails
    /\ shown = NoKey /\ detail = Blank /\ draft = NoDraft /\ busy = {} /\ marks = {}
    /\ labels = LabelsOf(NoKey, {}) /\ available = FALSE /\ blurred = {}

\* The story of the last time is shown, and its draft seeded, until the load is
\* answered.  A page passes the labels its list has, or none.
OpenDetail(s) ==
    /\ shown = NoKey /\ Start
    /\ LET load == DetailCall("load", s, "fetch", NoKey, "TODO")
       IN  Render(s, detail, draft, calls \cup {load}, TRUE)
    /\ \E listed \in {{}, srv.labels[s]} :
         labels' = IF labels.of = s THEN labels ELSE LabelsOf(s, listed)
    /\ marks' = IF labels.of = s THEN marks ELSE marks \ Labels
    /\ blurred' = IF calls = {} THEN blurred \ Blur(s, Sides) ELSE blurred \cup Blur(s, Touched(calls))
    /\ UNCHANGED <<selected, view, pending, srv, busy, available>>

\* Unsaved changes ask first.  The effects of the closed story cancel their fetches.
CloseDetail ==
    /\ shown # NoKey
    /\ Render(NoKey, detail, NoDraft, {c \in calls : ~Fetching(c)}, FALSE)
    /\ ResetDetail
    /\ UNCHANGED <<selected, view, pending, started, srv, busy, blurred>>

UpdateDraft(x) ==
    /\ Active /\ draft.for # NoKey /\ x # draft.text
    /\ draft' = [draft EXCEPT !.text = x, !.typed = TRUE]
    /\ UNCHANGED <<pageVars, shown, detail, busy, marks, labels, available, blurred>>

CancelChanges ==
    /\ Unsaved
    /\ draft' = [ToStoryDraft(detail) EXCEPT !.for = draft.for]
    /\ UNCHANGED <<pageVars, shown, detail, busy, marks, labels, available, blurred>>

\* A late answer may have put another story in the place of the one shown: it is the one
\* that is written to.
SendWrite(op, id, status) ==
    /\ Start
    /\ calls' = calls \cup {DetailCall(op, detail.story, op, id, status)}
    /\ LET same == SidesOf(op) \cap Touched(calls)
       IN  blurred' = blurred \cup (IF same = {} /\ detail.story = shown THEN {} ELSE Blur(shown, Sides))

SaveOrChangeStatus(op) ==
    /\ Active /\ "saving" \notin busy /\ (op = "save" => Unsaved)
    /\ busy' = busy \cup {"saving"}
    /\ SendWrite(op, NoKey, "TODO")
    /\ UNCHANGED <<selected, view, pending, srv, shown, detail, draft, marks, labels, available>>

DeleteItem ==
    /\ Active /\ "deleting" \notin busy
    /\ busy' = busy \cup {"deleting"}
    /\ SendWrite("deleteItem", NoKey, "TODO")
    /\ UNCHANGED <<selected, view, pending, srv, shown, detail, draft, marks, labels, available>>

AttachLabel(x) ==
    /\ Active /\ available /\ x \notin labels.set \cup marks
    /\ labels' = [labels EXCEPT !.set = @ \cup {x}] /\ marks' = marks \cup {x}
    /\ SendWrite("attach", x, "TODO")
    /\ UNCHANGED <<selected, view, pending, srv, shown, detail, draft, busy, available>>

DetachLabel(x) ==
    /\ Active /\ x \in labels.set \ marks
    /\ labels' = [labels EXCEPT !.set = @ \ {x}] /\ marks' = marks \cup {x}
    /\ SendWrite("detach", x, "TODO")
    /\ UNCHANGED <<selected, view, pending, srv, shown, detail, draft, busy, available>>

SetTask(tasks, t, status) == [x \in DOMAIN tasks \cup {t} |-> IF x = t THEN status ELSE tasks[x]]
DropTask(tasks, t) == [x \in DOMAIN tasks \ {t} |-> tasks[x]]

CreateTask ==
    /\ Active /\ "creating" \notin busy
    /\ busy' = busy \cup {"creating"}
    /\ detail' = [detail EXCEPT !.tasks = SetTask(@, Temp, "TODO")]
    /\ SendWrite("createTask", Temp, "TODO")
    /\ UNCHANGED <<selected, view, pending, srv, shown, draft, marks, labels, available>>

\* previousTask is read right after setState, whose updater may not have run by then:
\* React runs it at once only if the component has no update left over.  Otherwise the
\* patch is shown and never sent.
PatchTask(t, status) ==
    /\ Active /\ t \in DOMAIN detail.tasks \ marks /\ status # detail.tasks[t]
    /\ detail' = [detail EXCEPT !.tasks[t] = status]
    /\ \/ marks' = marks \cup {t} /\ SendWrite("patchTask", t, status)
       \/ blurred' = blurred \cup Blur(shown, {"tasks"}) /\ UNCHANGED <<calls, started, marks>>
    /\ UNCHANGED <<selected, view, pending, srv, shown, draft, busy, labels, available>>

DeleteTask(t) ==
    /\ Active /\ t \in DOMAIN detail.tasks \ marks
    /\ detail' = [detail EXCEPT !.tasks = DropTask(@, t)]
    /\ marks' = marks \cup {t}
    /\ SendWrite("deleteTask", t, "TODO")
    /\ UNCHANGED <<selected, view, pending, srv, shown, draft, busy, labels, available>>

-----------------------------------------------------------------------------
(* The server, and another client *)

ChangedElsewhere(s, x) ==
    /\ srv.text[s] # x /\ Start
    /\ srv' = [srv EXCEPT !.text[s] = x]
    /\ blurred' = blurred \cup Blur(s, {"text"})
    /\ UNCHANGED <<selected, view, pending, calls, shown, detail, draft, busy, marks, labels, available>>

Snapshot(s) == [kind |-> "ok", for |-> s, story |-> s, text |-> srv.text[s],
                labels |-> srv.labels[s], tasks |-> srv.tasks[s]]
DetailFetchAnswered(c) ==
    /\ c.op = "load" /\ c.net = "sent"
    /\ \/ c.key \in srv.there /\ Answered(c, "ok", Snapshot(c.key))
       \/ Answered(c, "failed", Blank)
    /\ UNCHANGED <<selected, view, pending, started, srv, shown, detail, draft, busy, marks, labels, available, blurred>>

\* The server refuses what does not apply to what it has.  A task goes by its own id,
\* whatever its story is, and outlives it.
Applies(c) ==
    IF c.op \in {"patchTask", "deleteTask"} THEN \E s \in DetailStories : c.arg.id \in DOMAIN srv.tasks[s]
    ELSE /\ c.key \in srv.there
         /\ c.op = "attach" => c.arg.id \notin srv.labels[c.key]
         /\ c.op = "detach" => c.arg.id \in srv.labels[c.key]
NewTaskId(s) == CHOOSE t \in TaskIds : \A x \in DetailStories : t \notin DOMAIN srv.tasks[x]
CanCreate == \E t \in TaskIds : \A x \in DetailStories : t \notin DOMAIN srv.tasks[x]
Apply(c) ==
    LET s == c.key IN
    srv' = CASE c.op = "save"       -> [srv EXCEPT !.text[s] = c.arg.draft.text]
             [] c.op = "deleteItem" -> [srv EXCEPT !.there = @ \ {s}]
             [] c.op = "attach"     -> [srv EXCEPT !.labels[s] = @ \cup {c.arg.id}]
             [] c.op = "detach"     -> [srv EXCEPT !.labels[s] = @ \ {c.arg.id}]
             [] c.op = "createTask" -> [srv EXCEPT !.tasks[s] = SetTask(@, NewTaskId(s), "TODO")]
             [] c.op = "patchTask"  -> [srv EXCEPT !.tasks = [x \in DetailStories |->
                                           IF c.arg.id \in DOMAIN @[x] THEN SetTask(@[x], c.arg.id, c.arg.status) ELSE @[x]]]
             [] c.op = "deleteTask" -> [srv EXCEPT !.tasks = [x \in DetailStories |-> DropTask(@[x], c.arg.id)]]
             [] OTHER               -> srv
\* PATCH answers with the story but never with its labels; POST with the new task.
WriteAnswer(c) ==
    IF c.op = "createTask" THEN [Blank EXCEPT !.story = NewTaskId(c.key)]
    ELSE [Blank EXCEPT !.story = c.key, !.text = srv'.text[c.key]]
DetailWriteAnswered(c) ==
    /\ Writing(c) /\ c.net = "sent"
    /\ \/ /\ Applies(c) /\ (c.op = "createTask" => CanCreate) /\ Apply(c)
          /\ \/ Answered(c, "ok", WriteAnswer(c)) /\ UNCHANGED blurred
             \/ Answered(c, "failed", Blank) /\ blurred' = blurred \cup Blur(c.key, Sides)
       \/ Answered(c, "failed", Blank) /\ UNCHANGED <<srv, blurred>>
    /\ UNCHANGED <<selected, view, pending, started, shown, detail, draft, busy, marks, labels, available>>

-----------------------------------------------------------------------------
(* The handlers go on *)

StoryLoaded(c) ==
    /\ c.op = "load" /\ c.net # "sent"
    /\ LET d == IF c.net = "ok" THEN c.answer ELSE [Blank EXCEPT !.kind = "error", !.for = c.key]
       IN  /\ Render(shown, d, draft, calls \ {c}, TRUE)
           /\ labels' = IF d.labels = {} THEN labels ELSE LabelsOf(c.key, d.labels)
           /\ available' = (available /\ d.kind = "ok")
    /\ UNCHANGED <<selected, view, pending, started, srv, busy, marks, blurred>>

\* The labels to choose from have come, or not: the answer and its handler in one step,
\* for nothing changes them.  Those of the story are taken along.
LabelsLoaded(c) ==
    /\ c.op = "labels"
    /\ calls' = calls \ {c}
    /\ \/ available' = TRUE /\ labels' = [labels EXCEPT !.set = detail.labels] /\ UNCHANGED blurred
       \/ available' = FALSE /\ blurred' = blurred \cup Blur(shown, {"labels"}) /\ UNCHANGED labels
    /\ UNCHANGED <<selected, view, pending, started, srv, shown, detail, draft, busy, marks>>

\* The answer's story is put in whatever is loaded by now.
StorySaved(c) ==
    /\ c.op \in {"save", "status"} /\ c.net # "sent"
    /\ busy' = busy \ {"saving"}
    /\ LET saved == [detail EXCEPT !.story = c.answer.story, !.text = c.answer.text, !.labels = {}]
           mine == [for |-> c.answer.story, text |-> c.answer.text, typed |-> FALSE]
           d == IF c.net = "ok" /\ detail.kind = "ok" THEN saved ELSE detail
           dr == IF c.net = "ok" /\ c.op = "save" THEN mine ELSE draft
       IN  Render(shown, d, dr, calls \ {c}, c.net = "ok")
    /\ blurred' = IF c.net = "ok" THEN blurred \cup Blur(shown, {"labels"}) ELSE blurred
    /\ UNCHANGED <<selected, view, pending, started, srv, marks, labels, available>>

\* The dialog closes, whichever story it shows by now.
ItemDeleted(c) ==
    /\ c.op = "deleteItem" /\ c.net # "sent"
    /\ busy' = busy \ {"deleting"}
    /\ IF c.net = "ok"
       THEN Render(NoKey, detail, NoDraft, {d \in calls \ {c} : ~Fetching(d)}, FALSE) /\ ResetDetail
       ELSE calls' = calls \ {c} /\ UNCHANGED <<shown, detail, draft, marks, labels, available>>
    /\ UNCHANGED <<selected, view, pending, started, srv, blurred>>

\* Mutant: a refused label is not undone.
LabelStays(c) ==
    /\ c.op \in {"attach", "detach"} /\ c.net # "sent"
    /\ calls' = calls \ {c} /\ marks' = marks \ {c.arg.id}
    /\ UNCHANGED <<selected, view, pending, started, srv, shown, detail, draft, busy, labels, available, blurred>>

LabelDone(c) ==
    /\ c.op \in {"attach", "detach"} /\ c.net # "sent"
    /\ calls' = calls \ {c} /\ marks' = marks \ {c.arg.id}
    /\ labels' = IF c.net = "ok" THEN labels ELSE [labels EXCEPT !.set = c.old.labels]
    /\ UNCHANGED <<selected, view, pending, started, srv, shown, detail, draft, busy, available, blurred>>

\* replaceTask, removeTask, rollbackTaskPatch: by id, in the tasks of whatever is loaded;
\* a refused deletion puts back all the tasks it saw.
TasksAfter(c, tasks) ==
    LET t == c.arg.id IN
    IF t \notin DOMAIN tasks /\ c.op # "deleteTask" THEN tasks ELSE
    CASE c.op = "createTask" -> IF c.net = "ok" THEN SetTask(DropTask(tasks, t), c.answer.story, "TODO") ELSE DropTask(tasks, t)
      [] c.op = "patchTask"  -> SetTask(tasks, t, IF c.net = "ok" THEN c.arg.status ELSE c.old.tasks[t])
      [] c.op = "deleteTask" -> IF c.net = "ok" THEN tasks ELSE c.old.tasks
TaskDone(c) ==
    /\ c.op \in {"createTask", "patchTask", "deleteTask"} /\ c.net # "sent"
    /\ calls' = calls \ {c} /\ marks' = marks \ {c.arg.id}
    /\ busy' = IF c.op = "createTask" THEN busy \ {"creating"} ELSE busy
    /\ detail' = IF detail.kind = "ok" THEN [detail EXCEPT !.tasks = TasksAfter(c, @)] ELSE detail
    /\ UNCHANGED <<selected, view, pending, started, srv, shown, draft, labels, available, blurred>>

-----------------------------------------------------------------------------
DetailUser ==
    \/ \E s \in DetailStories : OpenDetail(s) \/ \E x \in Texts : ChangedElsewhere(s, x)
    \/ CloseDetail \/ CancelChanges \/ DeleteItem \/ CreateTask
    \/ \E x \in Texts : UpdateDraft(x)
    \/ \E op \in {"save", "status"} : SaveOrChangeStatus(op)
    \/ \E x \in Labels : AttachLabel(x) \/ DetachLabel(x)
    \/ \E t \in TaskIds \cup {Temp} : DeleteTask(t) \/ \E status \in TaskStatuses : PatchTask(t, status)
DetailAnswers ==
    \E c \in calls : \/ DetailFetchAnswered(c) \/ DetailWriteAnswered(c)
                     \/ StoryLoaded(c) \/ LabelsLoaded(c) \/ StorySaved(c) \/ ItemDeleted(c) \/ LabelDone(c) \/ TaskDone(c)
DetailNext == Mounted("detail") /\ (DetailUser \/ DetailAnswers)
DetailSpec == DetailInit /\ [][DetailNext]_detailVars

-----------------------------------------------------------------------------
(* Properties *)

TaskLists == UNION {[S -> TaskStatuses] : S \in SUBSET (TaskIds \cup {Temp})}
DetailKeys == DetailStories \cup {NoKey}

\* Types.
DetailTypeOK ==
    page = "detail" =>
    /\ selected = NoProject /\ view = NoView /\ pending = {} /\ started \in 0..MaxCalls
    /\ srv.text \in [DetailStories -> Texts] /\ srv.there \subseteq DetailStories
    /\ shown \in DetailKeys /\ available \in BOOLEAN
    /\ detail.kind \in {"loading", "ok", "error"} /\ detail.for \in DetailKeys /\ detail.story \in DetailKeys
    /\ detail.tasks \in TaskLists /\ detail.labels \subseteq Labels
    /\ draft \in [for : DetailKeys, text : Texts \cup {NoKey}, typed : BOOLEAN]
    /\ busy \subseteq {"saving", "deleting", "creating"} /\ marks \subseteq Labels \cup TaskIds \cup {Temp}
    /\ labels \in [of : DetailKeys, set : SUBSET Labels]
    /\ blurred \subseteq Sides \X DetailKeys

\* A save sends a draft of the story it is sent to, whichever stories were opened,
\* saved and closed before.
SavesItsOwnDraft == page = "detail" => \A c \in calls : c.op = "save" => c.arg.draft.for = c.key

\* Once every answer is in, an open story shows what the server has: changes that were
\* made stay, those that were refused are undone.  Excused are the sides of a story whose
\* requests overlapped or went to another story, whose answer was lost or that was changed
\* elsewhere, the labels after a save or without the labels to choose from, and a task
\* whose patch was not sent.
DetailAgreesWhenQuiet ==
    page = "detail" /\ calls = {} /\ Active =>
        /\ <<"text", shown>> \notin blurred => detail.story = shown /\ detail.text = srv.text[shown]
        /\ <<"labels", shown>> \notin blurred => labels.set = srv.labels[shown]
        /\ <<"tasks", shown>> \notin blurred => detail.tasks = srv.tasks[shown]

\* What the user typed goes when the user drops it, with the answer to a save or a
\* deletion, or with a late answer about another story; a load, a status change, a label
\* or a task of the story leaves it.  Unprotected is a draft of another story, seeded when
\* a late answer had put that story in the place of the one shown: the next load drops it.
TypedTextStays ==
    [][ draft.typed /\ ~draft'.typed =>
          \/ \E c \in calls \ calls' : c.op \in {"save", "deleteItem"} \/ c.key # shown
          \/ shown' = NoKey
          \/ calls' = calls /\ draft'.text = detail.text
          \/ draft.for # shown ]_detailVars
=============================================================================
