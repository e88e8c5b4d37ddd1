----------------------------- MODULE EpicsPage -----------------------------
(***************************************************************************)
(* The epics overview (src/apps/web/src/app/planning/epics-overview): the  *)
(* rows of a project under a filter, previews of the stories of expanded   *)
(* epics, fetched once and then patched, status changes, moves of stories  *)
(* between epics and the deletion of epics.  Search, statistics and        *)
(* sorting only choose what is shown and are left out; the forms are in    *)
(* module FormDialogs.                                                     *)
(***************************************************************************)
EXTENDS PlanningPage

CONSTANTS
    Epics, EpicStories,
    NoEpic,              \* a story without an epic, no epic being deleted
    EpicProject,         \* the project of an epic
    Labelled,            \* the epics the filter keeps
    EpicStatuses,
    InitialEpics,        \* what the server may start with
    MaxPreviews          \* bound: fetches of previews under way when the user unfolds an epic

ASSUME EpicsAssumption ==
    /\ EpicProject \in [Epics -> Projects] /\ Labelled \subseteq Epics
    /\ NoEpic \notin Epics /\ NoKey \notin Epics \cup EpicStories
    /\ InitialEpics \subseteq [parent : [EpicStories -> Epics \cup {NoEpic}],
                              status : [EpicStories -> EpicStatuses], epics : SUBSET Epics]

VARIABLES
    filter,      \* "all", or "label": only some epics are asked for
    expanded,    \* the epics unfolded
    previews,    \* an epic's preview: its kind and the stories with their statuses
    inFlight,    \* previewFetchInFlightRef: <<project or none, epic>> of the fetches under way
    deleting,    \* the epic in the delete dialog, and whether it was confirmed
    moving,      \* isMoving of the dialog for moves, which stays mounted
    hazy         \* ghost: stories with two changes at once, a change that was lost or was followed by
                 \*        an older preview, or a move

epicsVars == <<pageVars, filter, expanded, previews, inFlight, deleting, moving, hazy>>

Preview(kind, stories) == [kind |-> kind, stories |-> stories]
Idle == Preview("idle", NoItems)
Closed == [epic |-> NoEpic, submitting |-> FALSE]

\* The page does not keep the project its rows were fetched for: rows of another
\* project are shown like its own.
EpicsViewKind ==
    IF selected = NoProject THEN "no-project"
    ELSE IF view.kind = "no-project" THEN "loading" ELSE view.kind
Rows(v) == IF v.kind = "ok" THEN DOMAIN v.items ELSE {}

\* fetchOverview: the rows with their number of stories.
FetchOverview(p, f) ==
    View("ok", p, [e \in {x \in srv.epics : EpicProject[x] = p /\ (f = "label" => x \in Labelled)} |->
                      Cardinality({s \in EpicStories : srv.parent[s] = e})])
\* fetchStoriesPreview asks for the stories of an epic in a project, or in any.
FetchStoriesPreview(p, e) ==
    View("ready", p, [s \in {x \in EpicStories : srv.parent[x] = e /\ p \in {NoProject, EpicProject[e]}} |->
                         srv.status[s]])

-----------------------------------------------------------------------------
(* Calls *)

EpicArg(f, e, value) == [filter |-> f, epic |-> e, value |-> value]
NoEpicArg == EpicArg(filter, NoEpic, NoEpic)
EpicCall(op, key, p, phase, arg) == NewCall(op, key, p, phase, arg, NoEpicArg)
Previewing(cs) == {c \in cs : c.op = "preview"}

\* ensurePreviewLoaded, for each unfolded epic that is in the rows, unless its preview is
\* there or being fetched for the project; the other calls are kept.
EnsurePreviews(p, v, open, loaded, flight, kept) ==
    LET missing == {e \in open \cap Rows(v) : loaded[e].kind # "ready" /\ <<p, e>> \notin flight}
    IN  /\ calls' = kept \cup {EpicCall("preview", e, p, "fetch", NoEpicArg) : e \in missing}
        /\ previews' = [e \in Epics |-> IF e \in missing THEN Preview("loading", NoItems) ELSE loaded[e]]
        /\ inFlight' = flight \cup {<<p, e>> : e \in missing}

-----------------------------------------------------------------------------
(* The user *)

EpicsInit ==
    /\ Mount("epics") /\ selected = NoProject /\ calls = {}
    /\ srv \in InitialEpics
    /\ filter = "all" /\ expanded = {} /\ previews = [e \in Epics |-> Idle]
    /\ inFlight = {} /\ deleting = Closed /\ moving = FALSE /\ hazy = {}

\* The load effect of a project or a filter cancels the previous load, and only that.
Loading(p, f) ==
    LET kept == {c \in calls : c.op # "load"}
    IN  IF p = NoProject THEN kept
        ELSE kept \cup {EpicCall("load", NoKey, p, "fetch", EpicArg(f, NoEpic, NoEpic))}

\* A new project resets everything but a move.  In the same commit the preview effect
\* runs again, for ensurePreviewLoaded is new: with the rows and the unfolded epics of the
\* render, which are those of the project left, but for the new project, or for none.
SelectEpicsProject(p) ==
    /\ deleting = Closed /\ p # selected /\ Start
    /\ selected' = p
    /\ view' = IF p = NoProject THEN NoView ELSE View("loading", p, NoItems)
    /\ expanded' = {} /\ pending' = {}
    /\ EnsurePreviews(p, view, expanded, [e \in Epics |-> Idle], {}, Loading(p, filter))
    /\ UNCHANGED <<srv, filter, deleting, moving, hazy>>

SetEpicsFilter ==
    /\ deleting = Closed /\ EpicsViewKind = "ok" /\ Start
    /\ filter' = IF filter = "all" THEN "label" ELSE "all"
    /\ calls' = Loading(selected, filter')
    /\ UNCHANGED <<selected, view, pending, srv, expanded, previews, inFlight, deleting, moving, hazy>>

\* refreshCurrentView: the refresh control, and a dialog that saved.
RefreshEpics ==
    /\ selected # NoProject /\ Start
    /\ calls' = calls \cup {EpicCall("refresh", NoKey, selected, "fetch", NoEpicArg)}
    /\ UNCHANGED <<selected, view, pending, srv, filter, expanded, previews, inFlight, deleting, moving, hazy>>

HandleToggleExpand(e) ==
    /\ deleting = Closed /\ EpicsViewKind = "ok" /\ e \in Rows(view)
    /\ e \in expanded \/ Cardinality(Previewing(calls)) < MaxPreviews
    /\ expanded' = IF e \in expanded THEN expanded \ {e} ELSE expanded \cup {e}
    /\ EnsurePreviews(selected, view, expanded', previews, inFlight, calls)
    /\ UNCHANGED <<selected, view, pending, started, srv, filter, deleting, moving, hazy>>

Previewed(e, s) ==
    /\ deleting = Closed /\ EpicsViewKind = "ok" /\ e \in Rows(view) \cap expanded
    /\ s \in DOMAIN previews[e].stories /\ s \notin pending

HandleChangeStoryStatus(e, s, status) ==
    /\ Previewed(e, s) /\ status # previews[e].stories[s] /\ Start
    /\ pending' = pending \cup {s}
    /\ calls' = calls \cup {EpicCall("status", s, selected, "status", EpicArg(filter, e, status))}
    /\ hazy' = IF CallsOf(s) = {} THEN hazy ELSE hazy \cup {s}
    /\ UNCHANGED <<selected, view, srv, filter, expanded, previews, inFlight, deleting, moving>>

\* handleConfirm of the dialog: one move at a time, though Escape closes the dialog
\* while one is under way.
MoveToEpic(e, s, to) ==
    /\ Previewed(e, s) /\ ~moving /\ to \in Rows(view) \ {e} /\ Start
    /\ moving' = TRUE
    /\ calls' = calls \cup {EpicCall("move", s, selected, "move", EpicArg(filter, e, to))}
    /\ hazy' = hazy \cup {s}
    /\ UNCHANGED <<selected, view, pending, srv, filter, expanded, previews, inFlight, deleting>>

\* handleDeleteEpic refuses an epic whose row counts stories.
OpenDeleteEpic(e) ==
    /\ deleting = Closed /\ EpicsViewKind = "ok" /\ e \in Rows(view) /\ view.items[e] = 0
    /\ deleting' = [epic |-> e, submitting |-> FALSE]
    /\ UNCHANGED <<pageVars, filter, expanded, previews, inFlight, moving, hazy>>

ConfirmDeleteEpic ==
    /\ deleting.epic # NoEpic /\ ~deleting.submitting /\ Start
    /\ deleting' = [deleting EXCEPT !.submitting = TRUE]
    /\ calls' = calls \cup {EpicCall("deleteEpic", deleting.epic, selected, "delete", NoEpicArg)}
    /\ UNCHANGED <<selected, view, pending, srv, filter, expanded, previews, inFlight, moving, hazy>>

\* reduceDeleteConfirmPhase: a deletion that was confirmed cannot be cancelled.
CancelDeleteEpic ==
    /\ deleting.epic # NoEpic /\ ~deleting.submitting
    /\ deleting' = Closed
    /\ UNCHANGED <<pageVars, filter, expanded, previews, inFlight, moving, hazy>>

-----------------------------------------------------------------------------
(* The server; it deletes an epic whether or not stories are left under it *)

EpicsFetchAnswered(c) ==
    /\ Fetching(c) /\ c.net = "sent"
    /\ \/ Answered(c, "ok", IF c.op = "preview" THEN FetchStoriesPreview(c.project, c.key)
                            ELSE FetchOverview(c.project, c.arg.filter))
       \/ Answered(c, "failed", NoView)
    /\ UNCHANGED <<selected, view, pending, started, srv, filter, expanded, previews, inFlight, deleting, moving, hazy>>

EpicWrite(c) ==
    CASE c.phase = "status" -> [srv EXCEPT !.status[c.key] = c.arg.value]
      [] c.phase = "move"   -> [srv EXCEPT !.parent[c.key] = c.arg.value]
      [] c.phase = "delete" -> [srv EXCEPT !.epics = @ \ {c.key},
                                           !.parent = [s \in EpicStories |-> IF @[s] = c.key THEN NoEpic ELSE @[s]]]
\* A write that was made may be reported as failed, when its answer is lost.
EpicsWriteAnswered(c) ==
    /\ Writing(c) /\ c.net = "sent"
    /\ \/ /\ c.phase = "move" => c.arg.value \in srv.epics
          /\ srv' = EpicWrite(c)
          /\ \/ Answered(c, "ok", NoView) /\ UNCHANGED hazy
             \/ Answered(c, "failed", NoView) /\ hazy' = hazy \cup ({c.key} \cap EpicStories)
       \/ Answered(c, "failed", NoView) /\ UNCHANGED <<srv, hazy>>
    /\ UNCHANGED <<selected, view, pending, started, filter, expanded, previews, inFlight, deleting, moving>>

-----------------------------------------------------------------------------
(* The handlers go on *)

\* setState with new rows, and the preview effect that follows it.
ShowRows(c) ==
    /\ view' = c.answer
    /\ EnsurePreviews(selected, c.answer, expanded, previews, inFlight, calls \ {c})

OverviewLoaded(c) ==
    /\ c.op = "load" /\ c.net # "sent"
    /\ IF c.net = "ok" THEN ShowRows(c)
       ELSE /\ view' = View("error", c.project, NoItems) /\ calls' = calls \ {c}
            /\ UNCHANGED <<previews, inFlight>>
    /\ UNCHANGED <<selected, pending, started, srv, filter, expanded, deleting, moving, hazy>>

\* A refetch installs its rows whatever is selected by now; the one after a move ends it.
OverviewRefreshed(c) ==
    /\ c.op \in {"refresh", "move", "deleteEpic"} /\ c.phase = "fetch" /\ c.net # "sent"
    /\ IF c.net = "ok" THEN ShowRows(c)
       ELSE calls' = calls \ {c} /\ UNCHANGED <<view, previews, inFlight>>
    /\ moving' = (moving /\ c.op # "move")
    /\ UNCHANGED <<selected, pending, started, srv, filter, expanded, deleting, hazy>>

\* Mutant: a failure is not shown.
PreviewLoadedOnly(c) ==
    /\ c.op = "preview" /\ c.net # "sent"
    /\ calls' = calls \ {c} /\ inFlight' = inFlight \ {<<c.project, c.key>>}
    /\ previews' = IF c.project # selected \/ c.net # "ok" THEN previews
                   ELSE [previews EXCEPT ![c.key] = Preview("ready", c.answer.items)]
    /\ UNCHANGED <<selected, view, pending, started, srv, filter, expanded, deleting, moving, hazy>>

\* An answer for a project the user has left is dropped.
PreviewLoaded(c) ==
    /\ c.op = "preview" /\ c.net # "sent"
    /\ calls' = calls \ {c}
    /\ previews' = IF c.project # selected THEN previews
                   ELSE [previews EXCEPT ![c.key] = IF c.net = "ok" THEN Preview("ready", c.answer.items)
                                                    ELSE Preview("error", NoItems)]
    /\ inFlight' = inFlight \ {<<c.project, c.key>>}
    /\ UNCHANGED <<selected, view, pending, started, srv, filter, expanded, deleting, moving, hazy>>

\* The answers still to be shown that were taken before the change of c.
OlderPreviews(c) ==
    {d \in Previewing(calls) : /\ d.net = "ok" /\ c.key \in DOMAIN d.answer.items
                               /\ d.answer.items[c.key] # c.arg.value}
Outdated(c) == IF c.net = "ok" /\ OlderPreviews(c) # {} THEN {c.key} ELSE {}

\* Mutant: the preview is not patched.
EpicStatusUnpatched(c) ==
    /\ c.op = "status" /\ c.net # "sent"
    /\ calls' = calls \ {c} /\ pending' = pending \ {c.key}
    /\ hazy' = hazy \cup Outdated(c)
    /\ UNCHANGED <<selected, view, started, srv, filter, expanded, previews, inFlight, deleting, moving>>

\* updateCachedStory patches the preview in place; the row is not fetched again.
EpicStatusDone(c) ==
    /\ c.op = "status" /\ c.net # "sent"
    /\ calls' = calls \ {c}
    /\ pending' = pending \ {c.key}
    /\ previews' = IF c.net = "ok" /\ c.key \in DOMAIN previews[c.arg.epic].stories
                   THEN [previews EXCEPT ![c.arg.epic].stories[c.key] = c.arg.value] ELSE previews
    /\ hazy' = hazy \cup Outdated(c)
    /\ UNCHANGED <<selected, view, started, srv, filter, expanded, inFlight, deleting, moving>>

EpicMoved(c) ==
    /\ c.op = "move" /\ c.phase = "move" /\ c.net # "sent"
    /\ IF c.net = "ok" THEN Await(c, "fetch") /\ UNCHANGED moving ELSE calls' = calls \ {c} /\ moving' = FALSE
    /\ UNCHANGED <<selected, view, pending, started, srv, filter, expanded, previews, inFlight, deleting, hazy>>

EpicDeleted(c) ==
    /\ c.op = "deleteEpic" /\ c.phase = "delete" /\ c.net # "sent"
    /\ IF c.net = "ok" THEN Await(c, "fetch") /\ deleting' = Closed
       ELSE calls' = calls \ {c} /\ deleting' = [deleting EXCEPT !.submitting = FALSE]
    /\ UNCHANGED <<selected, view, pending, started, srv, filter, expanded, previews, inFlight, moving, hazy>>

-----------------------------------------------------------------------------
EpicsUser ==
    \/ \E p \in Projects \cup {NoProject} : SelectEpicsProject(p)
    \/ SetEpicsFilter \/ RefreshEpics \/ ConfirmDeleteEpic \/ CancelDeleteEpic
    \/ \E e \in Epics :
         \/ HandleToggleExpand(e) \/ OpenDeleteEpic(e)
         \/ \E s \in EpicStories :
              (\E to \in Epics : MoveToEpic(e, s, to)) \/ \E status \in EpicStatuses : HandleChangeStoryStatus(e, s, status)
EpicsServer == \E c \in calls : EpicsFetchAnswered(c) \/ EpicsWriteAnswered(c)
EpicsHandlers ==
    \E c \in calls :
        \/ OverviewLoaded(c) \/ OverviewRefreshed(c) \/ PreviewLoaded(c)
        \/ EpicStatusDone(c) \/ EpicMoved(c) \/ EpicDeleted(c)

EpicsNext == Mounted("epics") /\ (EpicsUser \/ EpicsServer \/ EpicsHandlers)
EpicsSpec == EpicsInit /\ [][EpicsNext]_epicsVars

-----------------------------------------------------------------------------
(* Properties *)

\* Types.
EpicsTypeOK ==
    page = "epics" =>
    /\ view.kind \in {"no-project", "loading", "ok", "error"} /\ Rows(view) \subseteq Epics
    /\ expanded \subseteq Epics /\ inFlight \subseteq (Projects \cup {NoProject}) \X Epics
    /\ \A e \in Epics : /\ previews[e].kind \in {"idle", "loading", "ready", "error"}
                        /\ DOMAIN previews[e].stories \subseteq EpicStories
    /\ deleting \in [epic : Epics \cup {NoEpic}, submitting : BOOLEAN] /\ moving \in BOOLEAN
    /\ srv.parent \in [EpicStories -> Epics \cup {NoEpic}] /\ srv.epics \subseteq Epics
    /\ pending \subseteq EpicStories /\ hazy \subseteq EpicStories

\* No preview shows its spinner for ever: an unfolded epic without stories to show has a
\* fetch under way for the selected project, however often the user left the project and
\* came back.
PreviewSpinnerEnds ==
    page = "epics" => \A e \in expanded \cap Rows(view) : previews[e].kind \in {"idle", "loading"} =>
        \E c \in Previewing(calls) : c.key = e /\ c.project = selected

\* A preview that is fetched once and then patched stays right, in whatever order fetches
\* and changes are answered: when every answer is in, it shows its stories' statuses as the
\* server has them.  The code leaves four ways out: an answer that was taken before a change
\* and is shown after it, two changes of a story at once (a switch of project takes the
\* mark away), a change reported as failed that was made, and a story that moved.
PreviewAgreesWhenQuiet ==
    page = "epics" /\ calls = {} =>
        \A e \in Epics : \A s \in DOMAIN previews[e].stories \ hazy : previews[e].stories[s] = srv.status[s]
=============================================================================
