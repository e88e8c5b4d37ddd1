---------------------------- MODULE TimelinePage ----------------------------
(***************************************************************************)
(* The run timeline (src/apps/web/src/app/control-plane/timeline): the     *)
(* list of runs under a filter, the selected run and its events.  Both are *)
(* reloaded by effects that cancel nothing, so answers for an earlier      *)
(* filter or an earlier run are installed like the latest ones.            *)
(*                                                                         *)
(* The status stands for all filters: it reloads the runs, as the run-id   *)
(* search does, and the events, as the time range does.  Of the events     *)
(* only the run and the filter they were asked for are kept; the failure   *)
(* category and the selected event choose what is shown and are left out.  *)
(***************************************************************************)
EXTENDS PlanningPage

CONSTANTS
    TimelineRuns, RunStatuses,
    AnyStatus             \* no status filter

ASSUME TimelineAssumption == AnyStatus \notin RunStatuses /\ NoKey \notin TimelineRuns

VARIABLES
    statusFilter,
    runRows,              \* runs: what the panel lists
    chosenRun,            \* selectedRunId
    events,               \* the run and the filter the events in hand were fetched for
    runsLoading, timelineLoading,
    raced                 \* ghost: the answer that came last was not for what was selected then

timelineVars == <<pageVars, statusFilter, runRows, chosenRun, events, runsLoading, timelineLoading, raced>>

Filters == RunStatuses \cup {AnyStatus}
EventsOf(r, f) == [run |-> r, filter |-> f, ok |-> TRUE]
NoEvents == EventsOf(NoKey, AnyStatus)
FailedEvents == [NoEvents EXCEPT !.ok = FALSE]

TimelineCall(op, r, phase, f) == NewCall(op, r, selected, phase, f, NoKey)
EventLoads(cs) == {c \in cs : c.phase = "timeline"}

\* loadTimeline, as a closure over a run and a filter; without a run it clears the events.
LoadTimeline(op, r, f, kept) ==
    /\ UNCHANGED raced
    /\ IF r = NoKey
       THEN calls' = kept /\ events' = NoEvents /\ UNCHANGED timelineLoading
       ELSE calls' = kept \cup {TimelineCall(op, r, "timeline", f)} /\ timelineLoading' = TRUE /\ UNCHANGED events

-----------------------------------------------------------------------------
(* The user *)

\* The effects of the first render: no run is selected yet.
TimelineInit ==
    /\ Mount("timeline") /\ selected = NoProject
    /\ srv = NoItems
    /\ statusFilter = AnyStatus /\ runRows = {} /\ chosenRun = NoKey /\ events = NoEvents
    /\ runsLoading = TRUE /\ timelineLoading = FALSE /\ raced = FALSE
    /\ calls = {TimelineCall("runs", NoKey, "runs", AnyStatus)}

\* Both effects depend on the filter.
SetStatus(f) ==
    /\ f # statusFilter /\ Start
    /\ statusFilter' = f /\ runsLoading' = TRUE /\ UNCHANGED chosenRun
    /\ LoadTimeline("timeline", chosenRun, f, calls \cup {TimelineCall("runs", NoKey, "runs", f)})
    /\ UNCHANGED <<selected, view, pending, srv, runRows>>

\* Mutant: the selection does not load the events.
SelectRunOnly(r) ==
    /\ r \in runRows \ {chosenRun} /\ Start
    /\ chosenRun' = r
    /\ UNCHANGED <<selected, view, pending, calls, srv, statusFilter, runRows, events, runsLoading, timelineLoading, raced>>

SelectRun(r) ==
    /\ r \in runRows \ {chosenRun} /\ Start
    /\ chosenRun' = r /\ UNCHANGED statusFilter
    /\ LoadTimeline("timeline", r, statusFilter, calls)
    /\ UNCHANGED <<selected, view, pending, srv, runRows, runsLoading>>

\* The button of the run's detail.
RefreshEvents ==
    /\ chosenRun # NoKey /\ Start
    /\ UNCHANGED <<chosenRun, statusFilter>>
    /\ LoadTimeline("timeline", chosenRun, statusFilter, calls)
    /\ UNCHANGED <<selected, view, pending, srv, runRows, runsLoading>>

\* onRefresh keeps the loadTimeline of the render it was clicked in.  RefreshControl
\* takes one click at a time.
RefreshRuns ==
    /\ (\A c \in calls : c.op # "refresh") /\ Start
    /\ runsLoading' = TRUE
    /\ calls' = calls \cup {TimelineCall("refresh", chosenRun, "runs", statusFilter)}
    /\ UNCHANGED <<selected, view, pending, srv, statusFilter, runRows, chosenRun, events, timelineLoading, raced>>

-----------------------------------------------------------------------------
(* The server answers and the handlers go on, in one step: an answer depends on the *)
(* arguments of its request only, for the runs change all the time                  *)

\* Mutant: the selection outlives its row.
KeepChoice(listed) ==
    IF chosenRun # NoKey \/ listed = {} THEN chosenRun ELSE CHOOSE r \in listed : TRUE

\* The selected run stays selected if it is still listed; else the first one is.
NextChoice(listed) ==
    IF chosenRun \in listed THEN chosenRun ELSE IF listed = {} THEN NoKey ELSE CHOOSE r \in listed : TRUE

\* fetchRuns lists some runs, or fails and lists none.  A new selection loads its events;
\* a refresh goes on with the events of the selection it captured.
RunsLoaded(c) ==
    /\ c.phase = "runs"
    /\ \E listed \in SUBSET TimelineRuns : runRows' = listed /\ chosenRun' = NextChoice(listed)
    /\ runsLoading' = FALSE /\ UNCHANGED statusFilter
    /\ LET rest == calls \ {c}
           moved == chosenRun' # chosenRun
           effect == IF moved /\ chosenRun' # NoKey
                     THEN rest \cup {TimelineCall("timeline", chosenRun', "timeline", statusFilter)} ELSE rest
       IN  IF c.op = "refresh" /\ c.key # NoKey
           THEN /\ calls' = effect \cup {TimelineCall("refresh", c.key, "timeline", c.arg)}
                /\ timelineLoading' = TRUE
                /\ events' = IF moved /\ chosenRun' = NoKey THEN NoEvents ELSE events
                /\ UNCHANGED raced
           ELSE /\ calls' = effect
                /\ timelineLoading' = (timelineLoading \/ effect # rest)
                /\ events' = IF c.op = "refresh" \/ (moved /\ chosenRun' = NoKey) THEN NoEvents ELSE events
                /\ raced' = (raced \/ c.op = "refresh")
    /\ UNCHANGED <<selected, view, pending, started, srv>>

\* Installed whatever is selected by now; the spinner goes though another load may be out.
TimelineLoaded(c) ==
    /\ c.phase = "timeline"
    /\ calls' = calls \ {c} /\ timelineLoading' = FALSE
    /\ events' \in {EventsOf(c.key, c.arg), FailedEvents}
    /\ raced' = (c.key # chosenRun \/ c.arg # statusFilter)
    /\ UNCHANGED <<selected, view, pending, started, srv, statusFilter, runRows, chosenRun, runsLoading>>

TimelineUser ==
    \/ \E f \in Filters : SetStatus(f)
    \/ \E r \in TimelineRuns : SelectRun(r)
    \/ RefreshEvents \/ RefreshRuns
TimelineHandlers == \E c \in calls : RunsLoaded(c) \/ TimelineLoaded(c)

TimelineNext == Mounted("timeline") /\ (TimelineUser \/ TimelineHandlers)
TimelineSpec == TimelineInit /\ [][TimelineNext]_timelineVars

-----------------------------------------------------------------------------
(* Properties *)

\* Types; and a run is selected whenever runs are listed, one of them.
TimelineTypeOK ==
    page = "timeline" =>
    /\ selected = NoProject /\ view = NoView /\ pending = {} /\ started \in 0..MaxCalls
    /\ srv = NoItems /\ statusFilter \in Filters
    /\ runRows \subseteq TimelineRuns
    /\ chosenRun \in (IF runRows = {} THEN {NoKey} ELSE runRows)
    /\ events \in [run : TimelineRuns \cup {NoKey}, filter : Filters, ok : BOOLEAN]
    /\ runsLoading \in BOOLEAN /\ timelineLoading \in BOOLEAN /\ raced \in BOOLEAN

\* Once every answer is in, the events under a run's name are that run's events under
\* the filter that is set, or an error is shown: whichever loads overlapped and whichever
\* answer changed the selection.  Only an answer for an earlier selection that comes after
\* that for the present one, or a refresh that began without a selection, leaves others.
EventsBelongToRun ==
    page = "timeline" /\ calls = {} /\ chosenRun # NoKey /\ ~raced => events \in {EventsOf(chosenRun, statusFilter), FailedEvents}
=============================================================================
