---------------------------- MODULE PlanningPage ----------------------------
(***************************************************************************)
(* What the pages of the web UI have in common (src/apps/web/src/app): a   *)
(* selected project, a view fetched for one project, cards marked as       *)
(* pending, and handlers that wait for an answer of the server.            *)
(*                                                                         *)
(* JavaScript runs one handler at a time, so an action is the code between *)
(* two awaits.  A call is a handler that waits; it keeps what its closure  *)
(* captured.  The answer is taken at the server in one step and handled in *)
(* a later one, so answers arrive in any order.  Layout, wording and       *)
(* toasts are left out.                                                    *)
(***************************************************************************)
EXTENDS Naturals, FiniteSets

CONSTANTS
    Projects,
    NoProject,   \* all projects, or several, selected
    NoKey,       \* a call that is about no card
    MaxCalls     \* bound: calls and events of one behaviour

ASSUME PageAssumption == NoProject \notin Projects /\ MaxCalls \in Nat

VARIABLES
    page,        \* the page that is mounted; leaving it drops its state with it
    selected,    \* the single selected project
    view,        \* the page's fetched state: its kind, its project and its items
    pending,     \* the cards marked as pending
    calls,       \* the handlers that wait for an answer
    started,     \* calls and events so far
    srv          \* what the server holds

pageVars == <<page, selected, view, pending, calls, started, srv>>

NoItems == [k \in {} |-> 0]
View(kind, p, items) == [kind |-> kind, project |-> p, items |-> items]
NoView == View("no-project", NoProject, NoItems)

\* A page as it is mounted, the selected project aside; and its steps.
Mount(name) ==
    page = name /\ view = NoView /\ pending = {} /\ started = 0
Mounted(name) == page = name /\ UNCHANGED page

\* What a page shows: a view fetched for another project shows as loading.
ViewKind ==
    IF selected = NoProject THEN "no-project"
    ELSE IF view.project = selected THEN view.kind ELSE "loading"

Start == started < MaxCalls /\ started' = started + 1

\* A handler that has sent a request; arg and old are what its closure captured.
NewCall(op, key, p, phase, arg, old) ==
    [n |-> started, op |-> op, key |-> key, project |-> p, phase |-> phase, net |-> "sent",
     arg |-> arg, old |-> old, answer |-> NoView]
Fetching(c) == c.phase = "fetch"
Writing(c) == c.phase # "fetch"
CallsOf(key) == {c \in calls : c.key = key}

\* The server's answer is on its way back; the handler goes on to its next request.
Replace(c, d) == calls' = (calls \ {c}) \cup {d}
Answered(c, net, answer) == Replace(c, [c EXCEPT !.net = net, !.answer = answer])
Advance(c, phase) == [c EXCEPT !.phase = phase, !.net = "sent"]
Await(c, phase) == Replace(c, Advance(c, phase))
=============================================================================
