----------------------------- MODULE BoardPage -----------------------------
(***************************************************************************)
(* The active-sprint board (src/apps/web/src/app/planning/board): what the *)
(* page shows, the changes it makes before the server has agreed, and the  *)
(* answers that arrive in any order.  The assignee override and the epic   *)
(* targets are left out; a rank is a member of a small set (module         *)
(* LexoRank computes it).                                                  *)
(***************************************************************************)
EXTENDS PlanningPage

CONSTANTS
    Stories,
    InitialStories,      \* the stories the server may start with
    StoryProject,        \* the project a story's sprint belongs to
    Statuses, Ranks,
    NoRank               \* a drop without a placement

ASSUME BoardAssumption ==
    /\ InitialStories \subseteq [Stories -> [status : Statuses, rank : Ranks]]
    /\ StoryProject \in [Stories -> Projects]
    /\ Statuses # {} /\ NoRank \notin Ranks /\ NoKey \notin Stories

VARIABLES
    filtered,    \* a filter is active: cards may be hidden
    sprintOn,    \* the projects with an active sprint
    overlap,     \* ghost: stories with a change that overlapped another request or whose fate is unknown
    cleared,     \* ghost: stories whose pending mark a refetch removed while a change was out
    strayed      \* ghost: an answer for a project no longer selected was installed

boardVars == <<pageVars, filtered, sprintOn, overlap, cleared, strayed>>

Story == [status : Statuses, rank : Ranks]
Items == UNION {[S -> Story] : S \in SUBSET Stories}

\* fetchBoardState: no active sprint is a 404, and a state of its own.
FetchBoardState(p) ==
    IF p \in sprintOn
    THEN View("ok", p, [s \in {t \in DOMAIN srv : StoryProject[t] = p} |-> srv[s]])
    ELSE View("no-sprint", p, NoItems)

\* applyOptimisticStoryStatus and applyOptimisticStoryRank change a story only where
\* it is shown.
WithStory(b, s, status, rank) ==
    IF b.kind # "ok" \/ s \notin DOMAIN b.items THEN b
    ELSE [b EXCEPT !.items[s] = [status |-> status, rank |-> IF rank = NoRank THEN @.rank ELSE rank]]
WithRank(b, s, rank) ==
    IF b.kind # "ok" \/ s \notin DOMAIN b.items THEN b ELSE [b EXCEPT !.items[s].rank = rank]

-----------------------------------------------------------------------------
(* Calls *)

BoardOps == {"load", "refresh", "lifecycle", "status", "reorder", "delete"}
BoardPhases == {"fetch", "status", "rank", "delete"}
Placing == [status : Statuses, rank : Ranks \cup {NoRank}]
BoardView == [kind : {"no-project", "no-sprint", "ok", "error"}, project : Projects \cup {NoProject}, items : Items]
BoardCall == [n : Nat, op : BoardOps, key : Stories \cup {NoKey}, project : Projects, phase : BoardPhases,
              net : {"sent", "ok", "failed"}, arg : Placing, old : Placing, answer : BoardView]

Fetches == {c \in calls : Fetching(c)}
WritesOf(s) == {c \in CallsOf(s) : Writing(c)}
InFlight(cs) == {c.key : c \in {d \in cs : Writing(d)}}

\* A fetch is about no story; its placing is not used.
AnyPlacing == CHOOSE x \in Placing : TRUE

BeginFetch(op, p, kept) ==
    /\ calls' = kept \cup {NewCall(op, NoKey, p, "fetch", AnyPlacing, AnyPlacing)}
    /\ overlap' = overlap \cup InFlight(kept)
BeginWrite(op, s, phase, status, rank) ==
    /\ Start
    /\ calls' = calls \cup {NewCall(op, s, view.project, phase, [status |-> status, rank |-> rank], view.items[s])}
    /\ overlap' = IF Fetches # {} \/ WritesOf(s) # {} THEN overlap \cup {s} ELSE overlap
    /\ pending' = pending \cup {s}

\* setPendingStoryIds({}): no card is marked any more, whatever is still out.
ClearPending == pending' = {} /\ cleared' = cleared \cup pending

-----------------------------------------------------------------------------
(* What the user and the page start *)

BoardInit ==
    /\ Mount("board") /\ selected = NoProject /\ filtered = FALSE /\ calls = {}
    /\ srv \in InitialStories /\ sprintOn = Projects
    /\ overlap = {} /\ cleared = {} /\ strayed = FALSE

\* Mutant: the previous load is not cancelled.
SelectUncancelled(p) ==
    /\ p # selected /\ Start
    /\ selected' = p /\ strayed' = FALSE
    /\ IF p = NoProject THEN UNCHANGED <<calls, overlap>> ELSE BeginFetch("load", p, calls)
    /\ UNCHANGED <<filtered, view, pending, srv, sprintOn, cleared>>

\* The project selector.  The load effect cancels the previous load, and only that:
\* every other call goes on and may still set the page's state.
SelectBoardProject(p) ==
    /\ p # selected /\ Start
    /\ selected' = p
    /\ LET kept == {c \in calls : c.op # "load"}
       IN  IF p = NoProject THEN calls' = kept /\ UNCHANGED overlap
           ELSE BeginFetch("load", p, kept)
    /\ strayed' = FALSE
    /\ UNCHANGED <<filtered, view, pending, srv, sprintOn, cleared>>

SetFilter ==
    /\ ViewKind = "ok"
    /\ filtered' = ~filtered
    /\ UNCHANGED <<pageVars, sprintOn, overlap, cleared, strayed>>

\* refreshCurrentView, from the refresh control, a dialog or a created item.
RefreshBoard ==
    /\ selected # NoProject /\ Start
    /\ ClearPending
    /\ BeginFetch("refresh", selected, calls)
    /\ UNCHANGED <<selected, filtered, view, srv, sprintOn, strayed>>

\* A sprint starts or completes in another tab; the event is heard if its project is
\* the selected one.
SprintLifecycle(p) ==
    /\ Start
    /\ sprintOn' = IF p \in sprintOn THEN sprintOn \ {p} ELSE sprintOn \cup {p}
    /\ IF p = selected THEN BeginFetch("lifecycle", p, calls) ELSE UNCHANGED <<calls, overlap>>
    /\ UNCHANGED <<selected, filtered, view, pending, srv, cleared, strayed>>

\* Mutant: a marked card takes another change.
CardShown(s) == ViewKind = "ok" /\ s \in DOMAIN view.items

CardEnabled(s) == ViewKind = "ok" /\ s \in DOMAIN view.items /\ s \notin pending

\* A drop on another column, or a status picked from the card's menu: status and rank
\* are shown at once.
HandleStoryStatusChange(s, status, rank) ==
    /\ CardEnabled(s) /\ ~filtered
    /\ view.items[s].status # status
    /\ view' = WithStory(view, s, status, rank)
    /\ BeginWrite("status", s, "status", status, rank)
    /\ UNCHANGED <<selected, filtered, srv, sprintOn, cleared, strayed>>

\* A drop within the column.
HandleStoryReorder(s, rank) ==
    /\ CardEnabled(s) /\ ~filtered
    /\ view' = WithRank(view, s, rank)
    /\ BeginWrite("reorder", s, "rank", view.items[s].status, rank)
    /\ UNCHANGED <<selected, filtered, srv, sprintOn, cleared, strayed>>

HandleStoryDelete(s) ==
    /\ CardEnabled(s)
    /\ BeginWrite("delete", s, "delete", view.items[s].status, NoRank)
    /\ UNCHANGED <<selected, filtered, view, srv, sprintOn, cleared, strayed>>

-----------------------------------------------------------------------------
(* The server answers *)

BoardFetchAnswered(c) ==
    /\ Fetching(c) /\ c.net = "sent"
    /\ \/ Answered(c, "ok", FetchBoardState(c.project))
       \/ Answered(c, "failed", NoView)
    /\ UNCHANGED <<selected, view, pending, started, srv, filtered, sprintOn, overlap, cleared, strayed>>

\* A write is made or refused; one that was made may be reported as failed, when the
\* answer is lost.
Patch(c) ==
    CASE c.phase = "status" -> srv' = [srv EXCEPT ![c.key].status = c.arg.status]
      [] c.phase = "rank"   -> srv' = [srv EXCEPT ![c.key].rank = c.arg.rank]
      [] c.phase = "delete" -> srv' = [s \in DOMAIN srv \ {c.key} |-> srv[s]]
BoardWriteAnswered(c) ==
    /\ Writing(c) /\ c.net = "sent"
    /\ \/ /\ c.key \in DOMAIN srv /\ Patch(c)
          /\ \/ Answered(c, "ok", NoView) /\ UNCHANGED overlap
             \/ Answered(c, "failed", NoView) /\ overlap' = overlap \cup {c.key}
       \/ Answered(c, "failed", NoView) /\ UNCHANGED <<srv, overlap>>
    /\ UNCHANGED <<selected, view, pending, started, filtered, sprintOn, cleared, strayed>>

-----------------------------------------------------------------------------
(* The handlers go on *)

\* setState(nextState) of a fetch nothing cancelled.
Install(c) == view' = c.answer /\ strayed' = (strayed \/ c.project # selected)
\* Mutant: the mark goes on success only.
EndIfOk(c) == calls' = calls \ {c} /\ pending' = IF c.net = "ok" THEN pending \ {c.key} ELSE pending

\* The finally block: the card's mark goes.
End(c) == calls' = calls \ {c} /\ pending' = pending \ {c.key}

LoadDone(c) ==
    /\ c.op = "load" /\ c.net # "sent"
    /\ calls' = calls \ {c}
    /\ strayed' = FALSE
    /\ IF c.net = "ok" THEN view' = c.answer /\ ClearPending
       ELSE view' = View("error", c.project, NoItems) /\ UNCHANGED <<pending, cleared>>
    /\ UNCHANGED <<selected, started, srv, filtered, sprintOn, overlap>>

RefreshDone(c) ==
    /\ c.op = "refresh" /\ c.net # "sent"
    /\ calls' = calls \ {c}
    /\ IF c.net = "ok" THEN Install(c) ELSE UNCHANGED <<view, strayed>>
    /\ UNCHANGED <<selected, pending, started, srv, filtered, sprintOn, overlap, cleared>>

LifecycleDone(c) ==
    /\ c.op = "lifecycle" /\ c.net # "sent"
    /\ calls' = calls \ {c}
    /\ IF c.net = "ok" THEN Install(c) /\ ClearPending ELSE UNCHANGED <<view, strayed, pending, cleared>>
    /\ UNCHANGED <<selected, started, srv, filtered, sprintOn, overlap>>

\* The status is saved; the rank, if the drop had one, is saved next.
StatusSaved(c) ==
    /\ c.op = "status" /\ c.phase = "status" /\ c.net = "ok"
    /\ IF c.arg.rank = NoRank THEN End(c) ELSE Await(c, "rank") /\ UNCHANGED pending
    /\ UNCHANGED <<selected, view, started, srv, filtered, sprintOn, overlap, cleared, strayed>>

\* The status is refused: both values the handler captured come back.
StatusFailed(c) ==
    /\ c.op = "status" /\ c.phase = "status" /\ c.net = "failed"
    /\ view' = WithStory(view, c.key, c.old.status, IF c.arg.rank = NoRank THEN NoRank ELSE c.old.rank)
    /\ End(c)
    /\ UNCHANGED <<selected, started, srv, filtered, sprintOn, overlap, cleared, strayed>>

\* The rank of a status change: saved, or the view is refetched with the status kept.
StatusRankDone(c) ==
    /\ c.op = "status" /\ c.phase = "rank" /\ c.net # "sent"
    /\ IF c.net = "ok" THEN End(c) /\ UNCHANGED <<cleared, overlap>>
       ELSE ClearPending /\ Await(c, "fetch") /\ overlap' = overlap \cup InFlight(calls \ {c})
    /\ UNCHANGED <<selected, view, started, srv, filtered, sprintOn, strayed>>

\* If that refetch fails too, the optimistic state is left.
StatusRefetched(c) ==
    /\ c.op = "status" /\ c.phase = "fetch" /\ c.net # "sent"
    /\ IF c.net = "ok" THEN Install(c) /\ UNCHANGED overlap
       ELSE overlap' = overlap \cup {c.key} /\ UNCHANGED <<view, strayed>>
    /\ End(c)
    /\ UNCHANGED <<selected, started, srv, filtered, sprintOn, cleared>>

\* Mutant: a refused order stays on the board.
ReorderStays(c) ==
    /\ c.op = "reorder" /\ c.net # "sent"
    /\ End(c)
    /\ UNCHANGED <<selected, view, started, srv, filtered, sprintOn, overlap, cleared, strayed>>

ReorderDone(c) ==
    /\ c.op = "reorder" /\ c.net # "sent"
    /\ view' = IF c.net = "ok" THEN view ELSE WithRank(view, c.key, c.old.rank)
    /\ End(c)
    /\ UNCHANGED <<selected, started, srv, filtered, sprintOn, overlap, cleared, strayed>>

DeleteDone(c) ==
    /\ c.op = "delete" /\ c.phase = "delete" /\ c.net # "sent"
    /\ IF c.net = "failed" THEN End(c) /\ UNCHANGED overlap
       ELSE Await(c, "fetch") /\ overlap' = overlap \cup InFlight(calls \ {c}) /\ UNCHANGED pending
    /\ UNCHANGED <<selected, view, started, srv, filtered, sprintOn, cleared, strayed>>

\* After a deletion the board of the project it was started from is installed; if the
\* refetch fails the story stays on the board.
DeleteRefetched(c) ==
    /\ c.op = "delete" /\ c.phase = "fetch" /\ c.net # "sent"
    /\ calls' = calls \ {c}
    /\ IF c.net = "ok" THEN Install(c) /\ ClearPending /\ UNCHANGED overlap
       ELSE /\ pending' = pending \ {c.key}
            /\ overlap' = overlap \cup {c.key}
            /\ UNCHANGED <<view, strayed, cleared>>
    /\ UNCHANGED <<selected, started, srv, filtered, sprintOn>>

-----------------------------------------------------------------------------
BoardUser ==
    \/ \E p \in Projects \cup {NoProject} : SelectBoardProject(p)
    \/ SetFilter
    \/ RefreshBoard
    \/ \E p \in Projects : SprintLifecycle(p)
    \/ \E s \in Stories :
         \/ \E status \in Statuses, rank \in Ranks \cup {NoRank} : HandleStoryStatusChange(s, status, rank)
         \/ \E rank \in Ranks : HandleStoryReorder(s, rank)
         \/ HandleStoryDelete(s)

BoardServer == \E c \in calls : BoardFetchAnswered(c) \/ BoardWriteAnswered(c)

BoardHandlers ==
    \E c \in calls :
        \/ LoadDone(c) \/ RefreshDone(c) \/ LifecycleDone(c)
        \/ StatusSaved(c) \/ StatusFailed(c) \/ StatusRankDone(c) \/ StatusRefetched(c)
        \/ ReorderDone(c) \/ DeleteDone(c) \/ DeleteRefetched(c)

BoardNext == Mounted("board") /\ (BoardUser \/ BoardServer \/ BoardHandlers)
BoardSpec == BoardInit /\ [][BoardNext]_boardVars

-----------------------------------------------------------------------------
(* Properties *)

\* Types.
BoardTypeOK ==
    page = "board" =>
    /\ selected \in Projects \cup {NoProject}
    /\ view \in BoardView
    /\ calls \subseteq BoardCall
    /\ \E S \in SUBSET Stories : srv \in [S -> Story]
    /\ sprintOn \subseteq Projects
    /\ filtered \in BOOLEAN /\ strayed \in BOOLEAN
    /\ pending \subseteq Stories /\ overlap \subseteq Stories /\ cleared \subseteq Stories
    /\ started \in 0..MaxCalls

\* What the user sees is what the server has, once every answer is in: a change that
\* was refused is undone, one that was made stays.  Only a story whose change
\* overlapped another request, or whose answer was lost, may differ.
BoardAgreesWhenQuiet ==
    page = "board" /\ calls = {} /\ ViewKind = "ok" =>
        \A s \in DOMAIN view.items \ overlap : s \in DOMAIN srv /\ view.items[s] = srv[s]

\* No card stays disabled: a marked story has a handler of its own that will unmark it.
PendingHasHandler == page = "board" => \A s \in pending : CallsOf(s) # {}

\* One change at a time for a story, unless a refetch took its mark away.
OneChangePerStory == page = "board" => \A s \in Stories \ cleared : Cardinality(CallsOf(s)) <= 1

\* The spinner of a selected project waits for a load that is under way, except after
\* an answer for another project was installed over its board.
LoadingIsAwaited ==
    page = "board" /\ ViewKind = "loading" /\ ~strayed => \E c \in calls : c.op = "load" /\ c.project = selected
=============================================================================
