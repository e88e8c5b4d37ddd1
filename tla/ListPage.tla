------------------------------ MODULE ListPage ------------------------------
(***************************************************************************)
(* The list page (src/apps/web/src/app/planning/list): the rows of a       *)
(* project with its boards and epics to move them to.  A change marks its  *)
(* row, writes and refetches; nothing is shown before the server agreed.   *)
(* Filters and their options only choose what is shown and are left out;   *)
(* an assignee change is a change that keeps the status.                   *)
(***************************************************************************)
EXTENDS PlanningPage

CONSTANTS
    ListRows, RowProject,
    ListBoards, ListBoardProject,   \* the boards, all of one project
    RowStatuses,
    InitialLists                    \* what the server may start with

ASSUME ListAssumption ==
    /\ RowProject \in [ListRows -> Projects] /\ ListBoardProject \in Projects
    /\ NoKey \notin ListRows \cup ListBoards
    /\ \A i \in InitialLists : \E S \in SUBSET ListRows :
         i \in [status : [S -> RowStatuses], on : [S -> ListBoards \cup {NoKey}]]

VARIABLES
    offered,     \* backlogData: the project of the boards to move to, whether there are any, and the rows on them
    epicsOf,     \* the project of epicTargets
    muddled      \* ghost: the last answer was out of date when it was shown, or a change was made that nothing refetches

listVars == <<pageVars, offered, epicsOf, muddled>>

Offer(p, any, on) == [project |-> p, any |-> any, on |-> on]
NoOffer == Offer(NoProject, FALSE, NoItems)

\* fetchListResult and fetchBacklogsForProject; boards that cannot be fetched are no boards.
RowsIn(p) == [r \in {x \in DOMAIN srv.status : RowProject[x] = p} |-> srv.status[r]]
FetchOffer(p) ==
    IF p # ListBoardProject THEN Offer(p, FALSE, NoItems)
    ELSE Offer(p, TRUE, [r \in {x \in DOMAIN srv.on : srv.on[x] # NoKey} |-> srv.on[r]])
FetchList(p) == View(IF RowsIn(p) = NoItems THEN "empty" ELSE "ok", p, RowsIn(p))

\* from is membershipMap's board of the row, NoKey for none; boards is the answer about the boards.
ListArg(from, to, boards) == [from |-> from, to |-> to, boards |-> boards]
NoListArg == ListArg(NoKey, NoKey, NoOffer)
ListCall(op, r, p, phase, arg) == NewCall(op, r, p, phase, arg, NoKey)
BeginList(op, r, phase, arg) ==
    /\ Start
    /\ calls' = calls \cup {ListCall(op, r, selected, phase, arg)}
    /\ UNCHANGED muddled

-----------------------------------------------------------------------------
(* The user *)

ListInit ==
    /\ Mount("list") /\ selected = NoProject /\ calls = {}
    /\ srv \in InitialLists
    /\ offered = NoOffer /\ epicsOf = NoProject /\ muddled = FALSE

\* The load effect cancels the previous load; marks and earlier handlers stay.
SelectListProject(p) ==
    /\ p # selected /\ Start
    /\ selected' = p
    /\ LET kept == {c \in calls : c.op # "load"}
       IN  calls' = IF p = NoProject THEN kept ELSE kept \cup {ListCall("load", NoKey, p, "fetch", NoListArg)}
    /\ UNCHANGED <<view, pending, srv, offered, epicsOf, muddled>>

\* The refresh control, and a dialog that saved.
RefreshList ==
    /\ selected # NoProject /\ BeginList("refresh", NoKey, "fetch", NoListArg)
    /\ UNCHANGED <<selected, view, pending, srv, offered, epicsOf>>

\* runWithPending
RunWithPending(op, r, phase, arg) ==
    /\ ViewKind = "ok" /\ r \in DOMAIN view.items \ pending
    /\ BeginList(op, r, phase, arg)
    /\ pending' = pending \cup {r}
    /\ UNCHANGED <<selected, view, srv, offered, epicsOf>>

ChangeRow(r, op) == RunWithPending(op, r, op, NoListArg)

OnBoard(r) == IF r \in DOMAIN offered.on THEN offered.on[r] ELSE NoKey
\* Added to the target first and taken off the source next, if there is one.
HandleMoveToBacklog(r, to) ==
    /\ offered.any /\ to # OnBoard(r)
    /\ RunWithPending("move", r, "add", ListArg(OnBoard(r), to, NoOffer))

\* The row is not marked; the dialog waits.
HandleMoveToEpic(r) ==
    /\ ViewKind = "ok" /\ r \in DOMAIN view.items \ pending /\ epicsOf # NoProject
    /\ BeginList("epic", r, "epic", NoListArg)
    /\ UNCHANGED <<selected, view, pending, srv, offered, epicsOf>>

-----------------------------------------------------------------------------
(* The server *)

ListFetchAnswered(c) ==
    /\ Fetching(c) /\ c.net = "sent"
    /\ \/ \E boards \in {FetchOffer(c.project), Offer(c.project, FALSE, NoItems)} :
            Replace(c, [c EXCEPT !.net = "ok", !.answer = FetchList(c.project), !.arg.boards = boards])
       \/ Answered(c, "failed", NoView)
    /\ UNCHANGED <<selected, view, pending, started, srv, offered, epicsOf, muddled>>

\* A row is on one board at most: adding it to a second one is refused.
ListAccepts(c) ==
    /\ c.key \in DOMAIN srv.status
    /\ c.phase = "add" => srv.on[c.key] = NoKey
    /\ c.phase = "remove" => srv.on[c.key] = c.arg.from
Without(f, r) == [x \in DOMAIN f \ {r} |-> f[x]]
ListWrite(c) ==
    CASE c.phase = "status" -> {[srv EXCEPT !.status[c.key] = x] : x \in RowStatuses}
      [] c.phase = "delete" -> {[srv EXCEPT !.status = Without(@, c.key), !.on = Without(@, c.key)]}
      [] c.phase = "add"    -> {[srv EXCEPT !.on[c.key] = c.arg.to]}
      [] c.phase = "remove" -> {[srv EXCEPT !.on[c.key] = NoKey]}
      [] OTHER              -> {srv}
\* A write that was made may be reported as failed, when its answer is lost.
ListWriteAnswered(c) ==
    /\ Writing(c) /\ c.net = "sent"
    /\ \/ /\ ListAccepts(c) /\ srv' \in ListWrite(c)
          /\ \/ Answered(c, "ok", NoView) /\ UNCHANGED muddled
             \/ Answered(c, "failed", NoView) /\ muddled' = TRUE
       \/ /\ Answered(c, "failed", NoView)
          /\ muddled' = (muddled \/ c.phase = "remove") /\ UNCHANGED srv
    /\ UNCHANGED <<selected, view, pending, started, offered, epicsOf>>

\* Another client takes a row off its board.
OthersTakeOff(r) ==
    /\ r \in DOMAIN srv.on /\ srv.on[r] # NoKey /\ Start
    /\ srv' = [srv EXCEPT !.on[r] = NoKey] /\ muddled' = TRUE
    /\ UNCHANGED <<selected, view, pending, calls, offered, epicsOf>>

-----------------------------------------------------------------------------
(* The handlers go on *)

EndRow(c) == calls' = calls \ {c} /\ pending' = pending \ {c.key}

\* Mutant: nothing is refetched after a write.
ListWrittenOnly(c) ==
    /\ Writing(c) /\ c.net = "ok"
    /\ EndRow(c)
    /\ UNCHANGED <<selected, view, started, srv, offered, epicsOf, muddled>>

\* After its writes a handler refetches the project it was started for.
ListWritten(c) ==
    /\ Writing(c) /\ c.net = "ok"
    /\ Await(c, IF c.phase = "add" /\ c.arg.from # NoKey THEN "remove" ELSE "fetch")
    /\ UNCHANGED <<selected, view, pending, started, srv, offered, epicsOf, muddled>>

ListWriteFailed(c) ==
    /\ Writing(c) /\ c.net = "failed"
    /\ EndRow(c)
    /\ UNCHANGED <<selected, view, started, srv, offered, epicsOf, muddled>>

\* The server still has what it answered.
Current(c) ==
    /\ c.answer = FetchList(c.project)
    /\ c.arg.boards.any => c.arg.boards = FetchOffer(c.project)

\* Rows and boards are set together, the epics by the load only.
ListFetched(c) ==
    /\ Fetching(c) /\ c.net = "ok"
    /\ view' = c.answer /\ offered' = c.arg.boards
    /\ epicsOf' = IF c.op = "load" THEN c.project ELSE epicsOf
    /\ muddled' = ~Current(c)
    /\ EndRow(c)
    /\ UNCHANGED <<selected, started, srv>>

ListFetchFailed(c) ==
    /\ Fetching(c) /\ c.net = "failed"
    /\ view' = IF c.op = "load" THEN View("error", c.project, NoItems) ELSE view
    /\ muddled' = (muddled \/ c.op \notin {"load", "refresh"})
    /\ EndRow(c)
    /\ UNCHANGED <<selected, started, srv, offered, epicsOf>>

ListUser ==
    \/ \E p \in Projects \cup {NoProject} : SelectListProject(p)
    \/ RefreshList
    \/ \E r \in ListRows : \/ \E op \in {"status", "assignee", "delete"} : ChangeRow(r, op)
                           \/ \E b \in ListBoards : HandleMoveToBacklog(r, b)
                           \/ HandleMoveToEpic(r) \/ OthersTakeOff(r)
ListAnswers ==
    \E c \in calls : \/ ListFetchAnswered(c) \/ ListWriteAnswered(c)
                     \/ ListWritten(c) \/ ListWriteFailed(c) \/ ListFetched(c) \/ ListFetchFailed(c)
ListNext == Mounted("list") /\ (ListUser \/ ListAnswers)
ListSpec == ListInit /\ [][ListNext]_listVars

-----------------------------------------------------------------------------
(* Properties *)

\* Types; and a row on a board is a row.
ListTypeOK ==
    page = "list" =>
    /\ selected \in Projects \cup {NoProject} /\ started \in 0..MaxCalls
    /\ view.kind \in {"no-project", "ok", "empty", "error"} /\ DOMAIN view.items \subseteq ListRows
    /\ pending \subseteq ListRows
    /\ DOMAIN srv.on = DOMAIN srv.status /\ \A r \in DOMAIN srv.on : srv.on[r] \in ListBoards \cup {NoKey}
    /\ offered.project \in Projects \cup {NoProject} /\ DOMAIN offered.on \subseteq ListRows
    /\ epicsOf \in Projects \cup {NoProject} /\ muddled \in BOOLEAN

\* What is listed is what the server has once every answer is in, whichever changes and
\* loads overlapped: each change ends in a refetch taken after it.  The code leaves four
\* ways out until the next answer: one that was taken before a change and is shown after
\* its refetch, a change reported as failed that was made, in full or, of a move, in half,
\* a refetch that failed, and another client's change.
ListAgreesWhenQuiet ==
    page = "list" /\ calls = {} /\ ViewKind = "ok" /\ ~muddled =>
        /\ view.items = RowsIn(selected)
        /\ offered.any => offered = FetchOffer(selected)
=============================================================================
