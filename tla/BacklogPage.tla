---------------------------- MODULE BacklogPage ----------------------------
(***************************************************************************)
(* The backlog page (src/apps/web/src/app/planning/backlog): the boards of *)
(* a project and their stories, moves of stories between boards, the order *)
(* of the boards, the start and the completion of sprints with their       *)
(* dialogs, and the answers that arrive in any order while other clients   *)
(* change the same rows.  Of a story the model keeps its board and whether *)
(* it is done; an assignee change is a change that keeps both.             *)
(***************************************************************************)
EXTENDS PlanningPage

CONSTANTS
    Boards, DefaultBoard,
    NoBoard,             \* a story on no board, a dialog without a target
    BacklogStories,
    InitialBacklogs,     \* what the server may start with
    BoardProject         \* the project of the boards

ASSUME BacklogAssumption ==
    /\ DefaultBoard \in Boards /\ NoBoard \notin Boards /\ BoardProject \in Projects
    /\ \A i \in InitialBacklogs :
         /\ i = [boards |-> i.boards, where |-> i.where, done |-> i.done]
         /\ i.boards \in [DOMAIN i.boards -> [kind : {"BACKLOG", "SPRINT"}, status : {"OPEN", "ACTIVE", "CLOSED"}, rank : Nat]]
         /\ i.where \in [DOMAIN i.where -> DOMAIN i.boards \cup {NoBoard}]
         /\ DOMAIN i.boards \subseteq Boards /\ DOMAIN i.where \subseteq BacklogStories /\ i.done \subseteq DOMAIN i.where
         /\ DefaultBoard \in DOMAIN i.boards /\ i.boards[DefaultBoard].kind = "BACKLOG"

VARIABLES
    dialog,      \* the modal dialog: its kind, its board and its target
    taken,       \* ghost: stories on no board at first, or that another client took off, or whose board was deleted
    closing,     \* sprints off which a completion the page does not wait for has moved the stories, to close them next
    late,        \* ghost: stories open in a closed sprint at first, or that a change left, put or reopened in a sprint
                 \* that was closed or whose completion had moved its stories
    torn         \* ghost: ranks shared at first; a swap lost a write, met another one, or began from ranks out of date

backlogVars == <<pageVars, dialog, taken, closing, late, torn>>

NoDialog == [kind |-> "none", board |-> NoBoard, target |-> NoBoard]
Sprint(b) == b.kind = "SPRINT"
ActiveSprint(b) == Sprint(b) /\ b.status = "ACTIVE"
ClosedSprint(b) == Sprint(b) /\ b.status = "CLOSED"

\* fetchBacklogData: closed sprints are left out, with their stories.
FetchBacklogData(p) ==
    LET shown == {b \in DOMAIN srv.boards : p = BoardProject /\ ~ClosedSprint(srv.boards[b])}
    IN  IF shown = {} THEN View("empty", p, NoItems)
        ELSE View("ok", p, [boards |-> [b \in shown |-> srv.boards[b]],
                            where  |-> [s \in {t \in DOMAIN srv.where : srv.where[t] \in shown} |-> srv.where[s]],
                            done   |-> srv.done])

Ready == ViewKind = "ok" /\ dialog = NoDialog
Shown == DOMAIN view.items.boards
ShownStories == DOMAIN view.items.where
AnyActiveSprint == \E b \in Shown : ActiveSprint(view.items.boards[b])

\* Mutant: the sprint may be completed into itself.
AnyOpenBoard(source) == {b \in Shown : view.items.boards[b].status \in {"OPEN", "ACTIVE"}}

\* isCompleteSprintTarget
CompleteTargets(source) == {b \in Shown \ {source} : view.items.boards[b].status \in {"OPEN", "ACTIVE"}}
OpenStories(b) == {s \in ShownStories : view.items.where[s] = b /\ s \notin view.items.done}

\* The boards between the active sprint, pinned to the top, and the default board,
\* pinned to the bottom.
Moveable == {b \in Shown : ~ActiveSprint(view.items.boards[b]) /\ b # DefaultBoard}
Rank(b) == view.items.boards[b].rank
\* computeBoardSwapTarget: the board a move changes places with.
SwapTargets(b, direction) ==
    LET above == {a \in Moveable \ {b} : Rank(a) <= Rank(b)}
        below == {a \in Moveable \ {b} : Rank(a) >= Rank(b)}
    IN  IF b \notin Moveable THEN {}
        ELSE CASE direction = "top"    -> {a \in above : \A o \in above : Rank(a) <= Rank(o)}
               [] direction = "up"     -> {a \in above : \A o \in above : Rank(a) >= Rank(o)}
               [] direction = "down"   -> {a \in below : \A o \in below : Rank(a) <= Rank(o)}
               [] direction = "bottom" -> {a \in below : \A o \in below : Rank(a) >= Rank(o)}

-----------------------------------------------------------------------------
(* Handlers begin *)

\* from and to are boards; left holds the rank writes that have no answer yet.
Plan(from, to, left) == [from |-> from, to |-> to, left |-> left]
NoPlan == Plan(NoBoard, NoBoard, {})
Begin(op, key, phase, arg) ==
    /\ Start
    /\ calls' = calls \cup {NewCall(op, key, selected, phase, arg, NoPlan)}
    /\ pending' = IF key = NoKey THEN pending ELSE pending \cup {key}

BacklogInit ==
    /\ Mount("backlog") /\ selected = NoProject /\ calls = {}
    /\ srv \in InitialBacklogs
    /\ dialog = NoDialog
    /\ closing = {}
    /\ taken = {s \in DOMAIN srv.where : srv.where[s] = NoBoard}
    /\ late = {s \in DOMAIN srv.where \ srv.done :
                  srv.where[s] \in DOMAIN srv.boards /\ ClosedSprint(srv.boards[srv.where[s]])}
    /\ torn = \E a, b \in DOMAIN srv.boards : a # b /\ srv.boards[a].rank = srv.boards[b].rank

\* The effect on the selected project cancels the previous load.
SelectBacklogProject(p) ==
    /\ dialog = NoDialog /\ p # selected /\ Start
    /\ selected' = p
    /\ LET kept == {c \in calls : c.op # "load"}
       IN  calls' = IF p = NoProject THEN kept
                    ELSE kept \cup {NewCall("load", NoKey, p, "fetch", NoPlan, NoPlan)}
    /\ UNCHANGED <<view, pending, srv, dialog, taken, closing, late, torn>>

\* refreshCurrentView: the refresh control, and safeRefresh after a dialog saved.
RefreshBacklog ==
    /\ selected # NoProject /\ Begin("refresh", NoKey, "fetch", NoPlan)
    /\ UNCHANGED <<selected, view, srv, dialog, taken, closing, late, torn>>

\* A row's controls are off while the story is marked; withPendingStory checks again.
RowEnabled(s) == Ready /\ s \in ShownStories /\ {<<"story", s>>, <<"delete", s>>} \cap pending = {}

ChangeStory(s, op) ==
    /\ RowEnabled(s) /\ op \in {"status", "assignee"}
    /\ Begin(op, <<"story", s>>, op, NoPlan)
    /\ UNCHANGED <<selected, view, srv, dialog, taken, closing, late, torn>>

DeleteStory(s) ==
    /\ RowEnabled(s)
    /\ Begin("delete", <<"delete", s>>, "delete", NoPlan)
    /\ UNCHANGED <<selected, view, srv, dialog, taken, closing, late, torn>>

\* Mutant: the story is taken off first.
TakeOffFirst(s, to) ==
    /\ RowEnabled(s) /\ to \in Shown \ {view.items.where[s]}
    /\ Begin("move", <<"story", s>>, "remove", Plan(view.items.where[s], to, {}))
    /\ UNCHANGED <<selected, view, srv, dialog, taken, closing, late, torn>>

\* moveToBacklog adds the story to the target before it takes it off the source.
MoveToBacklog(s, to) ==
    /\ RowEnabled(s) /\ to \in Shown \ {view.items.where[s]}
    /\ view.items.boards[to].status # "CLOSED"
    /\ Begin("move", <<"story", s>>, "add", Plan(view.items.where[s], to, {}))
    /\ UNCHANGED <<selected, view, srv, dialog, taken, closing, late, torn>>

Swapping == \E c \in calls : c.op \in {"swap", "orphan"} /\ c.phase = "swap" /\ c.net = "sent"
\* Mutant: the other board keeps its rank.
MoveOver(b, direction) ==
    /\ Ready /\ b \in Shown /\ <<"board", b>> \notin pending
    /\ \E a \in SwapTargets(b, direction) : Begin("swap", <<"board", b>>, "swap", Plan(b, a, {<<b, Rank(a)>>}))
    /\ UNCHANGED <<selected, view, srv, dialog, taken, closing, late, torn>>

\* handleMoveBoard sends both rank writes at once.
MoveBoard(b, direction) ==
    /\ Ready /\ b \in Shown /\ <<"board", b>> \notin pending
    /\ \E a \in SwapTargets(b, direction) :
          /\ Begin("swap", <<"board", b>>, "swap", Plan(b, a, {<<b, Rank(a)>>, <<a, Rank(b)>>}))
          /\ torn' = (torn \/ Swapping \/ \E x \in DOMAIN srv.boards \cap {a, b} : srv.boards[x].rank # Rank(x))
    /\ UNCHANGED <<selected, view, srv, dialog, taken, closing, late>>

-----------------------------------------------------------------------------
(* Dialogs *)

Open(kind, b, target) ==
    /\ dialog' = [kind |-> kind, board |-> b, target |-> target]
    /\ UNCHANGED <<pageVars, taken, closing, late, torn>>

OpenStart(b) ==
    /\ Ready /\ b \in Shown /\ <<"sprint", b>> \notin pending
    /\ Sprint(view.items.boards[b]) /\ ~ActiveSprint(view.items.boards[b]) /\ ~AnyActiveSprint
    /\ Open("start", b, NoBoard)

\* prepareSprintCompletion: without open stories a confirmation is enough; otherwise a
\* target is asked for, the default board to begin with.
OpenComplete(b) ==
    /\ Ready /\ b \in Shown /\ <<"sprint", b>> \notin pending /\ ActiveSprint(view.items.boards[b])
    /\ \/ OpenStories(b) = {} /\ Open("confirm", b, NoBoard)
       \/ /\ OpenStories(b) # {}
          /\ \E t \in CompleteTargets(b) :
                /\ DefaultBoard \in CompleteTargets(b) => t = DefaultBoard
                /\ Open("complete", b, t)

OpenDelete(b) ==
    /\ Ready /\ b \in Shown \ {DefaultBoard} /\ <<"board", b>> \notin pending
    /\ Open("delete", b, NoBoard)

ChooseTarget(t) ==
    /\ dialog.kind = "complete" /\ ViewKind = "ok" /\ <<"sprint", dialog.board>> \notin pending
    /\ t \in CompleteTargets(dialog.board) \ {dialog.target}
    /\ Open("complete", dialog.board, t)

CloseDialog == dialog # NoDialog /\ Open("none", NoBoard, NoBoard)

\* The dialog of a start or of a completion without open stories closes at once.
ConfirmSprint ==
    /\ dialog.kind \in {"start", "confirm"} /\ <<"sprint", dialog.board>> \notin pending
    /\ Begin("sprint", <<"sprint", dialog.board>>, IF dialog.kind = "start" THEN "start" ELSE "complete",
             Plan(dialog.board, IF ViewKind = "ok" /\ DefaultBoard \in Shown THEN DefaultBoard ELSE dialog.board, {}))
    /\ dialog' = NoDialog
    /\ UNCHANGED <<selected, view, srv, taken, closing, late, torn>>

\* handleCompleteDialogConfirm: the target must still be offered; the dialog stays open
\* until the server has agreed.
ConfirmComplete ==
    /\ dialog.kind = "complete" /\ <<"sprint", dialog.board>> \notin pending
    /\ ViewKind = "ok" /\ DefaultBoard \in Shown /\ dialog.target \in CompleteTargets(dialog.board)
    /\ Begin("complete", <<"sprint", dialog.board>>, "complete", Plan(dialog.board, dialog.target, {}))
    /\ UNCHANGED <<selected, view, srv, dialog, taken, closing, late, torn>>

ConfirmDelete ==
    /\ dialog.kind = "delete" /\ <<"board", dialog.board>> \notin pending
    /\ Begin("deleteBoard", <<"board", dialog.board>>, "deleteBoard", Plan(dialog.board, NoBoard, {}))
    /\ UNCHANGED <<selected, view, srv, dialog, taken, closing, late, torn>>

-----------------------------------------------------------------------------
(* The server *)

Accepts(c) ==
    LET from == c.arg.from
        to == c.arg.to
        s == c.key[2]
    IN  CASE c.phase \in {"status", "assignee", "delete"} -> s \in DOMAIN srv.where
          [] c.phase = "add"         -> s \in DOMAIN srv.where /\ to \in DOMAIN srv.boards /\ srv.where[s] = NoBoard
          [] c.phase = "remove"      -> s \in DOMAIN srv.where /\ from \in DOMAIN srv.boards /\ srv.where[s] = from
          [] c.phase = "deleteBoard" -> from \in DOMAIN srv.boards \ {DefaultBoard}
          [] c.phase = "start"       -> /\ from \in DOMAIN srv.boards /\ Sprint(srv.boards[from])
                                        /\ \A b \in DOMAIN srv.boards : ~ActiveSprint(srv.boards[b])
          [] c.phase = "complete"    -> /\ {from, to} \subseteq DOMAIN srv.boards
                                        /\ ActiveSprint(srv.boards[from])
          [] c.phase = "close"       -> from \in DOMAIN srv.boards

Removed(f, k) == [x \in DOMAIN f \ {k} |-> f[x]]
\* complete_sprint commits twice: it moves what is not done, and then closes the sprint.
NonDoneMoved(from, to) ==
    [srv EXCEPT !.where = [s \in DOMAIN @ |-> IF @[s] = from /\ s \notin srv.done THEN to ELSE @[s]]]
SprintClosed(from) == [srv EXCEPT !.boards[from].status = "CLOSED"]
Effect(c) ==
    LET from == c.arg.from
        to == c.arg.to
        s == c.key[2]
    IN  CASE c.phase = "status"      -> [srv EXCEPT !.done = IF s \in @ THEN @ \ {s} ELSE @ \cup {s}]
          [] c.phase = "assignee"    -> srv
          [] c.phase = "delete"      -> [srv EXCEPT !.where = Removed(@, s), !.done = @ \ {s}]
          [] c.phase = "add"         -> [srv EXCEPT !.where[s] = to]
          [] c.phase = "remove"      -> [srv EXCEPT !.where[s] = NoBoard]
          [] c.phase = "deleteBoard" -> [srv EXCEPT !.boards = Removed(@, from),
                                                    !.where = [x \in DOMAIN @ |-> IF @[x] = from THEN NoBoard ELSE @[x]]]
          [] c.phase = "start"       -> [srv EXCEPT !.boards[from].status = "ACTIVE"]
          [] c.phase = "complete"    -> NonDoneMoved(from, to)
          [] c.phase = "close"       -> SprintClosed(from)

\* The sprints whose stories a completion has moved, and which it has yet to close.
HalfCompleted == closing \cup {c.arg.from : c \in {d \in calls : d.phase = "close" /\ d.net = "sent"}}
\* A story that comes to such a sprint, or to a closed one, is not moved again.
OutOfReach(b) ==
    b \in DOMAIN srv.boards /\ Sprint(srv.boards[b]) /\ (srv.boards[b].status = "CLOSED" \/ b \in HalfCompleted)

\* The stories a write puts or leaves there.  A confirmed completion names the sprint
\* itself when the page had no default board to name.
LateFor(c) ==
    LET s == c.key[2]
        onto == IF c.phase = "status" THEN srv.where[s] ELSE c.arg.to
        itself == c.op = "sprint" /\ onto = c.arg.from
    IN  CASE c.phase \in {"status", "add"} /\ OutOfReach(onto)      -> {s}
          [] c.phase = "complete" /\ (OutOfReach(onto) \/ itself)   -> {x \in DOMAIN srv.where : srv.where[x] = c.arg.from}
          [] OTHER                                                  -> {}

BacklogFetchAnswered(c) ==
    /\ Fetching(c) /\ c.net = "sent"
    /\ Answered(c, "ok", FetchBacklogData(c.project)) \/ Answered(c, "failed", NoView)
    /\ UNCHANGED <<selected, view, pending, started, srv, dialog, taken, closing, late, torn>>

\* The first commit of complete_sprint, which nothing answers yet.
CompletionMoves(c) ==
    /\ c.phase = "complete" /\ c.net = "sent" /\ Accepts(c)
    /\ srv' = Effect(c) /\ late' = late \cup LateFor(c)
    /\ Await(c, "close")
    /\ UNCHANGED <<selected, view, pending, started, dialog, taken, closing, torn>>

\* A write that was made may be reported as failed, when its answer is lost; a completion
\* fails too between its commits, or goes on after the connection is lost.
BacklogWriteAnswered(c) ==
    /\ Writing(c) /\ c.net = "sent" /\ c.op \notin {"swap", "orphan"}
    /\ \/ /\ c.phase # "complete" /\ Accepts(c)
          /\ srv' = Effect(c)
          /\ taken' = IF c.phase = "deleteBoard"
                      THEN taken \cup {s \in DOMAIN srv.where : srv.where[s] = c.arg.from} ELSE taken
          /\ late' = late \cup LateFor(c) /\ UNCHANGED closing
          /\ Answered(c, "ok", NoView) \/ Answered(c, "failed", NoView)
       \/ /\ Answered(c, "failed", NoView) /\ UNCHANGED <<srv, taken, late>>
          /\ \/ UNCHANGED closing
             \/ c.phase = "close" /\ closing' = closing \cup {c.arg.from}
    /\ UNCHANGED <<selected, view, pending, started, dialog, torn>>

\* One of the two rank writes of a swap is answered; that of a deleted board is refused.
\* The first failure ends the handler; the other write may still take effect.
RankWritten(c, w, ok) ==
    /\ w \in c.arg.left /\ (ok => w[1] \in DOMAIN srv.boards)
    /\ srv' = IF ok THEN [srv EXCEPT !.boards[w[1]].rank = w[2]] ELSE srv
    /\ torn' = (torn \/ ~ok)
    /\ LET d == [c EXCEPT !.arg.left = @ \ {w}]
       IN  calls' = (calls \ {c}) \cup
             (IF c.op = "orphan" THEN IF d.arg.left = {} THEN {} ELSE {d}
              ELSE IF ~ok THEN {[d EXCEPT !.net = "failed"]}
              ELSE IF d.arg.left = {} THEN {[d EXCEPT !.net = "ok"]} ELSE {d})
    /\ UNCHANGED <<selected, view, pending, started, dialog, taken, closing, late>>
BacklogRankAnswered(c) ==
    /\ c.op \in {"swap", "orphan"} /\ c.phase = "swap" /\ c.net = "sent"
    /\ \E w \in c.arg.left, ok \in BOOLEAN : RankWritten(c, w, ok)

\* Another client takes a story off its board, or puts it on one, or completes a sprint.
OthersChangeBacklog ==
    /\ Start
    /\ \/ \E s \in DOMAIN srv.where, b \in {NoBoard} \cup DOMAIN srv.boards :
            /\ srv.where[s] # b
            /\ b # NoBoard => srv.where[s] = NoBoard /\ ~ClosedSprint(srv.boards[b])
            /\ srv' = [srv EXCEPT !.where[s] = b] /\ taken' = taken \cup {s}
            /\ late' = IF OutOfReach(b) THEN late \cup {s} ELSE late
            /\ UNCHANGED closing
       \/ \E b \in DOMAIN srv.boards :
            /\ ActiveSprint(srv.boards[b])
            /\ srv' = NonDoneMoved(b, DefaultBoard) /\ closing' = closing \cup {b}
            /\ UNCHANGED <<taken, late>>
    /\ UNCHANGED <<selected, view, pending, calls, dialog, torn>>

\* The second commit of a completion the page does not wait for, or its death.
CompletionCloses(b) ==
    /\ b \in closing /\ closing' = closing \ {b}
    /\ \/ b \in DOMAIN srv.boards /\ srv' = SprintClosed(b)
       \/ UNCHANGED srv
    /\ UNCHANGED <<selected, view, pending, calls, started, dialog, taken, late, torn>>

-----------------------------------------------------------------------------
(* The handlers go on *)

\* An end shows an error and lets go of the mark; a failed swap leaves its other write behind.
FinishBacklogCall(c) ==
    /\ calls' = (calls \ {c}) \cup
         (IF c.op = "swap" /\ c.arg.left # {} THEN {[c EXCEPT !.op = "orphan", !.key = NoKey, !.net = "sent"]} ELSE {})
    /\ pending' = pending \ {c.key}

BacklogFetched(c) ==
    /\ Fetching(c) /\ c.net # "sent"
    /\ view' = IF c.net = "ok" THEN c.answer ELSE IF c.op = "load" THEN View("error", c.project, NoItems) ELSE view
    /\ dialog' = IF c.net = "ok" /\ c.op = "complete" /\ dialog.kind = "complete" THEN NoDialog ELSE dialog
    /\ FinishBacklogCall(c)
    /\ UNCHANGED <<selected, started, srv, taken, closing, late, torn>>

\* After its writes a handler refetches the project it was started for.
BacklogWritten(c) ==
    /\ Writing(c) /\ c.net = "ok"
    /\ Await(c, IF c.phase = "add" THEN "remove" ELSE "fetch")
    /\ dialog' = IF c.phase = "deleteBoard" /\ dialog.kind = "delete" THEN NoDialog ELSE dialog
    /\ UNCHANGED <<selected, view, pending, started, srv, taken, closing, late, torn>>

\* Nothing is refetched after a failure, whatever was written before it.
BacklogWriteFailed(c) ==
    /\ Writing(c) /\ c.net = "failed"
    /\ FinishBacklogCall(c)
    /\ UNCHANGED <<selected, view, started, srv, dialog, taken, closing, late, torn>>

BacklogUser ==
    \/ \E p \in Projects \cup {NoProject} : SelectBacklogProject(p)
    \/ RefreshBacklog
    \/ \E s \in BacklogStories :
         \/ \E op \in {"status", "assignee"} : ChangeStory(s, op)
         \/ DeleteStory(s)
         \/ \E to \in Boards : MoveToBacklog(s, to)
    \/ \E b \in Boards :
         \/ \E direction \in {"top", "up", "down", "bottom"} : MoveBoard(b, direction)
         \/ OpenStart(b) \/ OpenComplete(b) \/ OpenDelete(b) \/ ChooseTarget(b)
    \/ CloseDialog \/ ConfirmSprint \/ ConfirmComplete \/ ConfirmDelete
BacklogServer ==
    \/ \E c \in calls : BacklogFetchAnswered(c) \/ CompletionMoves(c) \/ BacklogWriteAnswered(c) \/ BacklogRankAnswered(c)
    \/ OthersChangeBacklog
    \/ \E b \in Boards : CompletionCloses(b)
BacklogHandlers == \E c \in calls : BacklogFetched(c) \/ BacklogWritten(c) \/ BacklogWriteFailed(c)

BacklogNext == Mounted("backlog") /\ (BacklogUser \/ BacklogServer \/ BacklogHandlers)
BacklogSpec == BacklogInit /\ [][BacklogNext]_backlogVars

-----------------------------------------------------------------------------
(* Properties *)

\* Types.
BacklogTypeOK ==
    page = "backlog" =>
    /\ selected \in Projects \cup {NoProject}
    /\ view.kind \in {"no-project", "ok", "empty", "error"}
    /\ DOMAIN srv.boards \subseteq Boards /\ DOMAIN srv.where \subseteq BacklogStories
    /\ \A s \in DOMAIN srv.where : srv.where[s] \in Boards \cup {NoBoard}
    /\ srv.done \subseteq DOMAIN srv.where
    /\ dialog.board \in Boards \cup {NoBoard}
    /\ \A c \in calls : c.phase = "swap" => c.arg.left \subseteq Boards \X Nat
    /\ closing \subseteq Boards /\ taken \subseteq BacklogStories /\ late \subseteq BacklogStories /\ torn \in BOOLEAN

\* A move never leaves a story on no board, though it is two requests of which either
\* may fail: only another client, or the deletion of its board, does.
MoveNeverLosesStory == page = "backlog" => \A s \in DOMAIN srv.where : srv.where[s] = NoBoard => s \in taken

\* Moves of boards keep their ranks apart, though each is two requests: once no move is
\* under way no two boards share a rank, unless a write of one was lost or one began
\* from ranks the server no longer had.
BoardRanksDistinct ==
    page = "backlog" /\ ~torn /\ ~Swapping => \A a, b \in DOMAIN srv.boards : a # b => srv.boards[a].rank # srv.boards[b].rank

\* A completion hides no open story, though it moves the stories in one transaction and
\* closes the sprint in the next, may die or fail between them, and meets another client's
\* completion: what is not done is on a board the page shows.  Excused are only stories
\* that came to the sprint, or were reopened on it, between the transactions or after,
\* stories whose target was closed or half completed behind the page's back, and those of
\* a completion confirmed while the page showed an error: it names no other board.
OpenStoriesStayVisible ==
    page = "backlog" => \A s \in DOMAIN srv.where \ (srv.done \cup late) :
        srv.where[s] \in DOMAIN srv.boards => ~ClosedSprint(srv.boards[srv.where[s]])
=============================================================================
