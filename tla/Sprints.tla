------------------------------ MODULE Sprints ------------------------------
(***************************************************************************)
(* The backlogs of a project and what is on them: the life of sprints, the *)
(* moves of work items between them and the product backlog                *)
(* (services/api/app/planning/application/backlog_service.py).             *)
(*                                                                         *)
(* An action is one transaction, or the SELECTs in a row whose result a    *)
(* later transaction uses.  A check that only refuses what a constraint of *)
(* the tables would refuse at the write is part of the write.  Ranks are   *)
(* left out: no guard reads them.                                          *)
(***************************************************************************)
EXTENDS Naturals

CONSTANTS
    SprintSessions,  \* database sessions, one per request
    SprintItems, SprintBoards,
    ProductBacklog,  \* the default backlog of the project
    NoPlace,         \* on no backlog
    Kinds,           \* of backlogs
    InitialSprints,  \* tables to start from
    MaxPlans         \* bound: requests

PlanBoardRows == [kind : Kinds, status : {"UNBORN", "OPEN", "ACTIVE", "CLOSED", "GONE"}]

ASSUME SprintsAssumption ==
    /\ Kinds \subseteq {"BACKLOG", "SPRINT", "IDEAS"} /\ "BACKLOG" \in Kinds /\ ProductBacklog \in SprintBoards
    /\ NoPlace \notin SprintBoards /\ MaxPlans \in Nat

\* The tables to start from keep their foreign keys, and no open item on a closed backlog.
ASSUME InitialSprintsAssumption ==
    \A t \in InitialSprints :
        /\ t.boards \in [SprintBoards -> PlanBoardRows] /\ t.boards[ProductBacklog] = [kind |-> "BACKLOG", status |-> "ACTIVE"]
        /\ t.on \in [SprintItems -> SprintBoards \cup {NoPlace}]
        /\ t.items \in [SprintItems -> {"UNBORN", "OPEN", "DONE", "GONE"}]
        /\ \A i \in SprintItems : t.on[i] # NoPlace =>
              /\ t.boards[t.on[i]].status \in {"OPEN", "ACTIVE", "CLOSED"} /\ t.items[i] \in {"OPEN", "DONE"}
              /\ t.boards[t.on[i]].status = "CLOSED" => t.items[i] = "DONE"

VARIABLES
    backlog,    \* backlogs: kind and status
    place,      \* backlog_items: the backlog an item is on (work_item_id is unique)
    progress,   \* work_items: whether an item is open or done
    plan,       \* per session: its request, how far it is and what it has read
    planned,
    astray      \* ghost: items put or reopened on a closed backlog, or on one being completed

sprintVars == <<backlog, place, progress, plan, planned, astray>>

BoardExists(b) == b # NoPlace /\ backlog[b].status \in {"OPEN", "ACTIVE", "CLOSED"}
ItemExists(i) == progress[i] \in {"OPEN", "DONE"}
IsSprint(b, status) == backlog[b] = [kind |-> "SPRINT", status |-> status]
\* idx_backlogs_one_active_sprint_per_project
FitsIndex(b, kind, status) ==
    kind = "SPRINT" /\ status = "ACTIVE" => \A other \in SprintBoards \ {b} : ~IsSprint(other, "ACTIVE")

Unplanned == [at |-> "idle", board |-> NoPlace, to |-> NoPlace, kind |-> "NONE", status |-> "NONE", items |-> {}]
Proceeds(r, new) == plan' = [plan EXCEPT ![r] = new]
Concludes(r) == Proceeds(r, Unplanned)
\* The request is refused, or its transaction rolled back.
RolledBack(r) == Concludes(r) /\ UNCHANGED <<backlog, place, progress, planned, astray>>

Completing(b) == \E r \in SprintSessions : plan[r].at \in {"move", "close"} /\ plan[r].board = b
\* What comes to a board, or is reopened on it.
Arrive(items, b) ==
    astray' = IF b # NoPlace /\ (backlog[b].status = "CLOSED" \/ Completing(b)) THEN astray \cup items ELSE astray \ items

SprintsInit ==
    /\ \E t \in InitialSprints : backlog = t.boards /\ place = t.on /\ progress = t.items
    /\ plan = [r \in SprintSessions |-> Unplanned] /\ planned = 0 /\ astray = {}

Plans == planned < MaxPlans /\ planned' = planned + 1

-----------------------------------------------------------------------------
(* Requests of one transaction *)

CreateBacklog(b, kind) ==
    /\ Plans /\ backlog[b].status = "UNBORN"
    /\ backlog' = [backlog EXCEPT ![b] = [kind |-> kind, status |-> IF kind = "SPRINT" THEN "OPEN" ELSE "ACTIVE"]]
    /\ UNCHANGED <<place, progress, plan, astray>>

\* The memberships go with the backlog.
DeleteBacklog(b) ==
    /\ Plans /\ BoardExists(b) /\ b # ProductBacklog
    /\ backlog' = [backlog EXCEPT ![b].status = "GONE"]
    /\ place' = [i \in SprintItems |-> IF place[i] = b THEN NoPlace ELSE place[i]]
    /\ UNCHANGED <<progress, plan, astray>>

AddItemToBacklog(i, b) ==
    /\ Plans /\ BoardExists(b) /\ ItemExists(i) /\ place[i] = NoPlace
    /\ place' = [place EXCEPT ![i] = b]
    /\ Arrive({i}, b)
    /\ UNCHANGED <<backlog, progress, plan>>

RemoveItemFromBacklog(i) ==
    /\ Plans /\ place[i] # NoPlace
    /\ place' = [place EXCEPT ![i] = NoPlace]
    /\ UNCHANGED <<backlog, progress, plan, astray>>

\* A new item may be created on a backlog.
CreateItem(i, b) ==
    /\ Plans /\ progress[i] = "UNBORN" /\ (b = NoPlace \/ BoardExists(b))
    /\ progress' = [progress EXCEPT ![i] = "OPEN"]
    /\ place' = [place EXCEPT ![i] = b]
    /\ Arrive({i}, b)
    /\ UNCHANGED <<backlog, plan>>

EraseItem(i) ==
    /\ Plans /\ ItemExists(i)
    /\ progress' = [progress EXCEPT ![i] = "GONE"]
    /\ place' = [place EXCEPT ![i] = NoPlace]
    /\ UNCHANGED <<backlog, plan, astray>>

FinishItem(i) ==
    /\ Plans /\ progress[i] = "OPEN"
    /\ progress' = [progress EXCEPT ![i] = "DONE"]
    /\ UNCHANGED <<backlog, place, plan, astray>>

ReopenItem(i) ==
    /\ Plans /\ progress[i] = "DONE"
    /\ progress' = [progress EXCEPT ![i] = "OPEN"]
    /\ Arrive({i}, place[i])
    /\ UNCHANGED <<backlog, place, plan>>

-----------------------------------------------------------------------------
(* start_sprint and transition_backlog_kind: read, then write *)

\* A closed sprint may be started again.
StartSprint(r, b) ==
    /\ Plans /\ plan[r] = Unplanned
    /\ BoardExists(b) /\ backlog[b].kind = "SPRINT" /\ backlog[b].status # "ACTIVE"
    /\ Proceeds(r, [Unplanned EXCEPT !.at = "update", !.board = b, !.status = "ACTIVE"])
    /\ UNCHANGED <<backlog, place, progress, astray>>

\* A project with its product backlog has no other active one of that kind.
TransitionBacklogKind(r, b, kind) ==
    /\ Plans /\ plan[r] = Unplanned
    /\ BoardExists(b) /\ backlog[b].kind # kind /\ b # ProductBacklog /\ ~IsSprint(b, "ACTIVE")
    /\ kind = "BACKLOG" => backlog[b].status # "ACTIVE"
    /\ Proceeds(r, [Unplanned EXCEPT !.at = "update", !.board = b, !.kind = kind,
                                  !.status = IF kind = "SPRINT" /\ backlog[b].status # "OPEN" THEN "OPEN" ELSE "NONE"])
    /\ UNCHANGED <<backlog, place, progress, astray>>

\* update_backlog; the partial unique index lets one sprint of the project be active.
UpdateBacklog(r) ==
    /\ plan[r].at = "update"
    /\ LET b == plan[r].board
           kind == IF plan[r].kind = "NONE" THEN backlog[b].kind ELSE plan[r].kind
           status == IF plan[r].status = "NONE" THEN backlog[b].status ELSE plan[r].status
       IN  IF BoardExists(b) /\ FitsIndex(b, kind, status)
           THEN /\ backlog' = [backlog EXCEPT ![b] = [kind |-> kind, status |-> status]]
                /\ Concludes(r) /\ UNCHANGED <<place, progress, planned, astray>>
           ELSE RolledBack(r)

-----------------------------------------------------------------------------
(* complete_sprint *)

\* Any backlog is taken for a target, the sprint itself and a closed one included.
CompleteSprint(r, b, target) ==
    /\ Plans /\ plan[r] = Unplanned
    /\ IsSprint(b, "ACTIVE") /\ BoardExists(target)
    /\ Proceeds(r, [Unplanned EXCEPT !.at = "read", !.board = b, !.to = target])
    /\ UNCHANGED <<backlog, place, progress, astray>>

\* move_non_done_items: the items to move.
ReadOpenItems(r) ==
    /\ plan[r].at = "read"
    /\ LET open == {i \in SprintItems : place[i] = plan[r].board /\ progress[i] = "OPEN"}
       IN  Proceeds(r, [plan[r] EXCEPT !.at = IF open = {} THEN "close" ELSE "move", !.items = open])
    /\ UNCHANGED <<backlog, place, progress, planned, astray>>

\* An item that was deleted meanwhile, or put on another backlog, or a deleted target
\* aborts the move; one taken off the sprint is put on the target.
CanMove(items, from, to) ==
    BoardExists(to) /\ \A i \in items : ItemExists(i) /\ place[i] \in {from, NoPlace}

\* Mutant: a refused move is passed over and the sprint closed.
MoveOrSkip(r) ==
    /\ plan[r].at = "move"
    /\ LET items == IF CanMove(plan[r].items, plan[r].board, plan[r].to) THEN plan[r].items ELSE {}
       IN  /\ place' = [i \in SprintItems |-> IF i \in items THEN plan[r].to ELSE place[i]]
           /\ Arrive(items, plan[r].to)
    /\ Proceeds(r, [plan[r] EXCEPT !.at = "close"])
    /\ UNCHANGED <<backlog, progress, planned>>

\* move_non_done_items: the items move in one transaction.
MoveNonDoneItems(r) ==
    /\ plan[r].at = "move"
    /\ IF CanMove(plan[r].items, plan[r].board, plan[r].to)
       THEN /\ place' = [i \in SprintItems |-> IF i \in plan[r].items THEN plan[r].to ELSE place[i]]
            /\ Arrive(plan[r].items, plan[r].to)
            /\ Proceeds(r, [plan[r] EXCEPT !.at = "close"])
            /\ UNCHANGED <<backlog, progress, planned>>
       ELSE RolledBack(r)

\* The sprint is closed in a transaction of its own, whatever it has become meanwhile.
CloseSprint(r) ==
    /\ plan[r].at = "close"
    /\ IF BoardExists(plan[r].board)
       THEN /\ backlog' = [backlog EXCEPT ![plan[r].board].status = "CLOSED"]
            /\ Concludes(r) /\ UNCHANGED <<place, progress, planned, astray>>
       ELSE RolledBack(r)

-----------------------------------------------------------------------------
(* move_item_to_active_sprint and move_item_to_product_backlog *)

MoveItemToActiveSprint(r, i) ==
    /\ Plans /\ plan[r] = Unplanned
    /\ place[i] = ProductBacklog
    /\ \E sprint \in SprintBoards :
          /\ IsSprint(sprint, "ACTIVE")
          /\ Proceeds(r, [Unplanned EXCEPT !.at = "carry", !.board = ProductBacklog, !.to = sprint, !.items = {i}])
    /\ UNCHANGED <<backlog, place, progress, astray>>

MoveItemToProductBacklog(r, i) ==
    /\ Plans /\ plan[r] = Unplanned
    /\ \E sprint \in SprintBoards :
          /\ IsSprint(sprint, "ACTIVE") /\ place[i] = sprint
          /\ Proceeds(r, [Unplanned EXCEPT !.at = "carry", !.board = sprint, !.to = ProductBacklog, !.items = {i}])
    /\ UNCHANGED <<backlog, place, progress, astray>>

\* The target is the sprint that was active when it was read.
MoveItem(r) ==
    /\ plan[r].at = "carry"
    /\ IF CanMove(plan[r].items, plan[r].board, plan[r].to)
       THEN /\ place' = [i \in SprintItems |-> IF i \in plan[r].items THEN plan[r].to ELSE place[i]]
            /\ Arrive(plan[r].items, plan[r].to)
            /\ Concludes(r) /\ UNCHANGED <<backlog, progress, planned>>
       ELSE RolledBack(r)

\* The process or the connection of a request dies.
PlanDies(r) == plan[r] # Unplanned /\ RolledBack(r)

SprintsNext ==
    \/ \E b \in SprintBoards :
          \/ DeleteBacklog(b)
          \/ \E kind \in Kinds : CreateBacklog(b, kind)
          \/ \E i \in SprintItems : AddItemToBacklog(i, b)
    \/ \E i \in SprintItems :
          \/ RemoveItemFromBacklog(i) \/ EraseItem(i) \/ FinishItem(i) \/ ReopenItem(i)
          \/ \E b \in SprintBoards \cup {NoPlace} : CreateItem(i, b)
    \/ \E r \in SprintSessions :
          \/ \E b \in SprintBoards :
                \/ StartSprint(r, b)
                \/ \E kind \in Kinds : TransitionBacklogKind(r, b, kind)
                \/ \E target \in SprintBoards : CompleteSprint(r, b, target)
          \/ \E i \in SprintItems : MoveItemToActiveSprint(r, i) \/ MoveItemToProductBacklog(r, i)
          \/ UpdateBacklog(r) \/ ReadOpenItems(r) \/ MoveNonDoneItems(r) \/ CloseSprint(r) \/ MoveItem(r)
          \/ PlanDies(r)

SprintsSpec == SprintsInit /\ [][SprintsNext]_sprintVars

-----------------------------------------------------------------------------
(* Properties *)

PlanRecords ==
    [at : {"idle", "update", "read", "move", "close", "carry"}, board : SprintBoards \cup {NoPlace},
     to : SprintBoards \cup {NoPlace}, kind : Kinds \cup {"NONE"},
     status : {"NONE", "OPEN", "ACTIVE"}, items : SUBSET SprintItems]

SprintsTypeOK ==
    /\ backlog \in [SprintBoards -> PlanBoardRows]
    /\ place \in [SprintItems -> SprintBoards \cup {NoPlace}]
    /\ progress \in [SprintItems -> {"UNBORN", "OPEN", "DONE", "GONE"}]
    /\ plan \in [SprintSessions -> PlanRecords]
    /\ planned \in 0..MaxPlans /\ astray \subseteq SprintItems
    /\ \A i \in SprintItems : place[i] # NoPlace => BoardExists(place[i]) /\ ItemExists(i)

\* A closed sprint keeps no open item, whatever else is moved, finished, started or deleted
\* while it is completed and wherever the completion dies.  Excused are items that came to
\* it, or were reopened on it, when it was closed or its completion had read its items: the
\* code checks neither, nor that the target is another backlog that is still open.
CompletedSprintKeepsNothingOpen ==
    \A i \in SprintItems \ astray :
        progress[i] = "OPEN" /\ place[i] # NoPlace => backlog[place[i]].status # "CLOSED"
=============================================================================
