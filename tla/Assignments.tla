---------------------------- MODULE Assignments ----------------------------
(***************************************************************************)
(* Work items and the three records of who works on one: the column        *)
(* current_assignee_agent_id, the active row of work_item_assignments and  *)
(* the live entry of the agent queue                                       *)
(* (services/api/app/planning/application/work_item_service.py).  Requests *)
(* run at once, each on its own database session.                          *)
(*                                                                         *)
(* An action is one transaction, or one SELECT whose result a later        *)
(* transaction uses: the locks and unique keys a transaction has taken are *)
(* held until it commits.  The statements of the queue's hook are those of *)
(* module AgentQueue; here the hook is what they come to.                  *)
(***************************************************************************)
EXTENDS Naturals

CONSTANTS
    ItemSessions,   \* database sessions, one per request
    WorkItems, Agents,
    NoOne,          \* no agent
    Keep,           \* what a PATCH does not carry
    PatchStatuses,  \* statuses a PATCH may carry
    MaxRequests     \* bound

ASSUME AssignmentsAssumption ==
    /\ NoOne \notin Agents /\ Keep \notin Agents \cup {NoOne} \cup PatchStatuses
    /\ PatchStatuses \subseteq {"TODO", "CODE_REVIEW", "VERIFY", "IN_PROGRESS", "DONE"}
    /\ MaxRequests \in Nat

VARIABLES
    workItem,     \* work_items: status and current_assignee_agent_id
    activeRow,    \* the agent of the assignment row with unassigned_at NULL
    liveEntry,    \* the agent whose queue holds the item's live entry
    itemRequest,  \* per session: its request, how far it is and what it has read
    overtaken,    \* sessions whose item was assigned, or its row closed, by another since they read
    received,
    patched,      \* ghost: items whose assignee was last written without an assignment row
    adrift        \* ghost: items whose entry no record of the assignee vouches for

itemVars == <<workItem, activeRow, liveEntry, itemRequest, overtaken, received, patched, adrift>>

Unborn == [status |-> "UNBORN", assignee |-> NoOne]
Gone == [status |-> "GONE", assignee |-> NoOne]
Exists(i) == workItem[i] \notin {Unborn, Gone}

Quiet == [at |-> "idle", op |-> "none", item |-> NoOne, agent |-> Keep, status |-> Keep,
          found |-> Keep, previous |-> NoOne]
At(r, op, at) == itemRequest[r].op = op /\ itemRequest[r].at = at
On(r, i) == itemRequest[r].at # "idle" /\ itemRequest[r].item = i

Goes(r, new) == itemRequest' = [itemRequest EXCEPT ![r] = new]
Ends(r) == Goes(r, Quiet)
Overtakes(r, i) == overtaken' = (overtaken \cup {o \in ItemSessions : On(o, i)}) \ {r}
\* The request is refused, or its transaction rolled back.
Refused(r) ==
    /\ Ends(r) /\ overtaken' = overtaken \ {r}
    /\ UNCHANGED <<workItem, activeRow, liveEntry, patched, adrift>>

AssignmentsInit ==
    /\ workItem \in [WorkItems -> {Unborn, [status |-> "TODO", assignee |-> NoOne]}]
    /\ activeRow = [i \in WorkItems |-> NoOne] /\ liveEntry = [i \in WorkItems |-> NoOne]
    /\ itemRequest = [r \in ItemSessions |-> Quiet] /\ overtaken = {} /\ received = 0
    /\ patched = {} /\ adrift = {}

\* The hook of an assignment: another agent's entry is cancelled when there was a previous
\* one; an eligible item is then enqueued unless an entry is live.
QueueAfter(i, agent, previous, status) ==
    LET kept == IF previous # NoOne /\ previous # agent THEN NoOne ELSE liveEntry[i]
    IN  IF agent = NoOne \/ status # "TODO" \/ kept # NoOne THEN kept ELSE agent
HandedOver(i, agent, previous, status) ==
    liveEntry' = [liveEntry EXCEPT ![i] = QueueAfter(i, agent, previous, status)]

-----------------------------------------------------------------------------
(* Requests of one transaction *)

Receives == received < MaxRequests /\ received' = received + 1

\* An item may be created with an assignee: no row, and no hook.
CreateWorkItem(i, agent) ==
    /\ Receives /\ workItem[i] = Unborn
    /\ workItem' = [workItem EXCEPT ![i] = [status |-> "TODO", assignee |-> agent]]
    /\ UNCHANGED <<activeRow, liveEntry, itemRequest, overtaken, patched, adrift>>

\* The assignment rows go with the item, the queue entry stays.
DeleteWorkItem(i) ==
    /\ Receives /\ Exists(i)
    /\ workItem' = [workItem EXCEPT ![i] = Gone]
    /\ activeRow' = [activeRow EXCEPT ![i] = NoOne]
    /\ UNCHANGED <<liveEntry, itemRequest, overtaken, patched, adrift>>

-----------------------------------------------------------------------------
(* PATCH, assign and unassign *)

\* get_by_id.  A PATCH takes the previous assignee from it, an assign the status for the hook.
Read(r, op, i, agent, status) ==
    /\ Receives /\ itemRequest[r] = Quiet /\ Exists(i)
    /\ Goes(r, [at |-> IF op = "patch" THEN "write" ELSE "row", op |-> op, item |-> i, agent |-> agent,
                status |-> status, found |-> IF op = "assign" THEN workItem[i].status ELSE Keep,
                previous |-> IF op = "patch" THEN workItem[i].assignee ELSE NoOne])
    /\ overtaken' = overtaken \ {r}
    /\ UNCHANGED <<workItem, activeRow, liveEntry, patched, adrift>>

ReceivePatch(r) ==
    \E i \in WorkItems, agent \in Agents \cup {NoOne, Keep}, status \in PatchStatuses \cup {Keep} :
        Read(r, "patch", i, agent, status)
ReceiveAssign(r) == \E i \in WorkItems, agent \in Agents : Read(r, "assign", i, agent, Keep)
ReceiveUnassign(r) == \E i \in WorkItems : Read(r, "unassign", i, NoOne, Keep)

\* get_active_assignment.  Here the previous assignee is the row's.
ReadRow(r) ==
    /\ itemRequest[r].at = "row"
    /\ LET row == activeRow[itemRequest[r].item]
       IN  IF row = itemRequest[r].agent THEN Refused(r)
           ELSE /\ Goes(r, [itemRequest[r] EXCEPT !.at = "write", !.previous = row])
                /\ overtaken' = overtaken \ {r}
                /\ UNCHANGED <<workItem, activeRow, liveEntry, patched, adrift>>
    /\ UNCHANGED received

\* What close_assignment leaves of the active row.  Its UPDATE does not see a row that was
\* inserted after the statement began, also not when it then waits for the writer.
RowsLeft(r) == IF r \in overtaken THEN {NoOne, activeRow[itemRequest[r].item]} ELSE {NoOne}

\* assign_agent_with_event, the hook and the commit.  The partial unique index refuses a
\* second active row.
AssignAgent(r) ==
    /\ At(r, "assign", "write")
    /\ LET req == itemRequest[r]
           i == req.item
       IN  \E left \in IF req.previous = NoOne THEN {activeRow[i]} ELSE RowsLeft(r) :
              IF ~Exists(i) \/ left # NoOne THEN Refused(r)
              ELSE /\ workItem' = [workItem EXCEPT ![i].assignee = req.agent]
                   /\ activeRow' = [activeRow EXCEPT ![i] = req.agent]
                   /\ HandedOver(i, req.agent, req.previous, req.found)
                   /\ patched' = patched \ {i}
                   /\ adrift' = IF req.previous # NoOne THEN adrift \ {i}
                                ELSE IF workItem[i].assignee # NoOne THEN adrift \cup {i} ELSE adrift
                   /\ Ends(r) /\ Overtakes(r, i)
    /\ UNCHANGED received

\* Mutant: the column is cleared though no row was closed.
UnassignAlways(r) ==
    /\ At(r, "unassign", "write")
    /\ LET req == itemRequest[r]
           i == req.item
       IN  \E left \in RowsLeft(r) :
              /\ activeRow' = [activeRow EXCEPT ![i] = left]
              /\ workItem' = IF Exists(i) THEN [workItem EXCEPT ![i].assignee = NoOne] ELSE workItem
              /\ HandedOver(i, NoOne, req.previous, req.found)
              /\ patched' = patched \ {i} /\ adrift' = adrift \ {i}
              /\ Ends(r) /\ Overtakes(r, i)
    /\ UNCHANGED received

\* unassign_agent_with_event, the hook and the commit.  The column is left alone when no
\* row was closed; the hook runs in any case.
UnassignCurrentAgent(r) ==
    /\ At(r, "unassign", "write")
    /\ LET req == itemRequest[r]
           i == req.item
       IN  \E left \in RowsLeft(r) :
              LET closed == activeRow[i] # left
              IN  /\ activeRow' = [activeRow EXCEPT ![i] = left]
                  /\ workItem' = IF closed THEN [workItem EXCEPT ![i].assignee = NoOne] ELSE workItem
                  /\ HandedOver(i, NoOne, req.previous, req.found)
                  /\ patched' = IF closed THEN patched \ {i} ELSE patched
                  /\ adrift' = adrift \ {i}
                  /\ Ends(r) /\ Overtakes(r, i)
    /\ UNCHANGED received

\* update_work_item up to its first commit: DONE closes the row, then the columns are
\* written.  A changed assignee is handed over in a transaction of its own.
UpdateWorkItem(r) ==
    /\ At(r, "patch", "write")
    /\ LET req == itemRequest[r]
           i == req.item
           carries == req.agent # Keep
       IN  IF ~Exists(i) THEN Refused(r)
           ELSE \E left \in IF req.status = "DONE" THEN RowsLeft(r) ELSE {activeRow[i]} :
                   /\ activeRow' = [activeRow EXCEPT ![i] = left]
                   /\ workItem' = [workItem EXCEPT
                        ![i] = [status |-> IF req.status = Keep THEN @.status ELSE req.status,
                                assignee |-> IF carries THEN req.agent ELSE @.assignee]]
                   /\ patched' = IF carries THEN patched \cup {i} ELSE patched
                   /\ adrift' = IF carries /\ r \in overtaken THEN adrift \cup {i} ELSE adrift
                   /\ IF carries /\ req.agent # req.previous
                      THEN Goes(r, [req EXCEPT !.at = "hook"]) ELSE Ends(r)
                   /\ IF carries \/ left # activeRow[i] THEN Overtakes(r, i) ELSE overtaken' = overtaken \ {r}
                   /\ UNCHANGED liveEntry
    /\ UNCHANGED received

\* Mutant: the hook takes the previous assignee from the item it has just written.
NotifyRereads(r) ==
    /\ itemRequest[r].at = "hook"
    /\ LET req == itemRequest[r]
           i == req.item
       IN  IF ~Exists(i) THEN Refused(r)
           ELSE /\ HandedOver(i, req.agent, workItem[i].assignee, workItem[i].status)
                /\ adrift' = IF r \in overtaken THEN adrift \cup {i} ELSE adrift
                /\ Ends(r) /\ overtaken' = overtaken \ {r}
                /\ UNCHANGED <<workItem, activeRow, patched>>
    /\ UNCHANGED received

\* update_work_item after its first commit: the item is read again, the hook is called
\* with the assignee of the first read as the previous one.
NotifyAssignmentChanged(r) ==
    /\ itemRequest[r].at = "hook"
    /\ LET req == itemRequest[r]
           i == req.item
       IN  IF ~Exists(i) THEN Refused(r)
           ELSE /\ HandedOver(i, req.agent, req.previous, workItem[i].status)
                /\ adrift' = IF r \in overtaken THEN adrift \cup {i} ELSE adrift
                /\ Ends(r) /\ overtaken' = overtaken \ {r}
                /\ UNCHANGED <<workItem, activeRow, patched>>
    /\ UNCHANGED received

\* The process or the connection of a request dies.
RequestDies(r) ==
    /\ itemRequest[r] # Quiet
    /\ Ends(r) /\ overtaken' = overtaken \ {r}
    /\ adrift' = IF itemRequest[r].at = "hook" THEN adrift \cup {itemRequest[r].item} ELSE adrift
    /\ UNCHANGED <<workItem, activeRow, liveEntry, patched, received>>

AssignmentsNext ==
    \/ \E i \in WorkItems : DeleteWorkItem(i) \/ \E agent \in Agents \cup {NoOne} : CreateWorkItem(i, agent)
    \/ \E r \in ItemSessions :
          \/ ReceivePatch(r) \/ ReceiveAssign(r) \/ ReceiveUnassign(r)
          \/ ReadRow(r) \/ AssignAgent(r) \/ UnassignCurrentAgent(r)
          \/ UpdateWorkItem(r) \/ NotifyAssignmentChanged(r) \/ RequestDies(r)

AssignmentsSpec == AssignmentsInit /\ [][AssignmentsNext]_itemVars

-----------------------------------------------------------------------------
(* Properties *)

ItemStatuses == {"TODO"} \cup PatchStatuses
ItemRows == [status : ItemStatuses, assignee : Agents \cup {NoOne}] \cup {Unborn, Gone}

ItemRequests ==
    [at : {"row", "write", "hook"}, op : {"assign", "unassign", "patch"}, item : WorkItems,
     agent : Agents \cup {NoOne, Keep}, status : PatchStatuses \cup {Keep},
     found : ItemStatuses \cup {Keep}, previous : Agents \cup {NoOne}]

AssignmentsTypeOK ==
    /\ workItem \in [WorkItems -> ItemRows]
    /\ activeRow \in [WorkItems -> Agents \cup {NoOne}] /\ liveEntry \in [WorkItems -> Agents \cup {NoOne}]
    /\ itemRequest \in [ItemSessions -> ItemRequests \cup {Quiet}]
    /\ overtaken \subseteq ItemSessions /\ received \in 0..MaxRequests
    /\ patched \subseteq WorkItems /\ adrift \subseteq WorkItems

\* The active row and the assignee column name the same agent, however assign, unassign
\* and DONE interleave, unless a PATCH wrote the column, which leaves the rows alone.
RowNamesAssignee ==
    \A i \in WorkItems \ patched : Exists(i) => activeRow[i] \in {NoOne, workItem[i].assignee}

\* When its requests have ended, an item waits in the queue of its assignee or in none
\* ("Reassigned away or unassigned - cancel any active queue entry", queue_ingress_service.py:44).
\* Excused are an item with an assignee but no row when it was assigned, since that passes
\* for a first assignment; a PATCH of the assignee that another change overtook; and a
\* PATCH that died between its commits.  An assignment that finds a row sets it right.
EntryFollowsAssignee ==
    \A i \in WorkItems \ adrift :
        Exists(i) /\ (\A r \in ItemSessions : ~On(r, i)) => liveEntry[i] \in {NoOne, workItem[i].assignee}
=============================================================================
