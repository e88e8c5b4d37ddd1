# Mission Control: verification project

TLA+ models, TLC checks and TLAPS proofs of Mission Control: a FastAPI service over
PostgreSQL (`services/api`) that keeps the planning records (work items, assignments,
backlogs, sprints) and, in its control plane, queues assigned work for agents, dispatches it to
the OpenClaw gateway and tracks runs; the web UI (`apps/web`) and the command line
(`apps/cli`), which are clients of its HTTP API.

Paths below are relative to `services/api/app/`, `apps/web/src/` or `apps/cli/src/` of the
repository; the context says which.

## 1. The system

| Component | State | Operations | Interacts with | What is hard |
|---|---|---|---|---|
| Agent queue (`control_plane/application/queue_*`, `dispatch_selection_service`, `openclaw_dispatch_service`) | `control_plane_agent_queue` (entries and their status), `control_plane_dispatch_records` | ingest an assignment, push dispatch, manual dispatch, list | called by the planning assignment hook and by HTTP; calls the gateway | several requests interleave statement by statement; a network call between two transactions; commits missing or swallowed; crashes |
| OpenClaw adapter (`control_plane/infrastructure/sources/openclaw_adapter.py`) | none | `send_dispatch` | gateway over a WebSocket | answers lost, late or malformed |
| Run state machine (`worker_state_machine_service.py`, `repositories/{run,consumer}.py`, `api/dapr_router.py`) | runs, steps, timeline, processed messages, consumer offsets | apply a run or step event, reconcile at startup | fed by Dapr pub/sub, at least once and in any order | each statement commits on its own; crash and redelivery; concurrent events of a run |
| Watchdog (`watchdog_service.py`) | `watchdog_*` and lease columns of runs | sweep stale runs: retry, fail, quarantine | triggered by HTTP; races the run state machine | a snapshot acted upon later, a compare-and-set on the lease token only |
| Command intake and outbox (`command_service.py`, `delivery_service.py`) | commands, outbox rows | submit, publish succeeded, publish failed (retry or dead letter) | outbox read by a publisher that is not in the repository | lost updates between two failure reports, revived dead letters |
| Planning work items (`planning/application/work_item_service.py`, `_assignments.py`) | work items, assignment rows | create, PATCH, assign, unassign, delete | calls the agent queue through the assignment hook | three records of one assignee; reads before writes; partial failure between commits |
| Backlogs and sprints (`planning/application/backlog_service.py`, `repositories/backlogs/`) | backlogs, membership and ranks | start and complete a sprint, change a kind, add, remove and move items | ranks of `shared/lexorank.py` | one active sprint, a completion of several transactions |
| Bulk work item actions (`work_item_action_service.py`) | none of its own | bulk status, delete, move | work items, backlogs | partial failure |
| Rank strings (`shared/lexorank.py`, `lib/lexorank.ts`) | none | `rank_between`, `rank_before`, `rank_after` | backlogs, the board | neighbours with nothing between them |
| Read models, metrics, observability | none of their own | queries, cost import | - | - |
| Web UI: board, backlog, epics, list (`app/planning/*`) | fetched view, pending marks, dialogs, previews | change, move, order, delete, start and complete sprints | HTTP API | changes shown before the server agreed; answers in any order; a project switched meanwhile; other clients |
| Web UI: form dialogs and the work item workspace (`components/planning`) | drafts, saving flags, cached stories, labels, tasks | open, type, save, dismiss | HTTP API, the pages | a late answer meets another draft |
| Web UI: run timeline (`app/control-plane/timeline`) | filter, runs, selected run, events | select, filter, refresh | HTTP API | two effects that cancel nothing |
| CLI `mc` (`apps/cli/src`) | one invocation; the cursor of `run tail` | create, read, update, delete of every resource, control-plane commands | HTTP API | an answer that is lost; rows that share a time |
| Infrastructure scripts, migrations, development worker | - | - | deployment of the API | - |

What makes each correct:

- *Agent queue*: a work item is in the queue of one agent, once; an agent works on
  one entry at a time and the oldest goes first; an entry reported as queued is in
  the table; what the gateway was given is in the table; an entry that occupies an
  agent was really handed over; a cancelled entry is never revived; no request hangs.
- *Run state machine and watchdog*: a run follows its transition table, terminal
  runs stay terminal, a message takes effect once, every message is eventually
  recorded, a worker that obtained its lease during a sweep keeps its run.
- *Outbox*: attempts grow by one per reported failure up to the maximum, and a dead
  or published row stays so.
- *Planning*: the active assignment row and the assignee column agree; an item
  reassigned away has no live queue entry of the old agent; DONE closes the assignment.
- *Backlogs*: one active sprint per project; an item is on one backlog; a closed sprint keeps
  no open item.
- *Ranks*: a rank asked for between two others is between them.
- *Pages*: once every answer is in, a page shows what the server has; a spinner or a mark has a
  handler that ends it; a card takes one change at a time; two requests that make one move
  lose nothing when one of them fails.
- *Forms*: a save carries what was typed for the record it goes to; an answer closes its own form.
- *CLI*: the exit code tells a script what became of its change; `run tail` prints each row once.

`PROJECT.json` lists every component with what is modelled of it, and every hazard
at its line.

## 2. Plan

All of it is carried out; the order is that of importance.

1. `AgentQueue` (+ `MCAgentQueue`, `AgentQueueProofs`): the core.
2. `RunLifecycle`, `WorkerRuns` (+ `MCWorkerRuns`, `WorkerRunsProofs`): the abstract life of a run,
   and the state machine with the watchdog, at-least-once delivery and deaths; the second shown to
   implement the first when messages are handled one at a time.
3. `Assignments`, `Sprints`, `LexoRank` (+ `PlanningServiceProofs`): the planning service, request by
   request, and its ranks.
4. `PlanningPage` and the pages that extend it: `BoardPage`, `BacklogPage`, `EpicsPage`, `ListPage`,
   `FormDialogs`, `StoryDetail`, `TimelinePage` (+ `BoardPageProofs`, `EpicsPageProofs`,
   `FormDialogsProofs`; `ClientProofs` for the other four and the CLI).
5. `Cli` (+ `MCCli`, `ClientProofs`).
6. `MCPrograms` (+ `ProgramsProofs`): the instances of 3 to 5 in one TLC run, and the types of all of them proved.

Every invariant and action property of a passing run has its theorem; the liveness properties are model-checked (section 8).
Left for whoever goes on: the components section 8 lists.

## 3. The agent queue

### Correspondence

`AgentQueue` models one PostgreSQL table shared by database sessions. A session is one
HTTP request (`shared/db/session.py`, `get_db_session`); its `pc` is the statement it
executes next, and each action is one statement with the Python code up to the next.

| TLA+ | Code |
|---|---|
| `queue` | committed rows of `control_plane_agent_queue`; entry ids stand for the order of insertion |
| `pend[r]` | rows session `r` has inserted or updated and not committed; `Written(r, e)` is also the row lock |
| `req[r]` | the request: `ingest` (`POST /agent-queue/ingest`), `assign` (the assignment hook of planning), `dispatch` (`POST /agent-queue/dispatch`) |
| `cand`, `sel`, `selStatus` | `candidate` and `dispatched_entry` of `try_dispatch_next` |
| `sent`, `failed` | `control_plane_dispatch_records` |
| `delivered` | prompts the gateway has accepted (outside the repository) |
| `promised`, `orphans` | history only: what was answered as enqueued, claims without an outcome |
| `Cancel`, `CancelAfterWait`, `LookupExisting`, `Insert`, `InsertAfterWait` | `handle_assignment_changed` |
| `CheckCapacity` ... `Reread` | `try_dispatch_next` |
| `LookupAgent` ... `RecordFailed` | `_try_push_dispatch` / `manual_dispatch` and `dispatch_to_openclaw` |
| `Finish` | the end of the request: planning commits (`work_item_service.py`), the queue's own endpoints do not |
| `DeadlockVictim`, `Crash` | an aborted transaction, a dead process or connection |

The database is modelled as PostgreSQL's READ COMMITTED: a statement sees committed rows and
the session's own (`View`); an UPDATE of a row another session has written waits, and then
re-checks its condition on the new version; an INSERT waits for an uncommitted row of the same
work item (`IndexWaits`, the partial unique index) and then succeeds or fails. A cycle of
waits aborts one session.

Abstracted: an assignment's type and status are the Boolean `eligible` (`_is_eligible`); time
stamps, correlation ids, envelopes and prompts are left out. The status an assignment
was read with and the previous assignee are inputs chosen freely, because planning reads
them in statements of their own. The `assign` entry covers all three callers of the hook:
the PATCH path commits the work item before the hook and holds no planning lock, so any
interleaving can happen; the other two also hold the work item's row lock, which only
serialises requests of one item.

### Bounds

`MaxEntries` caps inserts. Two sessions are enough for every pairwise race of statements
(a wait is for the rows of one other session), and the invariants of `queue_safety` are proved for any
number of sessions. Two items
and two agents allow a reassignment to meet a dispatch of either. With three entries an agent's
queue holds a reverted entry and two younger ones, which the order of dispatch needs.

`AgentQueueLive.cfg` and `AgentQueueSwallowedAbort.cfg` start from a table with two queued
entries of two agents, the state two assignments with failed sends leave, because a deadlock needs
two live entries and two more inserts. They disable the deadlock check: requests stop once the
bound on inserts is used up and every client is content.

### Runs

| Run | Checks | Shows |
|---|---|---|
| `queue_safety` | `TypeOK`, `OneLiveEntryPerItem`, `AckPendingAccountedFor`, `DeliveredIsDurable`, `CancelledIsFinal` | two sessions, all entry points, crashes |
| `queue_one_session` | `CapacityBoundedBySessions`, `OldestFirst` | served one at a time, requests give an agent one story at a time and the oldest first |
| `queue_liveness` | `RequestsFinish` | lock waits and deadlocks always resolve |
| `queue_ingest_lost` | `PromisedIsQueued`, violated | an entry of `POST /ingest` for a busy agent is rolled back |
| `queue_swallowed_abort` | `PromisedIsQueued`, violated | an entry lost with a swallowed deadlock abort |
| `queue_fifo` | `OldestFirst`, violated | with two sessions, repeated positions let a younger entry go first |
| `queue_send_precondition` | `SendsAckPending`, violated | the re-read entry is not ACK_PENDING |

### Fairness

`FairSpec` gives each session strong fairness on its own steps. A statement that waits
for a row lock runs once the lock is free: PostgreSQL wakes waiters in turn, so a lock that is
freed again and again is obtained (strong). Calls to the gateway end by their timeouts.
Nothing is assumed of clients (`StartIngress`, `StartDispatch`) or of crashes. Deadlock
detection is PostgreSQL's own and is part of a session's steps.

### Proofs

`AgentQueueProofs` proves, for any sets of sessions, items and agents and any bound, from
the five named assumptions of `AgentQueue`: `TypeCorrect`, `OneLiveEntry`, `ClaimsAccountedFor`,
`DeliveriesDurable` and `CancellationsFinal`, all consequences of `Invariance`
(`Spec => []IInv`); `CapacityBounded`, for any finite set of sessions; and `OldestGoesFirst`, for one
session.

None of these is inductive alone. `IInv` adds

- of the table: locks have one holder, unused ids have no row, a row keeps its item, no
  *session* sees two live rows of an item (not only the committed table, since a commit publishes
  what a session sees), no uncommitted live row has a rival another session has touched
  (what the unique index is for), and nobody has written a cancelled row;
- of each request (`Flow`): which positions hold no locks, that the claimed entry is the one the
  session has made ACK_PENDING, and that the entry re-read after the claim is the candidate
  unless the candidate was cancelled.

The steps have six kinds of effect on the table (none, a status written, an insert, commit,
rollback, the revert of a failed dispatch); the table's part is proved once per kind
(`WriteStep`, `InsertStep`, `CommitStep`, `RollbackStep`, `RevertStep`), the rest once per action.
`Monotone` (rows never disappear and cancelled rows never change) carries the facts of one
session over the steps of another.

`CapacityBounded` counts. The bound itself is not inductive: several sessions may have found the agent idle
and have still to claim. `CapacityInv` bounds the *sum* of those sessions (`Passed`) and of the agent's active entries that none
of them is about to cancel (`Held`); a session that passes the check adds itself only when the agent has no
active entry, and a claim turns a member of the first set into one of the second. Entries about to be
cancelled have a session each (an injection into `Passed`), so the sum also bounds all of them.

`OldestGoesFirst` proves `OldestFirst` for requests served one at a time, with any items, agents, payloads
and crashes; `queue_fifo` shows that a second session refutes it. `OrderInv` says why: the entries in line for
an agent (queued in the session's view, or claimed by it and not yet settled) have positions in the order of their
insertion. The claimed entry has to be among them, since a failed dispatch puts it back with its old position,
and the committed rows alone have to be in order too, since a crash or the end of an ingest rolls back to them.

Only model-checked: `RequestsFinish` (liveness under fairness is outside the prover's reach) and the
four refuted claims.

## 4. Runs and the watchdog

### Correspondence

`WorkerRuns` models the tables behind a run and the two kinds of request that write them:
an event delivered by Dapr (`POST /v1/control-plane/dapr/events`, `process_message`) and a sweep of
the watchdog (`evaluate_stale_runs`). The repositories commit after every statement, so
each action is one transaction with the Python code up to the next, and a request can
die between any two of them.

| TLA+ | Code |
|---|---|
| `run` | `control_plane_runs`: status, lease token, current step, watchdog attempts |
| `steps` | statuses in `control_plane_run_steps` |
| `recorded` | how many timeline entries each event has, by decision |
| `audit` | the watchdog's timeline entries |
| `processed` | `control_plane_processed_messages` |
| `pc`, `msg`, `at` | the transaction session `r` executes next, the event it handles, the run it works on |
| `snap`, `todo` | the rows a request has read, and what a sweep has still to look at |
| `verdict`, `doing` | the decision reached and, in a sweep, the action behind it |
| `cut` | history only: the run and transaction at which a request died, or failed for want of a time |
| `Deliver`, `CheckDuplicate` | the delivery and `is_message_processed` |
| `ReadRun`, `CreateRun`, `UpdateStatus`, `SetLease` | `_apply_run_transition` |
| `RaiseUntimed` | `_default_timeout_at`, which raises when `occurred_at` is no time |
| `ReadStep`, `CreateStep`, `UpdateStep`, `Point` | `_apply_step_transition` |
| `AppendTimeline`, `MarkProcessed` | the rest of `process_message` |
| `StartSweep`, `PassOver`, `SweepRun`, `AppendAudit`, `EndSweep` | `evaluate_stale_runs` |
| `Crash` | a dead process or connection, a failed statement |

`RunLifecycle` is what the control plane promises of a run: created once, started, ended once; steps
begin and end only while it runs; an intervention takes a running run back or fails it, and
only as often as its type allows.

Abstracted: an event is a record of its kind, its run and the status it asks for. Time
does not appear, except that the time of a submit or a start may be one that cannot be read (`Untimed`; the router takes
any string): a leased run may be found stale at any sweep (`Reasons`), which includes every
clock. A new lease token is one of the payload or any unused one (`new_uuid`). Offsets, error texts,
owners and correlation ids are left out. `reconcile_startup`
only appends timeline entries and has no caller in the service, so it is left out too.

### Bounds

One run and one step: no statement touches two runs, and a sweep's list of runs only decides what it does
next. The six events of `OneLife` take a run through submit, start, a step and success with a second
start, whose time cannot be read, for the life after a retry; redelivery and reordering are not
bounded. `Rivals` are four events that write one row through different statements, and a submit whose time cannot be read, which the other
submit, or its absence, meets.
`Outcomes` are two ends of one run and the two events that are rejected unread.
`MaxAttempts = 2` allows a retry and the quarantine that follows. The run is of the batch
type, the only one whose policy looks at earlier attempts; that critical runs are failed at once and others
retried without limit is in the model and in the proofs, and in no run. `MaxCrashes = 1` puts a death at
each transaction in turn; the two-session run has none, since the overlap itself is the hazard there;
that `EndIsRecorded` and `ProcessedIsRecorded` hold with any number of deaths is proved, not run.

### Runs

| Run | Checks | Shows |
|---|---|---|
| `runs_one_session` | `TypeOK`, `LeaseWhileRunning`, `CurrentStepRuns`, `ImplementsLifecycle`, `EventuallyProcessed` | handled one at a time, with duplicates, reordering, sweeps and a death, requests implement `RunLifecycle` and lose no event they can handle |
| `runs_two_sessions` | `ProcessedIsRecorded`, `RedeliveriesBounded`, `EndIsRecorded`, `QuarantineAfterRetry` | what survives when two requests overlap |
| `runs_terminal_final` | `TerminalIsFinal`, violated | two overlapping requests: a run that has ended changes its status |

`TerminalIsFinal` is what `_RUN_ALLOWED_TRANSITIONS` and the test of duplicate terminal outcomes say.
It holds for one request at a time (it follows from `ImplementsLifecycle`) and fails for two: both read
RUNNING, both pass the table, and `update_run_status` compares nothing.

`LeaseWhileRunning`, `CurrentStepRuns` and `EndIsRecorded` make exceptions for runs with a transaction
owed or cut off (`Owed`). These are the windows the code really has: a status without its lease, a
pointer not yet cleared, a change whose entry was never written. The lease write also fails for good when its event's
time cannot be read (`_default_timeout_at`, worker_state_machine_service.py:370): the start leaves a run that runs without a lease, and its
redelivery is rejected. A sweep between status and lease needs a second request, and no property covers it.

### Fairness

A request that is being handled goes on (weak fairness of a session's steps): each statement returns or
raises. Dapr delivers an event again until it is answered with success, so a delivery that is
possible again and again happens (strong fairness, per event, since sweeps and other events may take the
session in between). Sweeps and deaths are not fair. `EventuallyProcessed` needs deaths to be
finitely many, which `MaxCrashes` makes them. Its one exception is a submit without a readable time whose run no other submit
creates: it raises on every delivery. (In the runs, the run of such a submit has another submit too, or the submit is left out.)

### Proofs

`WorkerRunsProofs` proves, for any sets of events, runs, steps, tokens and sessions, any types of runs and
any bounds, from the four named assumptions of `WorkerRuns`: `TypeCorrect`, `LedgerBehindTimeline`,
`EndsRecorded` and `RetriedBeforeQuarantine`, all consequences of `Invariance`.

`ProcessedIsRecorded` says nothing of a request between its two last transactions, so `IInv` adds `FlowInv`:
at each position, which event and run the session works on, and that an event about to be marked has an entry.
`EndInv` extends `EndIsRecorded` to the values a session is about to record (`AboutToRecord`), status by
status, since two sessions may end one run differently.
`RetryInv` extends `QuarantineAfterRetry` from the audit to the rows and to the *snapshots*: an attempt
count of one or more, also one that a sweep has read and not yet acted on, comes from a retry that is in the
timeline, owed or cut off.

Under `OneAtATime` (at most one session, as in the run `runs_one_session`) four more are proved: `LeasesFollowStatus`,
`PointersFollowSteps`, `RefinesLifecycle` (each step of `WorkerRuns` maps to a step of
`RunLifecycle` or to a stutter) and `EndsStay`. Their invariant `SoloInv` (`SoloInvariance`) says that what the session
has read is still what the rows hold when it writes, which is what overlap takes away. `EndsStay` and the
violation run of `TerminalIsFinal` belong together: the table of transitions is right, and only two requests at once get around
it.

`DecisionsBounded` proves `RedeliveriesBounded` for any finite set of sessions. `BudgetInv` tells two times apart: before the
ledger knows an event, each decision in its timeline has a session about to mark it, or a death; afterwards
only the sessions that found it new and have yet to decide can add one, and they fit the budget
together with the decisions there are.

Only model-checked: `EventuallyProcessed`.

## 5. The planning service

### Correspondence

Both modules model requests on database sessions of their own. An action is one transaction, or
the SELECTs whose result a later transaction uses; what a transaction locks it holds until it commits,
so its statements need not be told apart.

| `Assignments` | Code |
|---|---|
| `workItem` | `work_items`: status and `current_assignee_agent_id` |
| `activeRow` | the agent of the row of `work_item_assignments` with `unassigned_at` NULL |
| `liveEntry` | the agent whose queue holds the item's live entry |
| `itemRequest` | the request of a session, how far it is and what it has read |
| `overtaken` | sessions whose item another has assigned or closed since they read: an UPDATE may miss a row that was inserted after it began |
| `patched`, `adrift` | history only, see below |
| `CreateWorkItem`, `DeleteWorkItem` | `create_work_item`, `delete_work_item` |
| `Read`, `ReadRow` | `get_by_id`, `get_active_assignment` |
| `UpdateWorkItem`, `NotifyAssignmentChanged` | `update_work_item` up to its first commit, and from there |
| `AssignAgent`, `UnassignCurrentAgent` | `assign_agent_with_event`, `unassign_agent_with_event`, the hook, the commit |
| `RequestDies` | a dead process or connection |

The hook (`QueueAfter`) is what `handle_assignment_changed` comes to in one transaction; its
statements, waits and failures are in `AgentQueue`. Statuses are a set: the code only asks whether one is
TODO or DONE.

| `Sprints` | Code |
|---|---|
| `backlog` | `backlogs`: kind and status |
| `place` | `backlog_items`: the backlog of an item |
| `progress` | `work_items`: open or done |
| `plan` | the request of a session and what it has read |
| `astray` | history only, see below |
| `CreateBacklog` ... `ReopenItem` | requests of one transaction |
| `StartSprint`, `TransitionBacklogKind`, `UpdateBacklog` | `start_sprint`, `transition_backlog_kind`: the checks, then the write, which the partial unique index on active sprints may refuse |
| `CompleteSprint`, `ReadOpenItems`, `MoveNonDoneItems`, `CloseSprint` | `complete_sprint` |
| `MoveItemToActiveSprint`, `MoveItemToProductBacklog`, `MoveItem` | the two moves of an item |

### What the excuses say about the code

Two properties hold but for items that a history variable names. Each excuse is a behaviour the code
has, and without it TLC finds the property violated:

- `patched`: a PATCH of the assignee writes the column and leaves the assignment rows alone.
- `adrift`: an item with an assignee and no row (from a PATCH, or created so) is assigned to somebody
  else: the hook takes that for a first assignment and the old agent keeps the queue entry, although the
  ingress service says "Reassigned away or unassigned — cancel any active queue entry"
  (`queue_ingress_service.py:44`). The same comes of a PATCH that another assignment overtook between its
  commits, and of one that died there.
- `astray`: an item is added to, or reopened on, a closed sprint, or comes to one that is just being
  completed; a completion may also name the sprint itself, or a closed one, as its target.

### Bounds

Two sessions: every hazard here is a race of two requests. One item and two agents, since no statement
touches two items and two agents are enough for the wrong one to keep the entry. `MaxRequests = 4` lets
a PATCH, an assignment and a third request overlap after a creation. For sprints, three backlogs (the
product backlog, the sprint, a target) and two items (one moves, one races); `MaxPlans = 4` is a completion
with three requests in its midst.

### Proofs

`PlanningServiceProofs` proves `RowNamesAssignee` and `EntryFollowsAssignee` for any sessions, items and agents and
any number of requests. Neither is inductive. `Stage` says what the position of a request tells of it; `KnowsColumn`, that a
PATCH nobody overtook still knows the assignee column; and `Owed`, that an entry of the wrong agent
has a hook under way that will take it away, which is how the second property holds again when the
requests have ended. Of the backlogs it proves `CompletedSprintKeepsNothingOpen`; `CompletionsInv` adds what a completion has still to move
(its item list covers the open items of the sprint) and has moved (none is left when it is about to close).

## 6. The clients

### Correspondence

JavaScript runs one handler at a time, so in `PlanningPage` an action is the code between two awaits and a
*call* is a handler that waits, with what its closure captured. The server takes a request in one step and the
handler goes on in another, so answers arrive in any order; a request may be made and reported as failed,
when its answer is lost. `MaxCalls` bounds the calls and events of a behaviour. `selected` is the project
selector, `view` what was fetched, `pending` the marks on cards, `srv` the rows the page's requests touch.
Other clients are actions of their own where the page's properties depend on them.

| Module | Code | What it adds |
|---|---|---|
| `BoardPage` | `app/planning/board` | status and order shown at once and rolled back; the second request of a drop; refetches that install a board; sprint events of other tabs |
| `BacklogPage` | `app/planning/backlog` | a move as two requests, a swap of two boards as two concurrent ones, a completion in the two transactions of `complete_sprint`, the dialogs for starting and completing a sprint and deleting a board |
| `EpicsPage` | `app/planning/epics-overview` | previews fetched once and then patched; the set of fetches in flight, which a switch of project fills anew |
| `ListPage` | `app/planning/list` | each change ends in a refetch; boards and epics offered as targets |
| `FormDialogs` | `epic-form-dialog`, `backlog-create-board-dialog`, `backlog-edit-dialog`, `story-form` | drafts by the record they were seeded from and the opening they were typed in |
| `StoryDetail` | `work-item-workspace-state` and its dialog | the hook that outlives its story: draft, labels, tasks, deletion |
| `TimelinePage` | `app/control-plane/timeline` | two effects and a refresh with the closure of an earlier render |
| `Cli` | `apps/cli/src` | one invocation: options, lookup, body, request, an answer, an error before or after the commit or a timeout, exit code; `run tail` with its cursor and `seenIds` |
| `LexoRank` | `lib/lexorank.ts`, `shared/lexorank.py` | a rank as the sequence of its letters' indexes, and a column whose stories are dropped at will |

Abstracted everywhere: texts, layout, toasts, lists of options, filters that only choose what is shown. A rank
on the board is a member of a small set; its arithmetic is `LexoRank`. In the CLI, an item is
an id with a key, a type and a project.

### Bounds

The programs share no state: `MCPrograms` picks one when the behaviour begins and the others stay
as they are, so the state space of `programs` is a sum. `MaxCalls = 3` lets two changes and a refetch or a switch of project
overlap; `MaxPreviews` bounds the fetches of previews under way when the user unfolds an epic (those a switch of project starts come on top). There are two
projects, two stories, two epics; the boards of the backlog page are a default board, an active sprint and an open
one, or four that may change places. A tail gets three rows at three times and polls three times: rows of one time in two batches,
and one that comes late. `Base = 4` is the smallest alphabet with a middle letter and a neighbour on each side;
five drops reach ranks of two letters. `rank_between` takes the real `Base = 26`, whose first bad pair is
nine drops away.

Deadlock is not checked in these two runs, since a program whose calls are used up and answered
stops. All properties are safety, so no fairness is assumed.

### Runs

| Run | Checks | Shows |
|---|---|---|
| `programs` | the types of all eleven programs | |
| | `RowNamesAssignee`, `EntryFollowsAssignee` | column, assignment row and queue entry of an item name one agent |
| | `CompletedSprintKeepsNothingOpen` | a closed sprint is emptied, wherever its completion dies |
| | `BoardAgreesWhenQuiet`, `PendingHasHandler`, `OneChangePerStory`, `LoadingIsAwaited` | the board's optimistic changes end in what the server has, its marks and its spinner end |
| | `MoveNeverLosesStory`, `BoardRanksDistinct`, `OpenStoriesStayVisible` | moves of two requests, and completions |
| | `PreviewSpinnerEnds`, `PreviewAgreesWhenQuiet` | previews of the epics page |
| | `ListAgreesWhenQuiet`, `DetailAgreesWhenQuiet`, `EventsBelongToRun` | list, workspace and timeline show what the server has when every answer is in |
| | `SavesWhatItOpened`, `ClosesOnlyAfterEscape`, `SavesItsOwnDraft`, `TypedTextStays` | drafts go where they belong and are not lost to a late answer |
| | `ExitCodeTellsEffect`, `TailPrintsEachRowOnce` | the command line |
| | `RoomMeansBetween` | a drop between two ranks with room between them is strictly between |
| `rank_between` | `DroppedWhereAsked`, violated | with the 26 letters of the code a drop can land outside its neighbours |

`DroppedWhereAsked` is what `rank_between` says of itself ("Return a rank lexicographically between *before*
and *after*", `shared/lexorank.py:28`). It fails where the neighbours are adjacent at their length: `rankBetween("n", "nb")` answers `"nn"`.

The history variables that excuse a story or a page (`overlap`, `cleared`, `strayed`, `taken`, `late`, `torn`,
`hazy`, `muddled`, `escaped`, `crossed`, `blurred`, `raced`) stand for behaviours the code has, most of them listed next. How much of a hazard an
excuse takes away differs, and `PROJECT.json` says it hazard by hazard:

- overlap itself is covered on the list, the timeline and the previews: `muddled`, `raced` and `hazy` are set only where the code goes wrong, by an
  answer that is out of date when it is shown, a change that was lost, a failed refetch or another client;
- on the board, the backlog page's swaps and the workspace, requests that overlap on one story (`overlap`, `cleared`), one pair of ranks (`torn`) or one
  side (`blurred`) are excused altogether, since each rolls back to what it captured: there the properties say that changes that do not meet
  are kept apart from each other, from the refetches and from the other stories;
- `late`, `crossed` and `escaped` name single events the code lets happen: a story that comes to a sprint after its completion moved the others, a form turned to
  another epic, a form dismissed while it saves.

### Proofs

`BoardPageProofs`, `FormDialogsProofs` and `EpicsPageProofs` prove, for any stories, projects and number of calls:
every marked card has a handler that unmarks it, a story has one change out unless a refetch took its mark, a spinner waits for a
load (board) or a fetch (preview), a save carries the draft of its record, and an answer closes another opening only if
its own had ended before. Each invariant adds what the waiting handlers have captured (`Shape`, `SaveShape`, `EpicCallShape`) and who
owns a flag (`MarkedAlone`, `OneOwner`, `InFlightUnderway`): a flag shared by several handlers is right only
because one handler at a time may clear it.

The agreement of a page with the server is stated for a quiet page only, so its proofs (`BoardIsCurrent`,
`PreviewsAreCurrent`, `ListIsCurrent`, `DetailIsCurrent`) say what holds while answers are out: which handler will bring the page
up to date, that a story nobody excused has a handler that will put it right, and what the answer in its hands will show (`BoardAgrees`,
`PreviewsAgree`, `ListInv`). The workspace does so for the text, the labels and the tasks of a story each by itself (`SidesAgree`),
since a label and a task may be under way at a time: what a handler captured is what the server still has, and what is on show is
what the server will have if it agrees (`TasksCall`, `LabelsCall`).

`ClientProofs` proves the rest, for any sets of stories, boards, runs and rows: `NoStoryLost` and
`RanksDistinct` carry each two-request operation by the request it is at (`StoriesInv`, `RanksInv`: the ranks the second write
will produce, whichever of the two has been made); `OpenStoriesVisible`; `SavesOwnDraft` and `TypedTextKept` (`DraftInv`: a draft on
show is one of the story loaded); `EventsOfTheRun`; and of the CLI `ExitCodes` (`WireInv`: what each position of a command knows of
the request on the wire) and `TailPrintsOnce` (`TailInv`: the rows printed, hidden and yet to come, by their times and the cursor).

`ProgramsProofs` proves `ProgramsTypeOK` of `ProgramsSpec`, the very specification the run checks: a program keeps its own
invariant and leaves the others parked. Each page's types are a theorem of its own as well, and their proofs rest on more than the
shape of the variables:

- epics page: rows that arrive after the project was left are shown, and a switch of project runs the preview effect once more with the
  epics unfolded in the project left, so that fetches are marked as under way for the new project with those epics, or for none;
- forms: the stories on no backlog are counted down by attachments, so they have to be at least the creations about to attach
  theirs (`OwedStories`, `Promised`: a cardinality of the set of calls);
- backlog page: the ranks a swap sends come from the view, however old it is, and the server's boards keep a rank through every change
  (`RowTypes`, and `RanksStay`, `RowsStay` of each write);
- workspace: a refused patch or deletion puts back what its handler captured, which is a list of tasks with a status each, whichever
  story is shown by then (`HandlerTypes`);
- list page: a move's second request may find the row gone (`ListServer`: a row is on a board only while it is a row).

`PlanningServiceProofs` proves `RoomMeansBetween` for any alphabet of more than three letters, columns and ranks of any length and any
number of drops. The functions are recursive over the letters of a rank, and induction goes by way of sets of numbers: one without a
least element is empty (`LeastNatural`, `SetInduction`). From it come the value of a string as that of its prefix times `Base` plus a
letter (`ValueDefined`, `ValueUnique`), the digits of a number and its value again (`DigitsValue`), and both directions between the order
of values and the first letter that differs (`LessByLetter`, `LetterByLess`). The midpoint of two values lies between them
(`Midpoint`), padding keeps the order of ranks (`PaddedLess`), and stripping trailing lowest letters takes a rank neither below the upper
neighbour (`AboveStripped`) nor above the lower one (`BelowStripped`).

`CliAssumption`, `ListAssumption`, `BacklogAssumption`, `InitialSprintsAssumption` and their like name what is assumed of the
inputs: that ids are those of the selectors and items, that initial tables keep their foreign keys, and that names kept apart in the code
are apart.

Trying the proofs, and runs with one call more than `programs` allows, corrected three properties that were stated too strongly:
`OpenStoriesStayVisible` now excuses a sprint completed into itself (section 7), `TypedTextStays` a draft
that was seeded for another story, and `DetailAgreesWhenQuiet` a story shown whose changes went to another one, which a late
answer had put in its place. The last also showed that the server's tasks go by their own ids, whatever their story is, and the model
now has them so.

Only model-checked of these programs: that a drop with the 26 letters of the code can land outside its neighbours, for which TLC has the
counterexample. A proof shows where that cannot happen, with room at the longer neighbour's length.

## 7. What the models brought up

Beyond the violation runs, these behaviours of the code were met while modelling; each is in the model, mostly
as the reason for an excuse in a property.

Planning service:

- an item created with an assignee gets no assignment row and is never queued; DONE and deletion leave its queue entry alone;
- unassign runs the hook also when it closed no row, so that one that races an assignment cancels the new agent's entry;
- `complete_sprint` takes the sprint itself, a closed backlog or one of another project as target; items may be added to a closed sprint;
- deleting an epic sets its children free (`work_item_service.py:295-298`, a foreign key with SET NULL), where
  `API_CONTRACTS.md:248` has "Hard delete. Cascades to children."

Web UI:

- `moveToBacklog` (`backlog-page-hooks.ts:37-48`, `list/page.tsx:160-168`) adds before it removes, and the server
  refuses an item that is on a backlog (`backlog_service.py:214-218`): the move never succeeds for a story on a board;
- a refetch of the board clears all marks while changes are out (`board/page.tsx:95,119,141`); an answer for a project left behind is installed;
- the epic form takes another epic without its values while it is open, and saves the values of the first to the second
  (`epics-page-hooks.ts:51-67`, `epic-form-dialog.tsx:125-139`);
- completing a sprint without open stories after the boards failed to load names the sprint itself as the target
  (`defaultBacklogId ?? backlogId`, `backlog-page-hooks.ts:56`); a story reopened meanwhile stays in the closed sprint;
- a board's edit dialog is reset and closed by the late answer of another one (`backlog-edit-dialog.tsx:129-133`);
- `createStory` retried after its second request failed makes a second story (`story-form-actions.ts:191-226`);
- in the workspace (`work-item-workspace-state.ts`), labels vanish after a save (107-121), a failed deletion of a task
  brings back the whole old list (264-269), a draft may be seeded from the cached old story (91-95), a late answer
  installs one story in the dialog of another, and what is then changed there is changed of the other;
- the timeline cancels nothing (110-143), its refresh goes on with the selection of an earlier render (168-171);
- a late refresh of another project leaves the list page loading for ever;
- a switch of project fetches the previews of the epics unfolded in the project left, for the new project or for none
  (`epics-overview/page.tsx:208-213` in the commit of 80-91), and marks them as under way.

CLI: `run tail` drops rows beyond a full batch, and rows dated before the cursor that come late
(`control-plane/commands.ts:228-263`); exit code 3 leaves open whether the change was made, and so does
exit code 2, since the API commits inside its repositories: `complete_sprint` may answer 404 after it has moved the stories
(`backlog_service.py:323-328`), `update_work_item` an error after its commit (`work_item_service.py:272-283`).

## 8. Not modelled

- Command intake is two inserts; the outbox's failure reports are called by tests only, since nothing in this version
  reads the outbox. The consumer recovery service has no caller either.
- Bulk and quick actions are loops over requests that are modelled, each committed on its own.
- The derived status of parents: nothing sets the mode that switches it on.
- Read models, metrics, the observability import, labels, projects, agents, the activity log: queries and
  single-row records without a protocol.
- The dashboards and the settings page of the web UI (fixtures and presentation), its search, sorting and filters.
- Deployment scripts, the development worker and migrations.

Out of the prover's reach, and therefore left to TLC: liveness under fairness and ENABLED (`RequestsFinish`,
`EventuallyProcessed`). Every other property of a passing run is proved for all values of the constants.

The OpenClaw gateway, Dapr and PostgreSQL are modelled from how the code uses them and
are marked external in `PROJECT.json`.
