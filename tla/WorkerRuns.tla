----------------------------- MODULE WorkerRuns -----------------------------
(***************************************************************************)
(* Runs of the control plane: Dapr delivers run and step events at least   *)
(* once and in any order to process_message, which decides each on a row   *)
(* it has read and then writes the run, its lease, the step, the timeline  *)
(* and the processed-messages ledger in separate transactions; a sweep of  *)
(* the watchdog reads all runs in flight and acts on them one by one, with *)
(* a compare-and-set on the lease token.  Sessions interleave between the  *)
(* transactions, and a request may die between any two of them.            *)
(*                                                                         *)
(* Sources: services/api/app/control_plane/application/worker_state_       *)
(* machine_service.py, watchdog_service.py, infrastructure/repositories/   *)
(* run.py and consumer.py, api/dapr_router.py, api/router.py (sweep).      *)
(***************************************************************************)
EXTENDS Naturals, FiniteSets

CONSTANTS
  Sessions,     (* requests being served: deliveries and sweeps            *)
  Runs, Steps,  (* run ids and step ids                                    *)
  NoRun, NoStep, NoLease, NoMsg,
  Tokens,       (* lease tokens, of the payloads and freshly made          *)
  Messages,     (* the events published, by message                        *)
  Untimed,      (* the submits and starts whose occurred_at is no time     *)
  RunType,      (* the type each run is submitted with                     *)
  Reasons,      (* why a leased run can be stale: RUN_TIMEOUT before the
                   grace of HEARTBEAT_LOSS only if so configured           *)
  MaxAttempts,  (* bound: a run with so many interventions is not swept    *)
  MaxCrashes    (* bound: requests that die                                *)

RunEnds  == {"SUCCEEDED", "FAILED", "CANCELLED"}
StepEnds == {"SUCCEEDED", "FAILED", "CANCELLED", "SKIPPED"}

RunStatuses  == {"NONE", "PENDING", "RUNNING"} \cup RunEnds
StepStatuses == {"NONE", "RUNNING"} \cup StepEnds

(* The events: kind and the status it asks for stand for the event type.
   A step event may lack its step id, a start its lease token.             *)
RunEvent   == [kind: {"run"}, run: Runs, to: {"PENDING", "RUNNING"} \cup RunEnds,
               token: Tokens \cup {NoLease}, id: Nat]
StepEvent  == [kind: {"step"}, run: Runs, to: {"RUNNING"} \cup StepEnds,
               step: Steps \cup {NoStep}, id: Nat]
OtherEvent == [kind: {"other"}, run: Runs, id: Nat]

ASSUME MessagesAssumption == Messages \subseteq RunEvent \cup StepEvent \cup OtherEvent
ASSUME UntimedAssumption ==
  Untimed \subseteq {m \in Messages : m.kind = "run" /\ m.to \in {"PENDING", "RUNNING"}}
ASSUME NullsAssumption ==
  /\ NoRun \notin Runs /\ NoStep \notin Steps
  /\ NoLease \notin Tokens /\ NoMsg \notin Messages
ASSUME ReasonsAssumption == Reasons \subseteq {"HEARTBEAT_LOSS", "RUN_TIMEOUT"}
ASSUME BoundsAssumption == MaxAttempts \in Nat /\ MaxCrashes \in Nat

VARIABLES
  run,        (* rows of control_plane_runs                                *)
  steps,      (* statuses in control_plane_run_steps                       *)
  recorded,   (* timeline entries of each message, by decision             *)
  audit,      (* timeline entries of the watchdog                          *)
  processed,  (* control_plane_processed_messages                          *)
  pc,         (* the transaction each session executes next                *)
  msg,        (* the event a session handles                               *)
  at,         (* the run a session is working on                           *)
  snap,       (* the rows a session has read                               *)
  todo,       (* the runs a sweep has still to look at                     *)
  verdict,    (* the decision a session has reached                        *)
  doing,      (* the watchdog's action behind that decision                *)
  crashes,    (* requests that have died                                   *)
  cut         (* history: where: the run and the transaction not executed  *)

rows   == <<run, steps>>
logs   == <<recorded, audit, processed>>
locals == <<msg, at, snap, todo, verdict, doing>>
deaths == <<crashes, cut>>
vars   == <<rows, logs, pc, locals, deaths>>

-----------------------------------------------------------------------------
Actions   == {"RETRY", "FAIL", "QUARANTINE"}
Decisions == {"ACCEPTED", "REJECTED"}

Row   == [status: RunStatuses, lease: Tokens \cup {NoLease},
          step: Steps \cup {NoStep}, attempt: Nat]
NoRow == [status |-> "NONE", lease |-> NoLease, step |-> NoStep, attempt |-> 0]
NoRows == [k \in Runs |-> NoRow]

(* _append_watchdog_timeline: decision, action, watchdog_attempt_before.   *)
AuditEntry == [run: Runs, decision: Decisions, action: Actions, before: Nat]

RunTransitions(st) ==
  CASE st = "PENDING" -> {"RUNNING", "FAILED", "CANCELLED"}
    [] st = "RUNNING" -> RunEnds
    [] OTHER          -> {}

StepTransitions(st) == IF st = "RUNNING" THEN StepEnds ELSE {}

(* The row session r read for the run it works on.                         *)
Seen(r) == snap[r][at[r]]

InFlight == {k \in Runs : run[k].status \in {"PENDING", "RUNNING"}}

Goto(r, label)   == pc' = [pc EXCEPT ![r] = label]
Write(k, row)    == run' = [run EXCEPT ![k] = row]
Decide(r, d)     == verdict' = [verdict EXCEPT ![r] = d]
Remember(r, k)   == snap' = [snap EXCEPT ![r] = [NoRows EXCEPT ![k] = run[k]]]

(* new_uuid: a token nobody holds or remembers.                            *)
Unused == {x \in Tokens : /\ \A k \in Runs : run[k].lease # x
                          /\ \A r \in Sessions, k \in Runs : snap[r][k].lease # x
                          /\ \A m \in Messages : m.kind = "run" => m.token # x}

Init ==
  /\ run = NoRows
  /\ steps = [k \in Runs |-> [t \in Steps |-> "NONE"]]
  /\ recorded = [m \in Messages |-> [d \in Decisions |-> 0]]
  /\ audit = {}
  /\ processed = {}
  /\ pc = [r \in Sessions |-> "idle"]
  /\ msg = [r \in Sessions |-> NoMsg]
  /\ at = [r \in Sessions |-> NoRun]
  /\ snap = [r \in Sessions |-> NoRows]
  /\ todo = [r \in Sessions |-> {}]
  /\ verdict = [r \in Sessions |-> "REJECTED"]
  /\ doing = [r \in Sessions |-> "NONE"]
  /\ crashes = 0
  /\ cut = {}

(* The request ends: its session forgets everything.                       *)
Return(r) ==
  /\ Goto(r, "idle")
  /\ msg' = [msg EXCEPT ![r] = NoMsg]
  /\ at' = [at EXCEPT ![r] = NoRun]
  /\ snap' = [snap EXCEPT ![r] = NoRows]
  /\ todo' = [todo EXCEPT ![r] = {}]
  /\ Decide(r, "REJECTED")
  /\ doing' = [doing EXCEPT ![r] = "NONE"]

-----------------------------------------------------------------------------
(* process_message.                                                        *)

(* Dapr delivers an event until it is answered with success, and may       *)
(* deliver it again after that (external): when the answer is lost, or the *)
(* bridge answers 503 because its state store or acknowledgement failed.   *)
Deliver(r, m) ==
  /\ pc[r] = "idle"
  /\ Goto(r, "check")
  /\ msg' = [msg EXCEPT ![r] = m]
  /\ at' = [at EXCEPT ![r] = m.run]
  /\ UNCHANGED <<rows, logs, snap, todo, verdict, doing, deaths>>

(* Where process_message goes with a message that is not a duplicate.      *)
Dispatch(m) ==
  IF m.kind = "run" \/ (m.kind = "step" /\ m.step # NoStep) THEN "read" ELSE "record"

(* Fault: the ledger is not consulted.                                     *)
CheckNothing(r) ==
  /\ pc[r] = "check"
  /\ Goto(r, Dispatch(msg[r]))
  /\ UNCHANGED <<rows, logs, locals, deaths>>

CheckDuplicate(r) ==
  /\ pc[r] = "check"
  /\ \/ /\ msg[r] \in processed
        /\ Return(r)
     \/ /\ msg[r] \notin processed
        /\ Goto(r, Dispatch(msg[r]))
        /\ UNCHANGED locals
  /\ UNCHANGED <<rows, logs, deaths>>

(* A run is created by PENDING alone and then follows the table; a step
   event needs a running run.                                              *)
AfterReadRun(row, m) ==
  CASE m.kind = "step" /\ row.status = "RUNNING" -> "readStep"
    [] m.kind = "run" /\ row.status = "NONE" /\ m.to = "PENDING" -> "create"
    [] m.kind = "run" /\ m.to \in RunTransitions(row.status) -> "update"
    [] OTHER -> "record"

ReadRun(r) ==
  /\ pc[r] = "read"
  /\ Remember(r, at[r])
  /\ Goto(r, AfterReadRun(run[at[r]], msg[r]))
  /\ UNCHANGED <<rows, logs, msg, at, todo, verdict, doing, deaths>>

(* _default_timeout_at (371) parses occurred_at before it creates a run
   (219) and before the lease of a start (249).  It raises on what is no
   time, and the request fails, on every delivery: nothing of a submit is
   written, and a start leaves its run running without a lease.            *)
RaiseUntimed(r) ==
  /\ pc[r] \in {"create", "lease"}
  /\ msg[r] \in Untimed
  /\ cut' = IF pc[r] = "lease" THEN cut \cup {<<at[r], "untimed">>} ELSE cut
  /\ Return(r)
  /\ UNCHANGED <<rows, logs, crashes>>

(* The insert of a run that another request created meanwhile fails on the
   primary key, and the request with it.                                   *)
CreateRun(r) ==
  /\ pc[r] = "create"
  /\ msg[r] \notin Untimed
  /\ \/ /\ run[at[r]].status = "NONE"
        /\ Write(at[r], [NoRow EXCEPT !.status = "PENDING"])
        /\ Goto(r, "record")
        /\ Decide(r, "ACCEPTED")
        /\ UNCHANGED <<msg, at, snap, todo, doing>>
     \/ /\ run[at[r]].status # "NONE"
        /\ Return(r)
        /\ UNCHANGED run
  /\ UNCHANGED <<steps, logs, deaths>>

(* update_run_status: the step pointer of the row read, whatever is there.
   Every status a table entry leads to is followed by a lease write.       *)
UpdateStatus(r) ==
  /\ pc[r] = "update"
  /\ Write(at[r], [run[at[r]] EXCEPT !.status = msg[r].to, !.step = Seen(r).step])
  /\ Goto(r, "lease")
  /\ UNCHANGED <<steps, logs, locals, deaths>>

(* The lease a run gets with its new status: that of the payload or a new
   one when it starts, none when it ends.                                  *)
NextLease(m) ==
  IF m.to # "RUNNING" THEN {NoLease}
  ELSE IF m.token # NoLease THEN {m.token} ELSE Unused

(* Fault: the lease of an ended run is left in its row.                    *)
SetLeaseOfStartsOnly(r) ==
  /\ pc[r] = "lease"
  /\ msg[r] \notin Untimed
  /\ \E x \in NextLease(msg[r]) :
       Write(at[r], IF msg[r].to = "RUNNING" /\ run[at[r]].lease = Seen(r).lease
                      THEN [run[at[r]] EXCEPT !.lease = x] ELSE run[at[r]])
  /\ Goto(r, "record")
  /\ Decide(r, "ACCEPTED")
  /\ UNCHANGED <<steps, logs, msg, at, snap, todo, doing, deaths>>

(* Fault: the event is accepted only if the lease could be written.        *)
SetLeaseOrReject(r) ==
  /\ pc[r] = "lease"
  /\ msg[r] \notin Untimed
  /\ \/ /\ run[at[r]].lease = Seen(r).lease
        /\ \E x \in NextLease(msg[r]) : Write(at[r], [run[at[r]] EXCEPT !.lease = x])
        /\ Decide(r, "ACCEPTED")
     \/ run[at[r]].lease # Seen(r).lease /\ UNCHANGED <<run, verdict>>
  /\ Goto(r, "record")
  /\ UNCHANGED <<steps, logs, msg, at, snap, todo, doing, deaths>>

(* compare_and_set_run_lease on the lease of the row read; the result is
   ignored.                                                                *)
SetLease(r) ==
  /\ pc[r] = "lease"
  /\ msg[r] \notin Untimed
  /\ \/ /\ run[at[r]].lease = Seen(r).lease
        /\ \E x \in NextLease(msg[r]) : Write(at[r], [run[at[r]] EXCEPT !.lease = x])
     \/ run[at[r]].lease # Seen(r).lease /\ UNCHANGED run
  /\ Goto(r, "record")
  /\ Decide(r, "ACCEPTED")
  /\ UNCHANGED <<steps, logs, msg, at, snap, todo, doing, deaths>>

AfterReadStep(st, m) ==
  CASE st = "NONE" /\ m.to = "RUNNING" -> "createStep"
    [] m.to \in StepTransitions(st)    -> "updateStep"
    [] OTHER                           -> "record"

ReadStep(r) ==
  /\ pc[r] = "readStep"
  /\ Goto(r, AfterReadStep(steps[at[r]][msg[r].step], msg[r]))
  /\ UNCHANGED <<rows, logs, locals, deaths>>

WriteStep(r) == steps' = [steps EXCEPT ![at[r]][msg[r].step] = msg[r].to]

CreateStep(r) ==
  /\ pc[r] = "createStep"
  /\ \/ /\ steps[at[r]][msg[r].step] = "NONE"
        /\ WriteStep(r)
        /\ Goto(r, "point")
        /\ UNCHANGED locals
     \/ /\ steps[at[r]][msg[r].step] # "NONE"
        /\ Return(r)
        /\ UNCHANGED steps
  /\ UNCHANGED <<run, logs, deaths>>

UpdateStep(r) ==
  /\ pc[r] = "updateStep"
  /\ WriteStep(r)
  /\ Goto(r, "point")
  /\ UNCHANGED <<run, logs, locals, deaths>>

(* Fault: the pointer to a step that has ended is kept.                    *)
KeepStepId(r) == IF msg[r].to = "RUNNING" THEN msg[r].step ELSE Seen(r).step

(* current_step_id after the event: the step that begins, and no step when
   the current one ends.                                                   *)
NextStepId(r) ==
  IF msg[r].to = "RUNNING" THEN msg[r].step
  ELSE IF Seen(r).step = msg[r].step THEN NoStep ELSE Seen(r).step

(* The run's row is rewritten with the status read, which was RUNNING.     *)
Point(r) ==
  /\ pc[r] = "point"
  /\ Write(at[r], [run[at[r]] EXCEPT !.status = Seen(r).status, !.step = NextStepId(r)])
  /\ Goto(r, "record")
  /\ Decide(r, "ACCEPTED")
  /\ UNCHANGED <<steps, logs, msg, at, snap, todo, doing, deaths>>

(* Fault: only accepted events leave an entry.                             *)
AppendAccepted(r) ==
  /\ pc[r] = "record"
  /\ recorded' = [recorded EXCEPT ![msg[r]]["ACCEPTED"] =
                    IF verdict[r] = "ACCEPTED" THEN @ + 1 ELSE @]
  /\ Goto(r, "mark")
  /\ UNCHANGED <<rows, audit, processed, locals, deaths>>

(* Fault: a rejected event is answered with an error.                      *)
RaiseOnRejection(r) ==
  /\ pc[r] = "record"
  /\ \/ /\ verdict[r] = "ACCEPTED"
        /\ recorded' = [recorded EXCEPT ![msg[r]]["ACCEPTED"] = @ + 1]
        /\ Goto(r, "mark")
        /\ UNCHANGED locals
     \/ /\ verdict[r] = "REJECTED"
        /\ Return(r)
        /\ UNCHANGED recorded
  /\ UNCHANGED <<rows, audit, processed, deaths>>

(* append_timeline_entry.                                                  *)
AppendTimeline(r) ==
  /\ pc[r] = "record"
  /\ recorded' = [recorded EXCEPT ![msg[r]][verdict[r]] = @ + 1]
  /\ Goto(r, "mark")
  /\ UNCHANGED <<rows, audit, processed, locals, deaths>>

(* mark_message_processed_and_checkpoint; the offset, written in the same
   transaction, is read by no request.                                     *)
MarkProcessed(r) ==
  /\ pc[r] = "mark"
  /\ processed' = processed \cup {msg[r]}
  /\ Return(r)
  /\ UNCHANGED <<rows, recorded, audit, deaths>>

-----------------------------------------------------------------------------
(* evaluate_stale_runs.                                                    *)

(* list_in_flight_runs.                                                    *)
StartSweep(r) ==
  /\ pc[r] = "idle"
  /\ \A k \in InFlight : run[k].attempt < MaxAttempts
  /\ InFlight # {}
  /\ Goto(r, "sweep")
  /\ snap' = [snap EXCEPT ![r] = [k \in Runs |-> IF k \in InFlight THEN run[k] ELSE NoRow]]
  /\ todo' = [todo EXCEPT ![r] = InFlight]
  /\ UNCHANGED <<rows, logs, msg, at, verdict, doing, deaths>>

(* _detect_reason: a run without a lease is stale at once, a leased one
   when the clock says so.                                                 *)
ReasonsFor(row) ==
  IF row.status # "RUNNING" THEN {"NONE"}
  ELSE IF row.lease = NoLease THEN {"STALE_LEASE"} ELSE {"NONE"} \cup Reasons

(* Fault: a batch run is retried twice.                                    *)
LenientAction(k, row, reason) ==
  CASE RunType[k] \in {"CRITICAL", "USER_FLOW"} -> "FAIL"
    [] RunType[k] \in {"BATCH", "ASYNC_PIPELINE"} ->
         IF row.attempt >= 2 THEN "QUARANTINE" ELSE "RETRY"
    [] OTHER -> IF reason = "RUN_TIMEOUT" THEN "FAIL" ELSE "RETRY"

(* Fault: a batch run is quarantined without a retry.                      *)
HastyAction(k, row, reason) ==
  CASE RunType[k] \in {"CRITICAL", "USER_FLOW"} -> "FAIL"
    [] RunType[k] \in {"BATCH", "ASYNC_PIPELINE"} -> "QUARANTINE"
    [] OTHER -> IF reason = "RUN_TIMEOUT" THEN "FAIL" ELSE "RETRY"

(* _choose_action.                                                         *)
ChooseAction(k, row, reason) ==
  CASE RunType[k] \in {"CRITICAL", "USER_FLOW"} -> "FAIL"
    [] RunType[k] \in {"BATCH", "ASYNC_PIPELINE"} ->
         IF row.attempt >= 1 THEN "QUARANTINE" ELSE "RETRY"
    [] OTHER -> IF reason = "RUN_TIMEOUT" THEN "FAIL" ELSE "RETRY"

(* Fault: the watchdog's state is written as the status of the run.        *)
StateAsStatus(action, row) ==
  [status  |-> IF action = "RETRY" THEN "PENDING" ELSE "FAILED_BY_WATCHDOG",
   lease   |-> NoLease,
   step    |-> IF action = "FAIL" THEN row.step ELSE NoStep,
   attempt |-> row.attempt + 1]

(* _next_status, with the other columns of the row the sweep has read.     *)
AfterAction(action, row) ==
  [status  |-> IF action = "RETRY" THEN "PENDING" ELSE "FAILED",
   lease   |-> NoLease,
   step    |-> IF action = "FAIL" THEN row.step ELSE NoStep,
   attempt |-> row.attempt + 1]

(* A run in which the sweep finds nothing wrong.                           *)
PassOver(r) ==
  /\ pc[r] = "sweep"
  /\ \E k \in todo[r] :
       /\ "NONE" \in ReasonsFor(snap[r][k])
       /\ todo' = [todo EXCEPT ![r] = @ \ {k}]
  /\ UNCHANGED <<rows, logs, pc, msg, at, snap, verdict, doing, deaths>>

(* apply_watchdog_action_if_lease_matches: the lease token alone is
   compared, with that of the row read.                                    *)
SweepRun(r) ==
  /\ pc[r] = "sweep"
  /\ \E k \in todo[r] : \E reason \in ReasonsFor(snap[r][k]) \ {"NONE"} :
       LET action == ChooseAction(k, snap[r][k], reason) IN
       /\ \/ /\ run[k].lease = snap[r][k].lease
             /\ Write(k, AfterAction(action, snap[r][k]))
             /\ Decide(r, "ACCEPTED")
          \/ /\ run[k].lease # snap[r][k].lease
             /\ Decide(r, "REJECTED")
             /\ UNCHANGED run
       /\ at' = [at EXCEPT ![r] = k]
       /\ todo' = [todo EXCEPT ![r] = @ \ {k}]
       /\ doing' = [doing EXCEPT ![r] = action]
  /\ Goto(r, "audit")
  /\ UNCHANGED <<steps, logs, msg, snap, deaths>>

(* _append_watchdog_timeline.                                              *)
AppendAudit(r) ==
  /\ pc[r] = "audit"
  /\ audit' = audit \cup {[run |-> at[r], decision |-> verdict[r],
                           action |-> doing[r], before |-> Seen(r).attempt]}
  /\ Goto(r, "sweep")
  /\ at' = [at EXCEPT ![r] = NoRun]
  /\ Decide(r, "REJECTED")
  /\ doing' = [doing EXCEPT ![r] = "NONE"]
  /\ UNCHANGED <<rows, recorded, processed, msg, snap, todo, deaths>>

EndSweep(r) ==
  /\ pc[r] = "sweep"
  /\ todo[r] = {}
  /\ Return(r)
  /\ UNCHANGED <<rows, logs, deaths>>

-----------------------------------------------------------------------------
(* The transactions some other has prepared: without them the rows and the
   logs disagree.                                                          *)
Halfway == {"lease", "point", "record", "mark", "audit"}

(* The request dies between two transactions: the process, its database
   connection or a statement fails.                                        *)
Crash(r) ==
  /\ pc[r] # "idle"
  /\ crashes < MaxCrashes
  /\ crashes' = crashes + 1
  /\ cut' = IF pc[r] \in Halfway THEN cut \cup {<<at[r], pc[r]>>} ELSE cut
  /\ Return(r)
  /\ UNCHANGED <<rows, logs>>

Handle(r) ==
  \/ CheckDuplicate(r) \/ ReadRun(r) \/ RaiseUntimed(r) \/ CreateRun(r)
  \/ UpdateStatus(r) \/ SetLease(r) \/ ReadStep(r) \/ CreateStep(r) \/ UpdateStep(r)
  \/ Point(r) \/ AppendTimeline(r) \/ MarkProcessed(r)

Sweep(r) == PassOver(r) \/ SweepRun(r) \/ AppendAudit(r) \/ EndSweep(r)

Next ==
  \E r \in Sessions :
    \/ \E m \in Messages : Deliver(r, m)
    \/ StartSweep(r) \/ Handle(r) \/ Sweep(r) \/ Crash(r)

Spec == Init /\ [][Next]_vars

(* A request in progress takes its next step, and Dapr keeps delivering an
   event that is not answered with success.                                *)
Fairness ==
  /\ \A r \in Sessions : WF_vars(Handle(r) \/ Sweep(r))
  /\ \A m \in Messages : SF_vars(\E r \in Sessions : Deliver(r, m))

FairSpec == Spec /\ Fairness

-----------------------------------------------------------------------------
(* Properties.                                                             *)

Labels == {"idle", "check", "read", "create", "update", "lease", "readStep",
           "createStep", "updateStep", "point", "record", "mark", "sweep", "audit"}

(* The rows, logs and sessions are of their types (create_run, update_run_
   status and the two compare-and-sets write no other columns).            *)
TypeOK ==
  /\ run \in [Runs -> Row]
  /\ steps \in [Runs -> [Steps -> StepStatuses]]
  /\ recorded \in [Messages -> [Decisions -> Nat]]
  /\ audit \subseteq AuditEntry
  /\ processed \subseteq Messages
  /\ pc \in [Sessions -> Labels]
  /\ msg \in [Sessions -> Messages \cup {NoMsg}]
  /\ at \in [Sessions -> Runs \cup {NoRun}]
  /\ snap \in [Sessions -> [Runs -> Row]]
  /\ todo \in [Sessions -> SUBSET Runs]
  /\ verdict \in [Sessions -> Decisions]
  /\ doing \in [Sessions -> Actions \cup {"NONE"}]
  /\ crashes \in 0 .. MaxCrashes
  /\ cut \subseteq Runs \X (Halfway \cup {"untimed"})

(* Some session is about to execute, or would have executed had it not
   died, one of these transactions for run k.                              *)
Owed(k, labels) ==
  \/ \E r \in Sessions : at[r] = k /\ pc[r] \in labels
  \/ \E l \in labels : <<k, l>> \in cut

Entries(m) == recorded[m]["ACCEPTED"] + recorded[m]["REJECTED"]

(* With one request at a time, deliveries and sweeps in any order, with
   duplicates and deaths, do to the runs what the life cycle allows.       *)
Lifecycle == INSTANCE RunLifecycle WITH
  status   <- [k \in Runs |-> run[k].status],
  attempts <- [k \in Runs |-> run[k].attempt]

ImplementsLifecycle == Lifecycle!Spec

(* With one request at a time a run has a lease exactly while it runs,
   unless the lease write that follows its status (242, 252) is still due
   or was lost, with a death or a time that cannot be parsed: only such a
   run does the watchdog take for STALE_LEASE.                             *)
LeaseWhileRunning ==
  \A k \in Runs :
    (run[k].status = "RUNNING") # (run[k].lease # NoLease) => Owed(k, {"lease", "untimed"})

(* With one request at a time the current step of a run is one that runs,
   unless the rewriting of the pointer (335) is still due or was lost.     *)
CurrentStepRuns ==
  \A k \in Runs :
    run[k].step # NoStep /\ steps[k][run[k].step] # "RUNNING" => Owed(k, {"point"})

(* Every event ends up in the ledger: the failures of process_message are
   answered with an error, after which Dapr delivers again.  One kind fails
   on every delivery: the submit without a time of a run that no other
   submit creates.  A start without a time fails too, but leaves the run
   RUNNING, and is rejected when it comes again.                           *)
EventuallyProcessed ==
  <>(\A m \in Messages \ processed :
       m \in Untimed /\ m.to = "PENDING" /\ run[m.run].status = "NONE")

(* The ledger never runs ahead of the timeline: an event that will not be
   handled again has left its decision there.                              *)
ProcessedIsRecorded == \A m \in processed : Entries(m) > 0

(* An event is decided more than once only while requests overlap or after
   one died before the ledger knew of the event: not once more for every
   redelivery.                                                             *)
RedeliveriesBounded ==
  \A m \in Messages : Entries(m) <= Cardinality(Sessions) + crashes

(* The timeline explains how a run ended, whichever of several requests
   had the last word: an accepted event asking for that status or an
   intervention that does not retry.                                       *)
EndIsRecorded ==
  \A k \in Runs :
    run[k].status \in RunEnds =>
      \/ \E m \in Messages :
           /\ m.kind = "run" /\ m.run = k /\ m.to = run[k].status
           /\ recorded[m]["ACCEPTED"] > 0
      \/ /\ run[k].status = "FAILED"
         /\ \E e \in audit : e.run = k /\ e.decision = "ACCEPTED" /\ e.action # "RETRY"
      \/ Owed(k, {"lease", "record", "audit"})

(* A batch run is given up only after it was retried: two sweeps that
   overlap do not skip the retry (_choose_action).                         *)
QuarantineAfterRetry ==
  \A e \in audit :
    e.action = "QUARANTINE" =>
      \/ \E f \in audit :
           f.run = e.run /\ f.decision = "ACCEPTED" /\ f.action = "RETRY"
      \/ Owed(e.run, {"audit"})

(* _RUN_ALLOWED_TRANSITIONS has no way out of SUCCEEDED, FAILED and
   CANCELLED (44): a run that has ended keeps its status.                  *)
TerminalIsFinal ==
  [][\A k \in Runs :
       run[k].status \in RunEnds => (run[k].status)' = run[k].status]_vars
=============================================================================
