-------------------------- MODULE WorkerRunsProofs --------------------------
(***************************************************************************)
(* Proofs about WorkerRuns for any number of overlapping requests, any     *)
(* runs, events and run types, and any bounds.                             *)
(***************************************************************************)
EXTENDS WorkerRuns, FiniteSetTheorems, TLAPS

-----------------------------------------------------------------------------
(* The inductive invariant.                                                *)

(* The positions of a session in process_message.                          *)
Handling == {"check", "read", "create", "update", "lease", "readStep",
             "createStep", "updateStep", "point", "record", "mark"}
OnStep   == {"readStep", "createStep", "updateStep", "point"}

IsBatch(k) == RunType[k] \in {"BATCH", "ASYNC_PIPELINE"}

(* What a session's position says of its locals.                           *)
Flow(r) ==
  /\ pc[r] \in Handling => msg[r] \in Messages /\ at[r] = msg[r].run
  /\ pc[r] = "read" => msg[r].kind \in {"run", "step"}
  /\ pc[r] \in {"create", "update", "lease"} => msg[r].kind = "run"
  /\ pc[r] \in {"read"} \cup OnStep /\ msg[r].kind = "step" => msg[r].step \in Steps
  /\ pc[r] \in OnStep => msg[r].kind = "step" /\ Seen(r).status = "RUNNING"
  /\ pc[r] = "mark" => Entries(msg[r]) > 0
  /\ pc[r] = "audit" =>
       /\ at[r] \in Runs /\ doing[r] \in Actions
       /\ doing[r] = "QUARANTINE" => IsBatch(at[r]) /\ Seen(r).attempt >= 1

FlowInv == \A r \in Sessions : Flow(r)

(* Session r is about to record what made k end in status st.              *)
AboutToRecord(r, k, st) ==
  /\ at[r] = k
  /\ \/ pc[r] = "lease" /\ msg[r].to = st
     \/ pc[r] = "record" /\ verdict[r] = "ACCEPTED" /\ msg[r].kind = "run" /\ msg[r].to = st
     \/ pc[r] = "audit" /\ verdict[r] = "ACCEPTED" /\ doing[r] # "RETRY" /\ st = "FAILED"

EndKnown(k, st) ==
  \/ \E m \in Messages :
       m.kind = "run" /\ m.run = k /\ m.to = st /\ recorded[m]["ACCEPTED"] > 0
  \/ /\ st = "FAILED"
     /\ \E e \in audit : e.run = k /\ e.decision = "ACCEPTED" /\ e.action # "RETRY"
  \/ \E r \in Sessions : AboutToRecord(r, k, st)
  \/ \E l \in {"lease", "record", "audit"} : <<k, l>> \in cut

EndInv == \A k \in Runs, st \in RunEnds : run[k].status = st => EndKnown(k, st)

(* The retry of run k is in the timeline, or was about to be.              *)
RetryKnown(k) ==
  \/ \E f \in audit : f.run = k /\ f.decision = "ACCEPTED" /\ f.action = "RETRY"
  \/ \E r \in Sessions :
       at[r] = k /\ pc[r] = "audit" /\ verdict[r] = "ACCEPTED" /\ doing[r] = "RETRY"
  \/ <<k, "audit">> \in cut

RetryInv ==
  /\ \A k \in Runs : IsBatch(k) =>
       /\ run[k].attempt >= 1 => RetryKnown(k)
       /\ \A r \in Sessions : snap[r][k].attempt >= 1 => RetryKnown(k)
  /\ \A e \in audit : e.action = "QUARANTINE" => RetryKnown(e.run)

IInv == TypeOK /\ FlowInv /\ ProcessedIsRecorded /\ EndInv /\ RetryInv

-----------------------------------------------------------------------------
(* The events.                                                             *)
LEMMA MessageShape ==
  ASSUME NEW m \in Messages
  PROVE  /\ m.run \in Runs
         /\ m.kind = "run" => m.to \in RunStatuses /\ m.token \in Tokens \cup {NoLease}
         /\ m.kind = "step" => m.to \in StepStatuses /\ m.step \in Steps \cup {NoStep}
<1>1. m \in RunEvent \/ m \in StepEvent \/ m \in OtherEvent
  BY MessagesAssumption
<1>2. CASE m \in RunEvent
  BY <1>2 DEF RunEvent, RunStatuses, RunEnds
<1>3. CASE m \in StepEvent
  BY <1>3 DEF StepEvent, StepStatuses, StepEnds
<1>4. CASE m \in OtherEvent
  BY <1>4 DEF OtherEvent
<1> QED BY <1>1, <1>2, <1>3, <1>4

-----------------------------------------------------------------------------
(* Types.                                                                  *)

LEMMA ReturnTypes ==
  ASSUME TypeOK, NEW r \in Sessions, Return(r)
  PROVE  /\ pc' \in [Sessions -> Labels]
         /\ msg' \in [Sessions -> Messages \cup {NoMsg}]
         /\ at' \in [Sessions -> Runs \cup {NoRun}]
         /\ snap' \in [Sessions -> [Runs -> Row]]
         /\ todo' \in [Sessions -> SUBSET Runs]
         /\ verdict' \in [Sessions -> Decisions]
         /\ doing' \in [Sessions -> Actions \cup {"NONE"}]
<1>1. NoRows \in [Runs -> Row]
  BY DEF NoRows, NoRow, Row, RunStatuses
<1> QED
  BY <1>1 DEF TypeOK, Return, Goto, Decide, Labels, Decisions

LEMMA WriteTypes ==
  ASSUME TypeOK, NEW k \in Runs, NEW row \in Row, Write(k, row)
  PROVE  run' \in [Runs -> Row]
BY DEF TypeOK, Write

LEMMA TypeStep == ASSUME TypeOK, FlowInv, Next PROVE TypeOK'
<1> USE DEF rows, logs, locals, deaths
<1>0. PICK r \in Sessions :
        \/ \E m \in Messages : Deliver(r, m)
        \/ StartSweep(r) \/ Handle(r) \/ Sweep(r) \/ Crash(r)
  BY DEF Next
<1>a. Flow(r)
  BY DEF FlowInv
<1>b. pc[r] \in Handling => msg[r] \in Messages /\ at[r] = msg[r].run /\ at[r] \in Runs
  BY <1>a, MessageShape DEF Flow
<1>c. \A k \in Runs : run[k] \in Row /\ snap[r][k] \in Row
  BY DEF TypeOK
<1>d. at[r] \in Runs => Seen(r) \in Row
  BY <1>c DEF Seen
<1>1. CASE \E m \in Messages : Deliver(r, m)
  BY <1>1, MessageShape DEF TypeOK, Deliver, Goto, Labels
<1>2. CASE CheckDuplicate(r)
  BY <1>2, ReturnTypes DEF TypeOK, CheckDuplicate, Goto, Labels, Dispatch
<1>3. CASE ReadRun(r)
  <2>1. NoRow \in Row
    BY DEF NoRow, Row, RunStatuses
  <2>2. snap' \in [Sessions -> [Runs -> Row]]
    BY <1>3, <2>1, <1>c DEF TypeOK, ReadRun, Remember, NoRows
  <2>3. pc' \in [Sessions -> Labels]
    BY <1>3 DEF TypeOK, ReadRun, Goto, Labels, AfterReadRun
  <2> QED BY <1>3, <2>2, <2>3 DEF TypeOK, ReadRun
<1>4. CASE CreateRun(r)
  <2>1. [NoRow EXCEPT !.status = "PENDING"] \in Row /\ at[r] \in Runs
    BY <1>4, <1>b DEF NoRow, Row, RunStatuses, CreateRun, Handling
  <2>2. CASE run[at[r]].status = "NONE"
    BY <1>4, <2>1, <2>2, WriteTypes DEF TypeOK, CreateRun, Goto, Decide, Labels, Decisions
  <2>3. CASE run[at[r]].status # "NONE"
    BY <1>4, <2>3, ReturnTypes DEF TypeOK, CreateRun
  <2> QED BY <2>2, <2>3
<1>5. CASE UpdateStatus(r)
  <2>1. [run[at[r]] EXCEPT !.status = msg[r].to, !.step = Seen(r).step] \in Row /\ at[r] \in Runs
    BY <1>5, <1>a, <1>b, <1>c, <1>d, MessageShape DEF UpdateStatus, Handling, Flow, Row
  <2> QED
    BY <1>5, <2>1, WriteTypes DEF TypeOK, UpdateStatus, Goto, Labels
<1>6. CASE SetLease(r)
  <2>1. at[r] \in Runs /\ msg[r] \in Messages /\ msg[r].kind = "run"
    BY <1>6, <1>a, <1>b DEF SetLease, Handling, Flow
  <2>2. NextLease(msg[r]) \subseteq Tokens \cup {NoLease}
    BY <2>1, MessageShape DEF NextLease, Unused
  <2>3. \A x \in NextLease(msg[r]) : [run[at[r]] EXCEPT !.lease = x] \in Row
    BY <2>1, <2>2, <1>c DEF Row
  <2>4. run' \in [Runs -> Row]
    BY <1>6, <2>1, <2>3, WriteTypes DEF SetLease, TypeOK
  <2> QED
    BY <1>6, <2>4 DEF TypeOK, SetLease, Goto, Decide, Labels, Decisions
<1>7. CASE ReadStep(r)
  BY <1>7 DEF TypeOK, ReadStep, Goto, Labels, AfterReadStep
<1>8. CASE CreateStep(r)
  <2>1. at[r] \in Runs /\ msg[r].step \in Steps /\ msg[r].to \in StepStatuses
    BY <1>8, <1>a, <1>b, MessageShape DEF CreateStep, Handling, OnStep, Flow
  <2>2. CASE steps[at[r]][msg[r].step] = "NONE"
    <3>1. WriteStep(r) /\ Goto(r, "point") /\ UNCHANGED <<run, locals, logs, deaths>>
      BY <1>8, <2>2 DEF CreateStep
    <3> QED BY <2>1, <3>1 DEF TypeOK, WriteStep, Goto, Labels
  <2>3. CASE steps[at[r]][msg[r].step] # "NONE"
    BY <1>8, <2>3, ReturnTypes DEF TypeOK, CreateStep
  <2> QED BY <2>2, <2>3
<1>9. CASE UpdateStep(r)
  <2>1. at[r] \in Runs /\ msg[r].step \in Steps /\ msg[r].to \in StepStatuses
    BY <1>9, <1>a, <1>b, MessageShape DEF UpdateStep, Handling, OnStep, Flow
  <2> QED
    BY <1>9, <2>1 DEF TypeOK, UpdateStep, WriteStep, Goto, Labels
<1>10. CASE Point(r)
  <2>1. at[r] \in Runs /\ msg[r].step \in Steps /\ Seen(r) \in Row
    BY <1>10, <1>a, <1>b, <1>d DEF Point, Handling, OnStep, Flow
  <2>2. [run[at[r]] EXCEPT !.status = Seen(r).status, !.step = NextStepId(r)] \in Row
    BY <2>1, <1>c DEF Row, NextStepId
  <2> QED
    BY <1>10, <2>1, <2>2, WriteTypes DEF TypeOK, Point, Goto, Decide, Labels, Decisions
<1>11. CASE AppendTimeline(r)
  BY <1>11, <1>b DEF TypeOK, AppendTimeline, Goto, Labels, Decisions, Handling
<1>12. CASE MarkProcessed(r)
  BY <1>12, <1>b, ReturnTypes DEF TypeOK, MarkProcessed, Handling
<1>13. CASE StartSweep(r)
  <2>1. [k \in Runs |-> IF k \in InFlight THEN run[k] ELSE NoRow] \in [Runs -> Row]
    BY <1>c DEF NoRow, Row, RunStatuses
  <2> QED
    BY <1>13, <2>1 DEF TypeOK, StartSweep, Goto, Labels, InFlight
<1>14. CASE PassOver(r)
  BY <1>14 DEF TypeOK, PassOver
<1>15. CASE SweepRun(r)
  <2>1. PICK k \in todo[r] : \E reason \in ReasonsFor(snap[r][k]) \ {"NONE"} :
          LET action == ChooseAction(k, snap[r][k], reason) IN
          /\ \/ /\ run[k].lease = snap[r][k].lease
                /\ Write(k, AfterAction(action, snap[r][k]))
                /\ Decide(r, "ACCEPTED")
             \/ /\ run[k].lease # snap[r][k].lease
                /\ Decide(r, "REJECTED")
                /\ UNCHANGED run
          /\ at' = [at EXCEPT ![r] = k]
          /\ todo' = [todo EXCEPT ![r] = @ \ {k}]
          /\ doing' = [doing EXCEPT ![r] = action]
    BY <1>15 DEF SweepRun
  <2>2. k \in Runs /\ snap[r][k] \in Row
    BY <2>1, <1>c DEF TypeOK
  <2>3. \A a \in Actions : AfterAction(a, snap[r][k]) \in Row
    BY <2>2, NullsAssumption DEF AfterAction, Row, RunStatuses, RunEnds
  <2>4. \A reason : ChooseAction(k, snap[r][k], reason) \in Actions
    BY DEF ChooseAction, Actions
  <2>5. run' \in [Runs -> Row]
    BY <2>1, <2>2, <2>3, <2>4, WriteTypes DEF TypeOK
  <2>6. /\ at' \in [Sessions -> Runs \cup {NoRun}]
        /\ todo' \in [Sessions -> SUBSET Runs]
        /\ doing' \in [Sessions -> Actions \cup {"NONE"}]
    BY <2>1, <2>2, <2>4 DEF TypeOK
  <2>7. verdict' \in [Sessions -> Decisions]
    BY <2>1 DEF TypeOK, Decide, Decisions
  <2>8. /\ pc' = [pc EXCEPT ![r] = "audit"]
        /\ UNCHANGED <<steps, logs, msg, snap, deaths>>
    BY <1>15 DEF SweepRun, Goto
  <2>9. pc' \in [Sessions -> Labels]
    BY <2>8 DEF TypeOK, Labels
  <2> QED
    BY <2>5, <2>6, <2>7, <2>8, <2>9 DEF TypeOK
<1>16. CASE AppendAudit(r)
  <2>1. [run |-> at[r], decision |-> verdict[r], action |-> doing[r],
         before |-> Seen(r).attempt] \in AuditEntry
    BY <1>16, <1>a, <1>d DEF AppendAudit, Flow, AuditEntry, TypeOK, Row
  <2> QED
    BY <1>16, <2>1 DEF TypeOK, AppendAudit, Goto, Decide, Labels, Decisions
<1>17. CASE EndSweep(r)
  BY <1>17, ReturnTypes DEF TypeOK, EndSweep
<1>18. CASE Crash(r)
  <2>1. pc[r] \in Halfway => at[r] \in Runs
    BY <1>a, <1>b DEF Flow, Handling, Halfway
  <2>2. crashes' \in 0 .. MaxCrashes
    BY <1>18, BoundsAssumption DEF Crash, TypeOK
  <2> QED
    BY <1>18, <2>1, <2>2, ReturnTypes DEF TypeOK, Crash
<1>19. CASE RaiseUntimed(r)
  <2>1. pc[r] = "lease" => at[r] \in Runs
    BY <1>b DEF Handling
  <2>2. cut' \subseteq Runs \X (Halfway \cup {"untimed"})
    BY <1>19, <2>1 DEF RaiseUntimed, TypeOK
  <2> QED
    BY <1>19, <2>2, ReturnTypes DEF TypeOK, RaiseUntimed
<1> QED
  BY <1>0, <1>1, <1>2, <1>3, <1>4, <1>5, <1>6, <1>7, <1>8, <1>9, <1>10, <1>11, <1>12, <1>13,
     <1>14, <1>15, <1>16, <1>17, <1>18, <1>19 DEF Handle, Sweep

-----------------------------------------------------------------------------
(* A step of one session leaves the others alone and only adds to the logs. *)

By(r) ==
  \/ \E m \in Messages : Deliver(r, m)
  \/ StartSweep(r) \/ Handle(r) \/ Sweep(r) \/ Crash(r)

SameLocals(s) ==
  /\ pc'[s] = pc[s] /\ msg'[s] = msg[s] /\ at'[s] = at[s] /\ snap'[s] = snap[s]
  /\ verdict'[s] = verdict[s] /\ doing'[s] = doing[s]

LEMMA Locality ==
  ASSUME TypeOK, NEW r \in Sessions, By(r)
  PROVE  \A s \in Sessions \ {r} : SameLocals(s)
<1> USE DEF SameLocals, TypeOK, locals, Goto, Decide, Return
<1>1. CASE \E m \in Messages : Deliver(r, m)
  BY <1>1 DEF Deliver
<1>2. CASE StartSweep(r) \/ Sweep(r)
  BY <1>2 DEF StartSweep, Sweep, PassOver, SweepRun, AppendAudit, EndSweep
<1>3. CASE Crash(r) \/ RaiseUntimed(r)
  BY <1>3 DEF Crash, RaiseUntimed
<1>4. CASE CheckDuplicate(r) \/ ReadRun(r) \/ CreateRun(r) \/ UpdateStatus(r) \/ SetLease(r)
  BY <1>4 DEF CheckDuplicate, ReadRun, Remember, CreateRun, UpdateStatus, SetLease
<1>5. CASE \/ ReadStep(r) \/ CreateStep(r) \/ UpdateStep(r) \/ Point(r)
           \/ AppendTimeline(r) \/ MarkProcessed(r)
  BY <1>5 DEF ReadStep, CreateStep, UpdateStep, Point, AppendTimeline, MarkProcessed
<1> QED BY <1>1, <1>2, <1>3, <1>4, <1>5 DEF By, Handle

LEMMA LogsGrow ==
  ASSUME TypeOK, FlowInv, NEW r \in Sessions, By(r)
  PROVE  /\ \A m \in Messages, d \in Decisions : recorded'[m][d] >= recorded[m][d]
         /\ audit \subseteq audit' /\ cut \subseteq cut'
<1> USE DEF logs, deaths
<1>0. \A m \in Messages, d \in Decisions : recorded[m][d] \in Nat
  BY DEF TypeOK
<1>1. CASE AppendTimeline(r)
  <2>1. msg[r] \in Messages /\ verdict[r] \in Decisions
    BY <1>1 DEF AppendTimeline, FlowInv, Flow, Handling, TypeOK
  <2>2. recorded' = [recorded EXCEPT ![msg[r]][verdict[r]] = @ + 1]
    BY <1>1 DEF AppendTimeline
  <2>3. \A m \in Messages, d \in Decisions :
          recorded'[m][d] = IF m = msg[r] /\ d = verdict[r] THEN recorded[m][d] + 1
                                                           ELSE recorded[m][d]
    BY <2>1, <2>2 DEF TypeOK
  <2> QED BY <1>0, <1>1, <2>3 DEF AppendTimeline
<1>2. CASE \/ \E m \in Messages : Deliver(r, m)
           \/ StartSweep(r) \/ Sweep(r) \/ Crash(r) \/ RaiseUntimed(r) \/ MarkProcessed(r)
  BY <1>0, <1>2 DEF Deliver, StartSweep, Sweep, PassOver, SweepRun, AppendAudit, EndSweep,
                    Crash, RaiseUntimed, MarkProcessed
<1>3. CASE \/ CheckDuplicate(r) \/ ReadRun(r) \/ CreateRun(r) \/ UpdateStatus(r)
           \/ SetLease(r) \/ ReadStep(r) \/ CreateStep(r) \/ UpdateStep(r) \/ Point(r)
  BY <1>0, <1>3 DEF CheckDuplicate, ReadRun, RaiseUntimed, CreateRun, UpdateStatus, SetLease, ReadStep,
                    CreateStep, UpdateStep, Point
<1> QED BY <1>1, <1>2, <1>3 DEF By, Handle

(* An entry of the timeline stays, and appending leaves one.               *)
LEMMA EntriesStay ==
  ASSUME TypeOK, FlowInv, NEW r \in Sessions, By(r)
  PROVE  /\ \A m \in Messages : Entries(m) > 0 => Entries(m)' > 0
         /\ AppendTimeline(r) => Entries(msg[r])' > 0 /\ msg'[r] = msg[r]
<1>1. \A m \in Messages, d \in Decisions : recorded[m][d] \in Nat
  BY DEF TypeOK
<1>2. TypeOK'
  BY TypeStep DEF By, Next
<1>3. \A m \in Messages, d \in Decisions : recorded'[m][d] \in Nat
  BY <1>2 DEF TypeOK
<1>4. \A m \in Messages : Entries(m) > 0 => Entries(m)' > 0
  BY <1>1, <1>3, LogsGrow DEF Entries, Decisions
<1>5. ASSUME AppendTimeline(r) PROVE Entries(msg[r])' > 0 /\ msg'[r] = msg[r]
  <2>1. msg[r] \in Messages /\ verdict[r] \in Decisions /\ msg'[r] = msg[r]
    BY <1>5 DEF AppendTimeline, FlowInv, Flow, Handling, TypeOK, locals
  <2>2. recorded' = [recorded EXCEPT ![msg[r]][verdict[r]] = @ + 1]
    BY <1>5 DEF AppendTimeline
  <2>3. recorded'[msg[r]][verdict[r]] = recorded[msg[r]][verdict[r]] + 1
    BY <2>1, <2>2 DEF TypeOK
  <2>4. /\ recorded[msg[r]][verdict[r]] \in Nat
        /\ recorded'[msg[r]]["ACCEPTED"] \in Nat /\ recorded'[msg[r]]["REJECTED"] \in Nat
    BY <1>1, <1>3, <2>1 DEF Decisions
  <2>5. recorded'[msg'[r]]["ACCEPTED"] + recorded'[msg'[r]]["REJECTED"] > 0
    BY <2>1, <2>3, <2>4 DEF Decisions
  <2> QED
    BY <2>1, <2>5 DEF Entries
<1> QED BY <1>4, <1>5

-----------------------------------------------------------------------------
(* Flow.                                                                   *)

LEMMA DispatchCases ==
  ASSUME NEW m
  PROVE  /\ Dispatch(m) \in {"read", "record"}
         /\ Dispatch(m) = "read" =>
              m.kind = "run" \/ (m.kind = "step" /\ m.step # NoStep)
BY DEF Dispatch

LEMMA FlowStep == ASSUME TypeOK, FlowInv, Next PROVE FlowInv'
<1>0. PICK r \in Sessions : By(r)
  BY DEF Next, By
<1>a. Flow(r)
  BY DEF FlowInv
<1>b. \A s \in Sessions : s # r => Flow(s)'
  <2> SUFFICES ASSUME NEW s \in Sessions, s # r PROVE Flow(s)'
    OBVIOUS
  <2>1. SameLocals(s)
    BY <1>0, Locality
  <2>2. Flow(s)
    BY DEF FlowInv
  <2>3. pc[s] = "mark" => msg[s] \in Messages /\ Entries(msg[s]) > 0
    BY <2>2 DEF Flow, Handling
  <2>4. \A m \in Messages : Entries(m) > 0 =>
          recorded'[m]["ACCEPTED"] + recorded'[m]["REJECTED"] > 0
    BY <1>0, EntriesStay DEF Entries
  <2>5. pc[s] = "mark" => recorded'[msg[s]]["ACCEPTED"] + recorded'[msg[s]]["REJECTED"] > 0
    BY <2>3, <2>4
  <2> QED BY <2>1, <2>2, <2>5 DEF SameLocals, Flow, IsBatch, Entries, Seen
<1>c. pc' \in [Sessions -> Labels] /\ TypeOK'
  BY TypeStep DEF TypeOK
<1> SUFFICES Flow(r)'
  BY <1>b DEF FlowInv
<1> USE DEF locals, TypeOK
<1>d. ASSUME Return(r) PROVE Flow(r)'
  BY <1>d DEF Return, Goto, Flow, Handling, OnStep
<1>1. CASE \E m \in Messages : Deliver(r, m)
  BY <1>1 DEF Deliver, Goto, Flow, Handling, OnStep
<1>2. CASE CheckDuplicate(r)
  <2>1. CASE Return(r)
    BY <2>1, <1>d
  <2>2. CASE ~Return(r)
    <3>1. /\ pc' = [pc EXCEPT ![r] = Dispatch(msg[r])] /\ UNCHANGED locals
          /\ pc[r] = "check"
      BY <1>2, <2>2 DEF CheckDuplicate, Goto
    <3>2. msg[r] \in Messages /\ at[r] = msg[r].run
      BY <1>a, <3>1 DEF Flow, Handling
    <3>3. /\ pc'[r] \in {"read", "record"}
          /\ pc'[r] = "read" =>
               msg[r].kind = "run" \/ (msg[r].kind = "step" /\ msg[r].step # NoStep)
      BY <3>1, DispatchCases
    <3>4. msg[r].kind = "step" => msg[r].step \in Steps \cup {NoStep}
      BY <3>2, MessageShape
    <3> QED
      BY <3>1, <3>2, <3>3, <3>4 DEF Flow, Handling, OnStep
  <2> QED BY <2>1, <2>2
<1>3. CASE ReadRun(r)
  <2>1. /\ pc' = [pc EXCEPT ![r] = AfterReadRun(run[at[r]], msg[r])]
        /\ msg' = msg /\ at' = at /\ pc[r] = "read"
        /\ snap' = [snap EXCEPT ![r] = [NoRows EXCEPT ![at[r]] = run[at[r]]]]
    BY <1>3 DEF ReadRun, Goto, Remember
  <2>2. /\ msg[r] \in Messages /\ at[r] = msg[r].run /\ at[r] \in Runs
        /\ msg[r].kind \in {"run", "step"}
        /\ msg[r].kind = "step" => msg[r].step \in Steps
    BY <1>a, <2>1, MessageShape DEF Flow, Handling
  <2>3. Seen(r)' = run[at[r]]
    BY <2>1, <2>2 DEF Seen, NoRows
  <2>4. /\ pc'[r] \in {"readStep", "create", "update", "record"}
        /\ pc'[r] = "readStep" => msg[r].kind = "step" /\ run[at[r]].status = "RUNNING"
        /\ pc'[r] \in {"create", "update"} => msg[r].kind = "run"
    BY <2>1 DEF AfterReadRun
  <2> QED
    BY <2>1, <2>2, <2>3, <2>4 DEF Flow, Handling, OnStep
<1>4. CASE CreateRun(r)
  BY <1>4, <1>a, <1>d DEF CreateRun, Goto, Flow, Handling, OnStep
<1>5. CASE UpdateStatus(r)
  BY <1>5, <1>a DEF UpdateStatus, Goto, Flow, Handling, OnStep
<1>6. CASE SetLease(r)
  BY <1>6, <1>a DEF SetLease, Goto, Flow, Handling, OnStep
<1>7. CASE ReadStep(r)
  <2>1. /\ pc' = [pc EXCEPT ![r] = AfterReadStep(steps[at[r]][msg[r].step], msg[r])]
        /\ UNCHANGED locals /\ pc[r] = "readStep"
    BY <1>7 DEF ReadStep, Goto
  <2>2. pc'[r] \in {"createStep", "updateStep", "record"}
    BY <2>1 DEF AfterReadStep
  <2> QED
    BY <2>1, <2>2, <1>a DEF Flow, Handling, OnStep, Seen
<1>8. CASE CreateStep(r)
  <2>1. CASE Return(r)
    BY <2>1, <1>d
  <2>2. CASE ~Return(r)
    <3>1. pc' = [pc EXCEPT ![r] = "point"] /\ UNCHANGED locals /\ pc[r] = "createStep"
      BY <1>8, <2>2 DEF CreateStep, Goto
    <3> QED BY <3>1, <1>a DEF Flow, Handling, OnStep, Seen
  <2> QED BY <2>1, <2>2
<1>9. CASE UpdateStep(r)
  BY <1>9, <1>a DEF UpdateStep, Goto, Flow, Handling, OnStep, Seen
<1>10. CASE Point(r)
  BY <1>10, <1>a DEF Point, Goto, Flow, Handling, OnStep
<1>11. CASE AppendTimeline(r)
  <2>1. Entries(msg[r])' > 0
    BY <1>0, <1>11, EntriesStay
  <2>2. pc' = [pc EXCEPT ![r] = "mark"] /\ UNCHANGED locals /\ pc[r] = "record"
    BY <1>11 DEF AppendTimeline, Goto
  <2> QED BY <2>1, <2>2, <1>a DEF Flow, Handling, OnStep
<1>12. CASE MarkProcessed(r)
  BY <1>12, <1>d DEF MarkProcessed
<1>13. CASE StartSweep(r)
  BY <1>13 DEF StartSweep, Goto, Flow, Handling, OnStep
<1>14. CASE PassOver(r)
  BY <1>14 DEF PassOver, Flow, Handling, OnStep
<1>15. CASE SweepRun(r)
  <2>1. PICK k \in todo[r] : \E reason :
          /\ doing' = [doing EXCEPT ![r] = ChooseAction(k, snap[r][k], reason)]
          /\ at' = [at EXCEPT ![r] = k]
    BY <1>15 DEF SweepRun
  <2>2. pc' = [pc EXCEPT ![r] = "audit"] /\ msg' = msg /\ snap' = snap
    BY <1>15 DEF SweepRun, Goto
  <2>3. k \in Runs /\ at'[r] = k /\ Seen(r)' = snap[r][k]
    BY <2>1, <2>2 DEF Seen
  <2>4. doing'[r] \in Actions /\ (doing'[r] = "QUARANTINE" => IsBatch(k) /\ snap[r][k].attempt >= 1)
    BY <2>1 DEF ChooseAction, Actions, IsBatch
  <2> QED
    BY <2>2, <2>3, <2>4 DEF Flow, Handling, OnStep
<1>16. CASE AppendAudit(r)
  BY <1>16 DEF AppendAudit, Goto, Flow, Handling, OnStep
<1>17. CASE EndSweep(r)
  BY <1>17, <1>d DEF EndSweep
<1>18. CASE Crash(r) \/ RaiseUntimed(r)
  BY <1>18, <1>d DEF Crash, RaiseUntimed
<1> QED
  BY <1>0, <1>1, <1>2, <1>3, <1>4, <1>5, <1>6, <1>7, <1>8, <1>9, <1>10, <1>11, <1>12, <1>13,
     <1>14, <1>15, <1>16, <1>17, <1>18 DEF By, Handle, Sweep

-----------------------------------------------------------------------------
(* The ledger and the timeline.                                            *)
LEMMA ProcessedStep ==
  ASSUME TypeOK, FlowInv, ProcessedIsRecorded, Next PROVE ProcessedIsRecorded'
<1>0. PICK r \in Sessions : By(r)
  BY DEF Next, By
<1>1. \A m \in Messages : Entries(m) > 0 => Entries(m)' > 0
  BY <1>0, EntriesStay
<1>2. processed \subseteq Messages
  BY DEF TypeOK
<1>3. CASE MarkProcessed(r)
  <2>1. msg[r] \in Messages /\ Entries(msg[r]) > 0
    BY <1>3 DEF MarkProcessed, FlowInv, Flow, Handling
  <2>2. processed' = processed \cup {msg[r]}
    BY <1>3 DEF MarkProcessed
  <2>3. \A m \in processed' : m \in Messages /\ Entries(m) > 0
    BY <1>2, <2>1, <2>2 DEF ProcessedIsRecorded
  <2>4. \A m \in processed' : Entries(m)' > 0
    BY <1>1, <2>3
  <2> QED BY <2>4 DEF ProcessedIsRecorded
<1>4. CASE ~MarkProcessed(r)
  <2>1. processed' = processed
    BY <1>0, <1>4 DEF By, Handle, Sweep, Deliver, StartSweep, PassOver, SweepRun, AppendAudit,
       EndSweep, Crash, CheckDuplicate, ReadRun, RaiseUntimed, CreateRun, UpdateStatus, SetLease, ReadStep,
       CreateStep, UpdateStep, Point, AppendTimeline, logs
  <2>2. \A m \in processed' : m \in Messages /\ Entries(m) > 0
    BY <1>2, <2>1 DEF ProcessedIsRecorded
  <2>3. \A m \in processed' : Entries(m)' > 0
    BY <1>1, <2>2
  <2> QED BY <2>3 DEF ProcessedIsRecorded
<1> QED BY <1>3, <1>4

-----------------------------------------------------------------------------
(* How runs end.                                                           *)

(* What explains an end goes on explaining it: the session about to record
   it records it or dies.  No end fails on its time.                       *)
LEMMA EndKept ==
  ASSUME TypeOK, FlowInv, Next, NEW k \in Runs, NEW st \in RunEnds, EndKnown(k, st)
  PROVE  EndKnown(k, st)'
<1>0. PICK r \in Sessions : By(r)
  BY DEF Next, By
<1>1. CASE \/ \E m \in Messages :
                m.kind = "run" /\ m.run = k /\ m.to = st /\ recorded[m]["ACCEPTED"] > 0
           \/ /\ st = "FAILED"
              /\ \E e \in audit : e.run = k /\ e.decision = "ACCEPTED" /\ e.action # "RETRY"
           \/ \E l \in {"lease", "record", "audit"} : <<k, l>> \in cut
  <2>1. \A m \in Messages : recorded[m]["ACCEPTED"] > 0 => recorded'[m]["ACCEPTED"] > 0
    <3>1. TypeOK'
      BY TypeStep
    <3>2. \A m \in Messages : recorded[m]["ACCEPTED"] \in Nat /\ recorded'[m]["ACCEPTED"] \in Nat
      BY <3>1 DEF TypeOK, Decisions
    <3> QED BY <1>0, <3>2, LogsGrow DEF Decisions
  <2>2. audit \subseteq audit' /\ cut \subseteq cut'
    BY <1>0, LogsGrow
  <2> QED BY <1>1, <2>1, <2>2 DEF EndKnown
<1>2. ASSUME NEW s \in Sessions, AboutToRecord(s, k, st), s # r PROVE EndKnown(k, st)'
  <2>1. SameLocals(s)
    BY <1>0, <1>2, Locality
  <2>2. AboutToRecord(s, k, st)'
    BY <1>2, <2>1 DEF SameLocals, AboutToRecord
  <2> QED BY <2>2 DEF EndKnown
<1>3. ASSUME AboutToRecord(r, k, st) PROVE EndKnown(k, st)'
  <2>1. at[r] = k /\ pc[r] \in {"lease", "record", "audit"}
    BY <1>3 DEF AboutToRecord
  <2>2. CASE Crash(r)
    <3>1. <<k, pc[r]>> \in cut'
      BY <2>1, <2>2 DEF Crash, Halfway
    <3> QED BY <2>1, <3>1 DEF EndKnown
  <2>3. CASE SetLease(r)
    <3>1. pc[r] = "lease" /\ msg[r].to = st /\ msg[r].kind = "run"
      BY <1>3, <2>3 DEF SetLease, AboutToRecord, FlowInv, Flow
    <3>2. pc'[r] = "record" /\ verdict'[r] = "ACCEPTED" /\ msg'[r] = msg[r] /\ at'[r] = at[r]
      BY <2>3 DEF SetLease, Goto, Decide, TypeOK
    <3>3. AboutToRecord(r, k, st)'
      BY <2>1, <3>1, <3>2 DEF AboutToRecord
    <3> QED BY <3>3 DEF EndKnown
  <2>4. CASE AppendTimeline(r)
    <3>1. /\ verdict[r] = "ACCEPTED" /\ msg[r].kind = "run" /\ msg[r].to = st
          /\ msg[r] \in Messages /\ msg[r].run = k
      BY <1>3, <2>1, <2>4 DEF AppendTimeline, AboutToRecord, FlowInv, Flow, Handling
    <3>2. recorded' = [recorded EXCEPT ![msg[r]]["ACCEPTED"] = @ + 1]
      BY <2>4, <3>1 DEF AppendTimeline
    <3>3. recorded[msg[r]]["ACCEPTED"] \in Nat
      BY <3>1 DEF TypeOK, Decisions
    <3>4. recorded'[msg[r]]["ACCEPTED"] = recorded[msg[r]]["ACCEPTED"] + 1
      BY <3>1, <3>2 DEF TypeOK, Decisions
    <3>5. recorded'[msg[r]]["ACCEPTED"] > 0
      BY <3>3, <3>4
    <3> QED BY <3>1, <3>5 DEF EndKnown
  <2>5. CASE AppendAudit(r)
    <3>1. verdict[r] = "ACCEPTED" /\ doing[r] # "RETRY" /\ st = "FAILED"
      BY <1>3, <2>5 DEF AppendAudit, AboutToRecord
    <3>2. [run |-> at[r], decision |-> verdict[r], action |-> doing[r],
           before |-> Seen(r).attempt] \in audit'
      BY <2>5 DEF AppendAudit
    <3> QED BY <2>1, <3>1, <3>2 DEF EndKnown
  <2>6. ASSUME RaiseUntimed(r) PROVE FALSE
    <3>1. pc[r] = "lease" /\ msg[r].to = st
      BY <1>3, <2>1, <2>6 DEF RaiseUntimed, AboutToRecord
    <3>2. msg[r].to \in {"PENDING", "RUNNING"}
      BY <2>6, UntimedAssumption DEF RaiseUntimed
    <3> QED BY <3>1, <3>2 DEF RunEnds
  <2> QED
    BY <1>0, <2>1, <2>2, <2>3, <2>4, <2>5, <2>6
    DEF By, Handle, Sweep, Deliver, StartSweep, PassOver, SweepRun, EndSweep, CheckDuplicate,
        ReadRun, RaiseUntimed, CreateRun, UpdateStatus, ReadStep, CreateStep, UpdateStep, Point, MarkProcessed
<1> QED BY <1>1, <1>2, <1>3 DEF EndKnown

(* A step that ends a run is one whose session is about to record it.      *)
LEMMA EndStep ==
  ASSUME TypeOK, FlowInv, EndInv, Next PROVE EndInv'
<1> SUFFICES ASSUME NEW k \in Runs, NEW st \in RunEnds, run'[k].status = st
             PROVE  EndKnown(k, st)'
  BY DEF EndInv
<1>0. PICK r \in Sessions : By(r)
  BY DEF Next, By
<1>1. CASE run'[k].status = run[k].status
  <2>1. EndKnown(k, st)
    BY <1>1 DEF EndInv
  <2> QED BY <2>1, EndKept
<1>2. CASE run'[k].status # run[k].status
  <2>1. CASE UpdateStatus(r)
    <3>1. k = at[r] /\ run'[k].status = msg[r].to
      BY <1>2, <2>1 DEF UpdateStatus, Write, TypeOK, Row
    <3>2. pc'[r] = "lease" /\ msg'[r] = msg[r] /\ at'[r] = at[r]
      BY <2>1 DEF UpdateStatus, Goto, TypeOK, locals
    <3> QED BY <3>1, <3>2 DEF EndKnown, AboutToRecord
  <2>2. CASE SweepRun(r)
    <3>1. PICK j \in todo[r] : \E reason \in ReasonsFor(snap[r][j]) \ {"NONE"} :
            LET action == ChooseAction(j, snap[r][j], reason) IN
            /\ \/ /\ run[j].lease = snap[r][j].lease
                  /\ Write(j, AfterAction(action, snap[r][j]))
                  /\ Decide(r, "ACCEPTED")
               \/ /\ run[j].lease # snap[r][j].lease
                  /\ Decide(r, "REJECTED")
                  /\ UNCHANGED run
            /\ at' = [at EXCEPT ![r] = j]
            /\ todo' = [todo EXCEPT ![r] = @ \ {j}]
            /\ doing' = [doing EXCEPT ![r] = action]
      BY <2>2 DEF SweepRun
    <3>2. PICK action :
            /\ run' = [run EXCEPT ![j] = AfterAction(action, snap[r][j])]
            /\ verdict' = [verdict EXCEPT ![r] = "ACCEPTED"]
            /\ at' = [at EXCEPT ![r] = j]
            /\ doing' = [doing EXCEPT ![r] = action]
      BY <1>2, <3>1 DEF Write, Decide
    <3>3. j = k /\ j \in Runs
      BY <1>2, <3>1, <3>2 DEF TypeOK
    <3>4. run'[k].status = "FAILED" /\ action # "RETRY"
      BY <3>2, <3>3 DEF TypeOK, AfterAction, RunEnds
    <3>5. pc'[r] = "audit" /\ verdict'[r] = "ACCEPTED" /\ at'[r] = k /\ doing'[r] # "RETRY"
      BY <2>2, <3>2, <3>3, <3>4 DEF SweepRun, Goto, TypeOK
    <3> QED BY <3>4, <3>5 DEF EndKnown, AboutToRecord
  <2>3. CASE Point(r)
    <3>1. run'[k].status = "RUNNING"
      BY <1>2, <2>3 DEF Point, Write, TypeOK, Row, FlowInv, Flow, OnStep
    <3> QED BY <3>1 DEF RunEnds
  <2>4. CASE CreateRun(r)
    <3>1. run'[k].status = "PENDING"
      BY <1>2, <2>4 DEF CreateRun, Write, TypeOK, NoRow
    <3> QED BY <3>1 DEF RunEnds
  <2>5. CASE SetLease(r)
    <3>1. run[k] \in Row
      BY DEF TypeOK
    <3>2. PICK x : run' = [run EXCEPT ![at[r]] = [run[at[r]] EXCEPT !.lease = x]]
      BY <1>2, <2>5 DEF SetLease, Write
    <3>3. k = at[r] /\ run'[k] = [run[k] EXCEPT !.lease = x]
      BY <1>2, <3>2 DEF TypeOK
    <3>4. run'[k].status = run[k].status
      BY <3>1, <3>3 DEF Row
    <3> QED BY <1>2, <3>4
  <2>6. run' # run
    BY <1>2
  <2> QED
    BY <1>0, <2>1, <2>2, <2>3, <2>4, <2>5, <2>6
    DEF By, Handle, Sweep, Deliver, StartSweep, PassOver, AppendAudit, EndSweep, Crash,
        CheckDuplicate, ReadRun, RaiseUntimed, ReadStep, CreateStep, UpdateStep, AppendTimeline,
        MarkProcessed, rows
<1> QED BY <1>1, <1>2

-----------------------------------------------------------------------------
(* Retries of batch runs.                                                  *)

(* What tells of a retry goes on telling.                                  *)
LEMMA RetryKept ==
  ASSUME TypeOK, FlowInv, Next, NEW k \in Runs, RetryKnown(k)
  PROVE  RetryKnown(k)'
<1>0. PICK r \in Sessions : By(r)
  BY DEF Next, By
<1>a. audit \subseteq audit' /\ cut \subseteq cut'
  BY <1>0, LogsGrow
<1>1. CASE \/ \E f \in audit : f.run = k /\ f.decision = "ACCEPTED" /\ f.action = "RETRY"
           \/ <<k, "audit">> \in cut
  BY <1>1, <1>a DEF RetryKnown
<1>2. ASSUME NEW s \in Sessions, at[s] = k, pc[s] = "audit",
             verdict[s] = "ACCEPTED", doing[s] = "RETRY", s # r
      PROVE  RetryKnown(k)'
  <2>1. SameLocals(s)
    BY <1>0, <1>2, Locality
  <2> QED BY <1>2, <2>1 DEF SameLocals, RetryKnown
<1>3. ASSUME at[r] = k, pc[r] = "audit", verdict[r] = "ACCEPTED", doing[r] = "RETRY"
      PROVE  RetryKnown(k)'
  <2>1. CASE Crash(r)
    <3>1. <<k, "audit">> \in cut'
      BY <1>3, <2>1 DEF Crash, Halfway
    <3> QED BY <3>1 DEF RetryKnown
  <2>2. CASE AppendAudit(r)
    <3>1. [run |-> at[r], decision |-> verdict[r], action |-> doing[r],
           before |-> Seen(r).attempt] \in audit'
      BY <2>2 DEF AppendAudit
    <3> QED BY <1>3, <3>1 DEF RetryKnown
  <2> QED
    BY <1>0, <1>3, <2>1, <2>2
    DEF By, Handle, Sweep, Deliver, StartSweep, PassOver, SweepRun, EndSweep, CheckDuplicate,
        ReadRun, RaiseUntimed, CreateRun, UpdateStatus, SetLease, ReadStep, CreateStep, UpdateStep, Point,
        AppendTimeline, MarkProcessed
<1> QED BY <1>1, <1>2, <1>3 DEF RetryKnown

(* A row's attempts grow only by an intervention, which for a batch run is
   a retry the first time.                                                 *)
LEMMA AttemptStep ==
  ASSUME TypeOK, FlowInv, RetryInv, Next,
         NEW k \in Runs, IsBatch(k), run'[k].attempt >= 1
  PROVE  RetryKnown(k)'
<1>0. PICK r \in Sessions : By(r)
  BY DEF Next, By
<1>a. \A j \in Runs : run[j] \in Row /\ run[j].attempt \in Nat
  BY DEF TypeOK, Row
<1>1. CASE run'[k].attempt = run[k].attempt
  BY <1>1, RetryKept DEF RetryInv
<1>2. CASE run'[k].attempt # run[k].attempt
  <2>1. CASE SweepRun(r)
    <3>1. PICK j \in todo[r] : \E reason \in ReasonsFor(snap[r][j]) \ {"NONE"} :
            LET action == ChooseAction(j, snap[r][j], reason) IN
            /\ \/ /\ run[j].lease = snap[r][j].lease
                  /\ Write(j, AfterAction(action, snap[r][j]))
                  /\ Decide(r, "ACCEPTED")
               \/ /\ run[j].lease # snap[r][j].lease
                  /\ Decide(r, "REJECTED")
                  /\ UNCHANGED run
            /\ at' = [at EXCEPT ![r] = j]
            /\ todo' = [todo EXCEPT ![r] = @ \ {j}]
            /\ doing' = [doing EXCEPT ![r] = action]
      BY <2>1 DEF SweepRun
    <3>2. PICK reason :
            /\ run' = [run EXCEPT ![j] = AfterAction(ChooseAction(j, snap[r][j], reason), snap[r][j])]
            /\ verdict' = [verdict EXCEPT ![r] = "ACCEPTED"]
            /\ at' = [at EXCEPT ![r] = j]
            /\ doing' = [doing EXCEPT ![r] = ChooseAction(j, snap[r][j], reason)]
      BY <1>2, <3>1 DEF Write, Decide
    <3>3. j = k
      BY <1>2, <3>1, <3>2 DEF TypeOK
    <3>4. CASE snap[r][k].attempt >= 1
      BY <3>4, RetryKept DEF RetryInv
    <3>5. CASE ~(snap[r][k].attempt >= 1)
      <4>1. ChooseAction(k, snap[r][k], reason) = "RETRY"
        BY <3>5 DEF ChooseAction, IsBatch
      <4>2. pc'[r] = "audit" /\ verdict'[r] = "ACCEPTED" /\ at'[r] = k /\ doing'[r] = "RETRY"
        BY <2>1, <3>2, <3>3, <4>1 DEF SweepRun, Goto, TypeOK
      <4> QED BY <4>2 DEF RetryKnown
    <3> QED BY <3>4, <3>5
  <2>2. CASE UpdateStatus(r)
    <3>1. run'[k].attempt = run[k].attempt
      BY <2>2, <1>a DEF UpdateStatus, Write, TypeOK, Row
    <3> QED BY <1>2, <3>1
  <2>3. CASE Point(r)
    <3>1. run'[k].attempt = run[k].attempt
      BY <2>3, <1>a DEF Point, Write, TypeOK, Row
    <3> QED BY <1>2, <3>1
  <2>4. CASE CreateRun(r)
    <3>1. run'[k].attempt = 0 \/ run'[k] = run[k]
      BY <2>4 DEF CreateRun, Write, TypeOK, NoRow
    <3> QED BY <1>2, <3>1
  <2>5. CASE SetLease(r)
    <3>1. PICK x : run' = [run EXCEPT ![at[r]] = [run[at[r]] EXCEPT !.lease = x]]
      BY <1>2, <2>5 DEF SetLease, Write
    <3>2. k = at[r] /\ run'[k] = [run[k] EXCEPT !.lease = x]
      BY <1>2, <3>1 DEF TypeOK
    <3>3. run'[k].attempt = run[k].attempt
      BY <1>a, <3>2 DEF Row
    <3> QED BY <1>2, <3>3
  <2>6. run' # run
    BY <1>2
  <2> QED
    BY <1>0, <2>1, <2>2, <2>3, <2>4, <2>5, <2>6
    DEF By, Handle, Sweep, Deliver, StartSweep, PassOver, AppendAudit, EndSweep, Crash,
        CheckDuplicate, ReadRun, RaiseUntimed, ReadStep, CreateStep, UpdateStep, AppendTimeline,
        MarkProcessed, rows
<1> QED BY <1>1, <1>2

LEMMA RetryStep ==
  ASSUME TypeOK, FlowInv, RetryInv, Next PROVE RetryInv'
<1>0. PICK r \in Sessions : By(r)
  BY DEF Next, By
<1>1. ASSUME NEW k \in Runs, IsBatch(k), NEW s \in Sessions, snap'[s][k].attempt >= 1
      PROVE  RetryKnown(k)'
  <2>1. CASE snap'[s] = snap[s]
    BY <1>1, <2>1, RetryKept DEF RetryInv
  <2>2. CASE snap'[s] # snap[s]
    <3>1. s = r
      BY <1>0, <2>2, Locality DEF SameLocals
    <3>2. ReadRun(r) \/ StartSweep(r) \/ Return(r)
      BY <1>0, <2>2 DEF By, Handle, Sweep, Deliver, PassOver, SweepRun, AppendAudit, EndSweep,
         Crash, CheckDuplicate, RaiseUntimed, CreateRun, UpdateStatus, SetLease, ReadStep, CreateStep,
         UpdateStep, Point, AppendTimeline, MarkProcessed, locals
    <3>3. snap'[r][k] = run[k] \/ snap'[r][k] = NoRow
      BY <3>2 DEF ReadRun, Remember, StartSweep, Return, NoRows, TypeOK
    <3>4. snap'[r][k] = run[k]
      BY <1>1, <3>1, <3>3 DEF NoRow
    <3> QED BY <1>1, <3>1, <3>4, RetryKept DEF RetryInv
  <2> QED BY <2>1, <2>2
<1>2. ASSUME NEW e \in audit', e.action = "QUARANTINE" PROVE RetryKnown(e.run)'
  <2>1. CASE e \in audit
    BY <1>2, <2>1, RetryKept DEF RetryInv, TypeOK, AuditEntry
  <2>2. CASE e \notin audit
    <3>1. AppendAudit(r)
      BY <1>0, <1>2, <2>2 DEF By, Handle, Sweep, Deliver, StartSweep, PassOver, SweepRun,
         EndSweep, Crash, CheckDuplicate, ReadRun, RaiseUntimed, CreateRun, UpdateStatus, SetLease, ReadStep,
         CreateStep, UpdateStep, Point, AppendTimeline, MarkProcessed, logs
    <3>2. e.run = at[r] /\ doing[r] = "QUARANTINE" /\ pc[r] = "audit"
      BY <1>2, <2>2, <3>1 DEF AppendAudit
    <3>3. at[r] \in Runs /\ IsBatch(at[r]) /\ snap[r][at[r]].attempt >= 1
      BY <3>2 DEF FlowInv, Flow, Seen
    <3> QED BY <3>2, <3>3, RetryKept DEF RetryInv
  <2> QED BY <2>1, <2>2
<1>3. \A k \in Runs : IsBatch(k) /\ run'[k].attempt >= 1 => RetryKnown(k)'
  BY AttemptStep
<1> QED BY <1>1, <1>2, <1>3 DEF RetryInv, IsBatch

-----------------------------------------------------------------------------
(* The theorems.                                                           *)

LEMMA InitIInv == ASSUME Init PROVE IInv
<1> USE DEF Init
<1>1. NoRow \in Row /\ NoRows \in [Runs -> Row]
  BY DEF NoRows, NoRow, Row, RunStatuses
<1>2. TypeOK
  BY <1>1, BoundsAssumption DEF TypeOK, StepStatuses, Labels, Decisions
<1>3. FlowInv
  BY DEF FlowInv, Flow, Handling, OnStep
<1>4. ProcessedIsRecorded
  BY DEF ProcessedIsRecorded
<1>5. EndInv
  BY DEF EndInv, NoRows, NoRow, RunEnds
<1>6. RetryInv
  BY DEF RetryInv, NoRows, NoRow
<1> QED BY <1>2, <1>3, <1>4, <1>5, <1>6 DEF IInv

LEMMA NextIInv == ASSUME IInv, [Next]_vars PROVE IInv'
<1>1. CASE Next
  BY <1>1, TypeStep, FlowStep, ProcessedStep, EndStep, RetryStep DEF IInv
<1>2. CASE UNCHANGED vars
  <2> USE <1>2 DEF IInv, vars, rows, logs, locals, deaths
  <2>1. TypeOK'
    BY DEF TypeOK
  <2>2. FlowInv'
    BY DEF FlowInv, Flow, Seen, Entries, IsBatch
  <2>3. ProcessedIsRecorded'
    BY DEF ProcessedIsRecorded, Entries
  <2>4. EndInv'
    BY DEF EndInv, EndKnown, AboutToRecord
  <2>5. RetryInv'
    BY DEF RetryInv, RetryKnown, IsBatch
  <2> QED BY <2>1, <2>2, <2>3, <2>4, <2>5
<1> QED BY <1>1, <1>2

(* The inductive invariant holds in every reachable state.                 *)
THEOREM Invariance == Spec => []IInv
<1>1. Init => IInv
  BY InitIInv
<1>2. IInv /\ [Next]_vars => IInv'
  BY NextIInv
<1> QED BY <1>1, <1>2, PTL DEF Spec

(* The rows, logs and sessions hold what the code can put into them.       *)
THEOREM TypeCorrect == Spec => []TypeOK
BY Invariance, PTL DEF IInv

(* An event in the ledger has left its decision in the timeline, whatever
   requests died or overlapped (process_message).                          *)
THEOREM LedgerBehindTimeline == Spec => []ProcessedIsRecorded
BY Invariance, PTL DEF IInv

(* The timeline explains how every run ended, unless a request died before
   it wrote its entry (process_message, evaluate_stale_runs).              *)
THEOREM EndsRecorded == Spec => []EndIsRecorded
<1>1. IInv => EndIsRecorded
  <2> SUFFICES ASSUME IInv, NEW k \in Runs, run[k].status \in RunEnds
               PROVE  \/ \E m \in Messages :
                            /\ m.kind = "run" /\ m.run = k /\ m.to = run[k].status
                            /\ recorded[m]["ACCEPTED"] > 0
                      \/ /\ run[k].status = "FAILED"
                         /\ \E e \in audit :
                              e.run = k /\ e.decision = "ACCEPTED" /\ e.action # "RETRY"
                      \/ Owed(k, {"lease", "record", "audit"})
    BY DEF EndIsRecorded
  <2>1. PICK st \in RunEnds : st = run[k].status
    OBVIOUS
  <2>2. EndKnown(k, st)
    BY <2>1 DEF IInv, EndInv
  <2>3. ASSUME NEW r \in Sessions, AboutToRecord(r, k, st)
        PROVE  Owed(k, {"lease", "record", "audit"})
    BY <2>3 DEF AboutToRecord, Owed
  <2>4. ASSUME NEW l \in {"lease", "record", "audit"}, <<k, l>> \in cut
        PROVE  Owed(k, {"lease", "record", "audit"})
    BY <2>4 DEF Owed
  <2> QED
    BY <2>1, <2>2, <2>3, <2>4 DEF EndKnown
<1> QED BY <1>1, Invariance, PTL

(* No batch run is quarantined before it was retried, however sweeps
   overlap (_choose_action).                                               *)
THEOREM RetriedBeforeQuarantine == Spec => []QuarantineAfterRetry
<1>1. IInv => QuarantineAfterRetry
  BY DEF IInv, RetryInv, RetryKnown, QuarantineAfterRetry, Owed
<1> QED BY <1>1, Invariance, PTL
-----------------------------------------------------------------------------
(* One request at a time.                                                  *)

OneAtATime == \A r, s \in Sessions : r = s

(* What a lone session has read is what the rows still hold.               *)
SoloFlow(r) ==
  /\ pc[r] \in {"update"} \cup OnStep => Seen(r) = run[at[r]]
  /\ pc[r] = "update" => msg[r].to \in RunTransitions(run[at[r]].status)
  /\ pc[r] = "lease" => Seen(r).lease = run[at[r]].lease /\ run[at[r]].status = msg[r].to
  /\ pc[r] = "createStep" => msg[r].to = "RUNNING"
  /\ pc[r] = "updateStep" =>
       steps[at[r]][msg[r].step] = "RUNNING" /\ msg[r].to \in StepEnds
  /\ pc[r] = "point" => steps[at[r]][msg[r].step] = msg[r].to
  /\ pc[r] \in {"sweep", "audit"} => \A k \in todo[r] : snap[r][k] = run[k]

(* The pointer of run k is right, or a lost write excuses it.              *)
PointerFits(k) ==
  \/ run[k].step = NoStep
  \/ steps[k][run[k].step] = "RUNNING"
  \/ <<k, "point">> \in cut

PointerInv ==
  \A k \in Runs :
    \/ PointerFits(k)
    \/ \E r \in Sessions : at[r] = k /\ pc[r] = "point" /\ run[k].step = msg[r].step

(* A run that was never created was never swept.                           *)
UncreatedInv == \A k \in Runs : run[k].status = "NONE" => run[k].attempt = 0

SoloInv ==
  /\ \A r \in Sessions : SoloFlow(r)
  /\ UncreatedInv /\ LeaseWhileRunning /\ PointerInv

(* What a lone session writes to run k.                                    *)
SoloWrites(r, k) ==
  \/ run'[k] = run[k]
  \/ /\ CreateRun(r) /\ k = at[r]
     /\ run[k].status = "NONE" /\ run'[k] = [NoRow EXCEPT !.status = "PENDING"]
  \/ /\ UpdateStatus(r) /\ k = at[r]
     /\ msg[r].to \in RunTransitions(run[k].status)
     /\ run'[k] = [run[k] EXCEPT !.status = msg[r].to]
  \/ /\ SetLease(r) /\ k = at[r] /\ run[k].status = msg[r].to
     /\ \E x \in NextLease(msg[r]) : run'[k] = [run[k] EXCEPT !.lease = x]
  \/ /\ Point(r) /\ k = at[r] /\ Seen(r) = run[k]
     /\ run'[k] = [run[k] EXCEPT !.step = NextStepId(r)]
  \/ /\ SweepRun(r) /\ run[k].status = "RUNNING"
     /\ \E reason :
          run'[k] = AfterAction(ChooseAction(k, run[k], reason), run[k])

LEMMA SoloRows ==
  ASSUME OneAtATime, TypeOK, FlowInv, SoloInv, NEW r \in Sessions, By(r), NEW k \in Runs
  PROVE  SoloWrites(r, k)
<1> USE DEF SoloWrites
<1>a. Flow(r) /\ SoloFlow(r) /\ run[k] \in Row
  BY DEF FlowInv, SoloInv, TypeOK
<1>1. CASE CreateRun(r)
  BY <1>1 DEF CreateRun, Write, TypeOK
<1>2. CASE UpdateStatus(r)
  <2>1. run' = [run EXCEPT ![at[r]] = [run[at[r]] EXCEPT !.status = msg[r].to,
                                                         !.step = Seen(r).step]]
    BY <1>2 DEF UpdateStatus, Write
  <2>2. Seen(r) = run[at[r]] /\ msg[r].to \in RunTransitions(run[at[r]].status)
    BY <1>2, <1>a DEF UpdateStatus, SoloFlow
  <2>3. [run[k] EXCEPT !.status = msg[r].to, !.step = run[k].step]
          = [run[k] EXCEPT !.status = msg[r].to]
    BY <1>a DEF Row
  <2> QED BY <1>2, <2>1, <2>2, <2>3 DEF TypeOK
<1>3. CASE SetLease(r)
  <2>1. run[at[r]].status = msg[r].to
    BY <1>3, <1>a DEF SetLease, SoloFlow
  <2>2. \/ run' = run
        \/ \E x \in NextLease(msg[r]) : run' = [run EXCEPT ![at[r]] = [run[at[r]] EXCEPT !.lease = x]]
    BY <1>3 DEF SetLease, Write
  <2>3. CASE run' = run
    BY <2>3
  <2>4. CASE \E x \in NextLease(msg[r]) : run' = [run EXCEPT ![at[r]] = [run[at[r]] EXCEPT !.lease = x]]
    <3>1. PICK x \in NextLease(msg[r]) : run' = [run EXCEPT ![at[r]] = [run[at[r]] EXCEPT !.lease = x]]
      BY <2>4
    <3>2. k # at[r] => run'[k] = run[k]
      BY <3>1 DEF TypeOK
    <3>3. k = at[r] => run'[k] = [run[k] EXCEPT !.lease = x]
      BY <3>1 DEF TypeOK
    <3> QED BY <1>3, <2>1, <3>2, <3>3
  <2> QED BY <2>2, <2>3, <2>4
<1>4. CASE Point(r)
  <2>1. run' = [run EXCEPT ![at[r]] = [run[at[r]] EXCEPT !.status = Seen(r).status,
                                                         !.step = NextStepId(r)]]
    BY <1>4 DEF Point, Write
  <2>2. Seen(r) = run[at[r]]
    BY <1>4, <1>a DEF Point, SoloFlow, OnStep
  <2>3. [run[k] EXCEPT !.status = run[k].status, !.step = NextStepId(r)]
          = [run[k] EXCEPT !.step = NextStepId(r)]
    BY <1>a DEF Row
  <2> QED BY <1>4, <2>1, <2>2, <2>3 DEF TypeOK
<1>5. CASE SweepRun(r)
  <2>1. PICK j \in todo[r] : \E reason \in ReasonsFor(snap[r][j]) \ {"NONE"} :
          \/ Write(j, AfterAction(ChooseAction(j, snap[r][j], reason), snap[r][j]))
          \/ UNCHANGED run
    BY <1>5 DEF SweepRun
  <2>2. j \in Runs /\ snap[r][j] = run[j]
    BY <1>5, <1>a, <2>1 DEF SweepRun, SoloFlow, TypeOK
  <2>3. run[j].status = "RUNNING"
    BY <2>1, <2>2 DEF ReasonsFor
  <2>4. CASE UNCHANGED run
    BY <2>4
  <2>5. CASE \E reason : Write(j, AfterAction(ChooseAction(j, snap[r][j], reason), snap[r][j]))
    <3>1. PICK reason : run' = [run EXCEPT ![j] = AfterAction(ChooseAction(j, run[j], reason), run[j])]
      BY <2>2, <2>5 DEF Write
    <3>2. k # j => run'[k] = run[k]
      BY <3>1 DEF TypeOK
    <3>3. k = j => run'[k] = AfterAction(ChooseAction(k, run[k], reason), run[k])
      BY <3>1, <2>2 DEF TypeOK
    <3> QED BY <1>5, <2>3, <3>2, <3>3
  <2> QED BY <2>1, <2>4, <2>5
<1> QED
  BY <1>1, <1>2, <1>3, <1>4, <1>5
  DEF By, Handle, Sweep, Deliver, StartSweep, PassOver, AppendAudit, EndSweep, Crash,
      CheckDuplicate, ReadRun, RaiseUntimed, ReadStep, CreateStep, UpdateStep, AppendTimeline,
      MarkProcessed, rows

LEMMA LeaseStep ==
  ASSUME OneAtATime, TypeOK, FlowInv, SoloInv, Next PROVE LeaseWhileRunning'
<1>0. PICK r \in Sessions : By(r)
  BY DEF Next, By
<1> SUFFICES ASSUME NEW k \in Runs, (run'[k].status = "RUNNING") # (run'[k].lease # NoLease)
             PROVE  Owed(k, {"lease", "untimed"})'
  BY DEF LeaseWhileRunning
<1>a. Flow(r) /\ SoloFlow(r) /\ run[k] \in Row /\ LeaseWhileRunning /\ cut \subseteq cut'
  BY <1>0, LogsGrow DEF FlowInv, SoloInv, TypeOK
<1>1. CASE UpdateStatus(r) /\ k = at[r]
  <2>1. pc'[r] = "lease" /\ at'[r] = k
    BY <1>1 DEF UpdateStatus, Goto, TypeOK, locals
  <2> QED BY <2>1 DEF Owed
<1>2. ASSUME SetLease(r), k = at[r] PROVE FALSE
  <2>1. /\ run[k].status = msg[r].to /\ run[k].lease = Seen(r).lease
        /\ msg[r] \in Messages /\ msg[r].kind = "run"
    BY <1>2, <1>a DEF SetLease, SoloFlow, Flow, Handling
  <2>2. PICK x \in NextLease(msg[r]) : run' = [run EXCEPT ![k] = [run[k] EXCEPT !.lease = x]]
    BY <1>2, <2>1 DEF SetLease, Write
  <2>3. (msg[r].to = "RUNNING") = (x # NoLease)
    BY <2>2, NullsAssumption DEF NextLease, Unused
  <2>4. run'[k].status = run[k].status /\ run'[k].lease = x
    BY <2>2, <1>a DEF TypeOK, Row
  <2> QED BY <2>1, <2>3, <2>4
<1>3. CASE run'[k].status = run[k].status /\ run'[k].lease = run[k].lease
  <2>1. Owed(k, {"lease", "untimed"})
    BY <1>3, <1>a DEF LeaseWhileRunning
  <2>2. CASE <<k, "lease">> \in cut \/ <<k, "untimed">> \in cut
    BY <2>2, <1>a DEF Owed
  <2>3. CASE at[r] = k /\ pc[r] = "lease"
    <3>1. SetLease(r) \/ Crash(r) \/ RaiseUntimed(r)
      BY <1>0, <2>3
      DEF By, Handle, Sweep, Deliver, StartSweep, PassOver, SweepRun, AppendAudit, EndSweep,
          CheckDuplicate, ReadRun, RaiseUntimed, CreateRun, UpdateStatus, ReadStep, CreateStep, UpdateStep,
          Point, AppendTimeline, MarkProcessed
    <3>2. Crash(r) \/ RaiseUntimed(r)
      BY <3>1, <1>2, <2>3
    <3>3. <<k, "lease">> \in cut' \/ <<k, "untimed">> \in cut'
      BY <3>2, <2>3 DEF Crash, Halfway, RaiseUntimed
    <3> QED BY <3>3 DEF Owed
  <2>4. at[r] = k /\ pc[r] \in {"lease", "untimed"} => pc[r] = "lease"
    BY DEF TypeOK, Labels
  <2> QED BY <2>1, <2>2, <2>3, <2>4 DEF Owed, OneAtATime
<1>4. CASE run'[k] = [NoRow EXCEPT !.status = "PENDING"]
  BY <1>4 DEF NoRow
<1>5. CASE \E s : run'[k] = [run[k] EXCEPT !.step = s]
  BY <1>3, <1>5, <1>a DEF Row
<1>6. CASE \E reason : run'[k] = AfterAction(ChooseAction(k, run[k], reason), run[k])
  BY <1>6 DEF AfterAction
<1>7. SoloWrites(r, k)
  BY <1>0, SoloRows
<1> QED BY <1>1, <1>2, <1>3, <1>4, <1>5, <1>6, <1>7 DEF SoloWrites

LEMMA UncreatedStep ==
  ASSUME OneAtATime, TypeOK, FlowInv, SoloInv, Next PROVE UncreatedInv'
<1>0. PICK r \in Sessions : By(r)
  BY DEF Next, By
<1> SUFFICES ASSUME NEW k \in Runs, run'[k].status = "NONE" PROVE run'[k].attempt = 0
  BY DEF UncreatedInv
<1>a. run[k] \in Row /\ (run[k].status = "NONE" => run[k].attempt = 0)
  BY DEF SoloInv, UncreatedInv, TypeOK
<1>b. \A st : "NONE" \notin RunTransitions(st)
  BY DEF RunTransitions, RunEnds
<1>1. CASE run'[k] = run[k]
  BY <1>1, <1>a
<1>2. CASE run'[k] = [NoRow EXCEPT !.status = "PENDING"]
  BY <1>2 DEF NoRow
<1>3. CASE \E st \in RunTransitions(run[k].status) : run'[k] = [run[k] EXCEPT !.status = st]
  BY <1>3, <1>a, <1>b DEF Row
<1>4. CASE \E x : run'[k] = [run[k] EXCEPT !.lease = x]
  BY <1>4, <1>a DEF Row
<1>5. CASE \E s : run'[k] = [run[k] EXCEPT !.step = s]
  BY <1>5, <1>a DEF Row
<1>6. CASE \E reason : run'[k] = AfterAction(ChooseAction(k, run[k], reason), run[k])
  BY <1>6 DEF AfterAction
<1>7. SoloWrites(r, k)
  BY <1>0, SoloRows
<1> QED BY <1>1, <1>2, <1>3, <1>4, <1>5, <1>6, <1>7 DEF SoloWrites

(* The steps change only where a session begins or ends one.               *)
LEMMA SoloSteps ==
  ASSUME OneAtATime, TypeOK, FlowInv, SoloInv, NEW r \in Sessions, By(r)
  PROVE  \/ steps' = steps
         \/ /\ CreateStep(r) /\ pc' = [pc EXCEPT ![r] = "point"] /\ UNCHANGED locals
            /\ steps[at[r]][msg[r].step] = "NONE" /\ msg[r].to = "RUNNING"
            /\ steps' = [steps EXCEPT ![at[r]][msg[r].step] = "RUNNING"]
         \/ /\ UpdateStep(r)
            /\ steps[at[r]][msg[r].step] = "RUNNING" /\ msg[r].to \in StepEnds
            /\ steps' = [steps EXCEPT ![at[r]][msg[r].step] = msg[r].to]
<1>a. SoloFlow(r)
  BY DEF SoloInv
<1>1. CASE CreateStep(r)
  BY <1>1, <1>a DEF CreateStep, WriteStep, SoloFlow, Goto
<1>2. CASE UpdateStep(r)
  BY <1>2, <1>a DEF UpdateStep, WriteStep, SoloFlow
<1> QED
  BY <1>1, <1>2
  DEF By, Handle, Sweep, Deliver, StartSweep, PassOver, SweepRun, AppendAudit, EndSweep,
      Crash, CheckDuplicate, ReadRun, RaiseUntimed, CreateRun, UpdateStatus, SetLease, ReadStep, Point,
      AppendTimeline, MarkProcessed, rows

LEMMA PointerStep ==
  ASSUME OneAtATime, TypeOK, FlowInv, SoloInv, Next PROVE PointerInv'
<1>0. PICK r \in Sessions : By(r)
  BY DEF Next, By
<1> SUFFICES ASSUME NEW k \in Runs
             PROVE  \/ PointerFits(k)'
                    \/ at'[r] = k /\ pc'[r] = "point" /\ run'[k].step = msg'[r].step
  BY DEF PointerInv
<1>a. Flow(r) /\ SoloFlow(r) /\ run[k] \in Row /\ cut \subseteq cut'
  BY <1>0, LogsGrow DEF FlowInv, SoloInv, TypeOK
<1>b. PointerFits(k) \/ (at[r] = k /\ pc[r] = "point" /\ run[k].step = msg[r].step)
  BY DEF SoloInv, PointerInv, OneAtATime
<1>c. SoloWrites(r, k)
  BY <1>0, SoloRows
<1>1. CASE Point(r)
  <2>1. steps' = steps /\ pc[r] = "point"
    BY <1>1 DEF Point
  <2>2. CASE k # at[r]
    <3>1. run'[k] = run[k]
      BY <1>1, <2>2 DEF Point, Write, TypeOK
    <3> QED BY <1>a, <1>b, <2>1, <2>2, <3>1 DEF PointerFits
  <2>3. CASE k = at[r]
    <3>1. Seen(r) = run[k] /\ steps[k][msg[r].step] = msg[r].to
      BY <1>a, <2>1, <2>3 DEF SoloFlow, OnStep
    <3>2. run'[k].step = NextStepId(r)
      BY <1>1, <1>a, <2>3 DEF Point, Write, TypeOK, Row
    <3> QED BY <1>a, <1>b, <2>1, <2>3, <3>1, <3>2 DEF NextStepId, PointerFits
  <2> QED BY <2>2, <2>3
<1>2. CASE CreateStep(r) /\ steps' # steps
  <2>1. /\ pc'[r] = "point" /\ at' = at /\ msg' = msg /\ run' = run /\ cut' = cut
        /\ steps' = [steps EXCEPT ![at[r]][msg[r].step] = "RUNNING"]
    BY <1>0, <1>2, SoloSteps DEF CreateStep, UpdateStep, locals, TypeOK, deaths
  <2>2. \A t : (k # at[r] \/ t # msg[r].step) /\ steps[k][t] = "RUNNING"
                 => steps'[k][t] = "RUNNING"
    BY <2>1 DEF TypeOK
  <2> QED BY <1>2, <1>b, <2>1, <2>2 DEF PointerFits, CreateStep
<1>3. CASE UpdateStep(r)
  <2>1. /\ pc'[r] = "point" /\ at' = at /\ msg' = msg /\ run' = run /\ cut' = cut
        /\ steps' = [steps EXCEPT ![at[r]][msg[r].step] = msg[r].to]
    BY <1>3 DEF UpdateStep, WriteStep, Goto, locals, TypeOK, deaths
  <2>2. \A t : (k # at[r] \/ t # msg[r].step) /\ steps[k][t] = "RUNNING"
                 => steps'[k][t] = "RUNNING"
    BY <2>1 DEF TypeOK
  <2> QED BY <1>3, <1>b, <2>1, <2>2 DEF PointerFits, UpdateStep
<1>4. CASE Crash(r)
  <2>1. run' = run /\ steps' = steps
    BY <1>4 DEF Crash, rows
  <2>2. at[r] = k /\ pc[r] = "point" => <<k, "point">> \in cut'
    BY <1>4 DEF Crash, Halfway
  <2> QED BY <1>a, <1>b, <2>1, <2>2 DEF PointerFits
<1>5. CASE ~Point(r) /\ ~Crash(r) /\ steps' = steps
  <2>1. pc[r] # "point"
    BY <1>0, <1>5
    DEF By, Handle, Sweep, Deliver, StartSweep, PassOver, SweepRun, AppendAudit, EndSweep,
        CheckDuplicate, ReadRun, RaiseUntimed, CreateRun, UpdateStatus, SetLease, ReadStep, CreateStep,
        UpdateStep, AppendTimeline, MarkProcessed
  <2>2. run'[k].step = run[k].step \/ run'[k].step = NoStep
    <3>1. CASE run'[k] = [NoRow EXCEPT !.status = "PENDING"]
      BY <3>1 DEF NoRow
    <3>2. CASE \E st : run'[k] = [run[k] EXCEPT !.status = st]
      BY <3>2, <1>a DEF Row
    <3>3. CASE \E x : run'[k] = [run[k] EXCEPT !.lease = x]
      BY <3>3, <1>a DEF Row
    <3>4. CASE \E reason : run'[k] = AfterAction(ChooseAction(k, run[k], reason), run[k])
      BY <3>4 DEF AfterAction
    <3> QED BY <1>5, <1>c, <3>1, <3>2, <3>3, <3>4 DEF SoloWrites
  <2> QED BY <1>5, <1>a, <1>b, <2>1, <2>2 DEF PointerFits
<1>6. steps' = steps \/ CreateStep(r) \/ UpdateStep(r)
  BY <1>0, SoloSteps
<1> QED BY <1>1, <1>2, <1>3, <1>4, <1>5, <1>6

LEMMA SoloFlowStep ==
  ASSUME OneAtATime, TypeOK, FlowInv, SoloInv, Next
  PROVE  \A r \in Sessions : SoloFlow(r)'
<1>0. PICK r \in Sessions : By(r)
  BY DEF Next, By
<1> SUFFICES SoloFlow(r)'
  BY DEF OneAtATime
<1>a. Flow(r) /\ SoloFlow(r)
  BY DEF FlowInv, SoloInv
<1>b. pc[r] \in Handling => msg[r] \in Messages /\ at[r] = msg[r].run /\ at[r] \in Runs
  BY <1>a, MessageShape DEF Flow
<1> USE DEF locals, TypeOK
<1>d. ASSUME Return(r) PROVE SoloFlow(r)'
  BY <1>d DEF Return, Goto, SoloFlow, OnStep
<1>e. ASSUME pc'[r] \in {"check", "read", "create", "record", "mark"} PROVE SoloFlow(r)'
  BY <1>e DEF SoloFlow, OnStep
<1>1. CASE \E m \in Messages : Deliver(r, m)
  BY <1>1, <1>e DEF Deliver, Goto
<1>2. CASE CheckDuplicate(r)
  <2>1. Return(r) \/ pc'[r] = Dispatch(msg[r])
    BY <1>2 DEF CheckDuplicate, Goto
  <2> QED BY <2>1, <1>d, <1>e, DispatchCases
<1>3. CASE ReadRun(r)
  <2>1. /\ pc' = [pc EXCEPT ![r] = AfterReadRun(run[at[r]], msg[r])]
        /\ msg' = msg /\ at' = at /\ run' = run /\ pc[r] = "read"
        /\ snap' = [snap EXCEPT ![r] = [NoRows EXCEPT ![at[r]] = run[at[r]]]]
    BY <1>3 DEF ReadRun, Goto, Remember, rows
  <2>2. Seen(r)' = run[at[r]]
    BY <1>b, <2>1 DEF Seen, NoRows, Handling
  <2>3. /\ pc'[r] \in {"readStep", "create", "update", "record"}
        /\ pc'[r] = "update" => msg[r].to \in RunTransitions(run[at[r]].status)
    BY <2>1 DEF AfterReadRun
  <2> QED
    BY <2>1, <2>2, <2>3 DEF SoloFlow, OnStep
<1>4. CASE CreateRun(r)
  BY <1>4, <1>d, <1>e DEF CreateRun, Goto
<1>5. CASE UpdateStatus(r)
  <2>1. /\ run' = [run EXCEPT ![at[r]] = [run[at[r]] EXCEPT !.status = msg[r].to,
                                                            !.step = Seen(r).step]]
        /\ UNCHANGED locals /\ pc'[r] = "lease"
    BY <1>5 DEF UpdateStatus, Write, Goto
  <2>2. Seen(r) = run[at[r]] /\ at[r] \in Runs
    BY <1>5, <1>a, <1>b DEF UpdateStatus, SoloFlow, Handling
  <2>3. run'[at[r]].status = msg[r].to /\ run'[at[r]].lease = run[at[r]].lease
    BY <2>1, <2>2 DEF Row
  <2> QED BY <2>1, <2>2, <2>3 DEF SoloFlow, OnStep, Seen
<1>6. CASE SetLease(r)
  BY <1>6, <1>e DEF SetLease, Goto
<1>7. CASE ReadStep(r)
  <2>1. /\ pc'[r] = AfterReadStep(steps[at[r]][msg[r].step], msg[r])
        /\ UNCHANGED <<locals, run, steps>> /\ pc[r] = "readStep"
    BY <1>7 DEF ReadStep, Goto, rows
  <2>2. /\ pc'[r] \in {"createStep", "updateStep", "record"}
        /\ pc'[r] = "createStep" => msg[r].to = "RUNNING"
        /\ pc'[r] = "updateStep" => msg[r].to \in StepTransitions(steps[at[r]][msg[r].step])
    BY <2>1 DEF AfterReadStep
  <2>3. pc'[r] = "updateStep" =>
          steps[at[r]][msg[r].step] = "RUNNING" /\ msg[r].to \in StepEnds
    BY <2>2 DEF StepTransitions
  <2> QED
    BY <2>1, <2>2, <2>3, <1>a DEF SoloFlow, OnStep, Seen
<1>8. CASE CreateStep(r) \/ UpdateStep(r)
  <2>1. CASE Return(r)
    BY <2>1, <1>d
  <2>2. CASE ~Return(r)
    <3>1. /\ pc'[r] = "point" /\ UNCHANGED <<locals, run>> /\ pc[r] \in OnStep
          /\ steps' = [steps EXCEPT ![at[r]][msg[r].step] = msg[r].to]
      BY <1>8, <2>2 DEF CreateStep, UpdateStep, WriteStep, Goto, OnStep
    <3>2. at[r] \in Runs /\ msg[r].step \in Steps
      BY <3>1, <1>a, <1>b DEF Flow, OnStep, Handling
    <3>3. steps'[at[r]][msg[r].step] = msg[r].to
      BY <3>1, <3>2
    <3> QED BY <3>1, <3>3, <1>a DEF SoloFlow, OnStep, Seen
  <2> QED BY <2>1, <2>2
<1>9. CASE Point(r)
  BY <1>9, <1>e DEF Point, Goto
<1>10. CASE AppendTimeline(r)
  BY <1>10, <1>e DEF AppendTimeline, Goto
<1>11. CASE MarkProcessed(r) \/ EndSweep(r) \/ Crash(r) \/ RaiseUntimed(r)
  BY <1>11, <1>d DEF MarkProcessed, EndSweep, Crash, RaiseUntimed
<1>12. CASE StartSweep(r)
  BY <1>12 DEF StartSweep, Goto, SoloFlow, OnStep, rows, InFlight
<1>13. CASE PassOver(r)
  BY <1>13, <1>a DEF PassOver, SoloFlow, OnStep, rows
<1>14. CASE SweepRun(r)
  <2>1. PICK j \in todo[r] :
          /\ todo' = [todo EXCEPT ![r] = @ \ {j}]
          /\ \E row : Write(j, row) \/ UNCHANGED run
    BY <1>14 DEF SweepRun
  <2>2. \A k \in todo'[r] : k \in todo[r] /\ run'[k] = run[k]
    BY <2>1 DEF Write
  <2> QED BY <1>14, <1>a, <2>2 DEF SweepRun, Goto, SoloFlow, OnStep
<1>15. CASE AppendAudit(r)
  BY <1>15, <1>a DEF AppendAudit, Goto, SoloFlow, OnStep, rows
<1> QED
  BY <1>0, <1>1, <1>2, <1>3, <1>4, <1>5, <1>6, <1>7, <1>8, <1>9, <1>10, <1>11, <1>12, <1>13,
     <1>14, <1>15 DEF By, Handle, Sweep

-----------------------------------------------------------------------------
(* The refinement of RunLifecycle.                                         *)

(* The rows projected to the life cycle's variables change with them.      *)
LEMMA ProjectedWrite ==
  ASSUME TypeOK, NEW k \in Runs, NEW row, run' = [run EXCEPT ![k] = row]
  PROVE  /\ [j \in Runs |-> run[j].status]'
              = [[j \in Runs |-> run[j].status] EXCEPT ![k] = row.status]
         /\ [j \in Runs |-> run[j].attempt]'
              = [[j \in Runs |-> run[j].attempt] EXCEPT ![k] = row.attempt]
BY DEF TypeOK

LEMMA LifecycleMoves ==
  ASSUME NEW k \in Runs
  PROVE  /\ Lifecycle!Create(k) => Lifecycle!Next
         /\ Lifecycle!Start(k) => Lifecycle!Next
         /\ Lifecycle!End(k) => Lifecycle!Next
         /\ Lifecycle!Intervene(k) => Lifecycle!Next
         /\ \A t \in Steps : Lifecycle!StepBegin(k, t) \/ Lifecycle!StepEnd(k, t) => Lifecycle!Next
BY DEF Lifecycle!Next

LEMMA LifecycleStep ==
  ASSUME OneAtATime, TypeOK, FlowInv, SoloInv, Next
  PROVE  Lifecycle!Next \/ UNCHANGED Lifecycle!vars
<1> DEFINE status   == [j \in Runs |-> run[j].status]
           attempts == [j \in Runs |-> run[j].attempt]
<1>0. PICK r \in Sessions : By(r)
  BY DEF Next, By
<1>a. Flow(r) /\ SoloFlow(r) /\ UncreatedInv
  BY DEF FlowInv, SoloInv
<1>b. pc[r] \in Handling => msg[r] \in Messages /\ at[r] = msg[r].run /\ at[r] \in Runs
  BY <1>a, MessageShape DEF Flow
<1>c. \A k \in Runs : run[k] \in Row /\ status[k] = run[k].status /\ attempts[k] = run[k].attempt
  BY DEF TypeOK
<1>1. CASE CreateRun(r) /\ run[at[r]].status = "NONE"
  <2>1. /\ at[r] \in Runs /\ steps' = steps
        /\ run' = [run EXCEPT ![at[r]] = [NoRow EXCEPT !.status = "PENDING"]]
    BY <1>1, <1>b DEF CreateRun, Handling, Write
  <2>2. [NoRow EXCEPT !.status = "PENDING"].status = "PENDING"
        /\ [NoRow EXCEPT !.status = "PENDING"].attempt = 0
    BY DEF NoRow
  <2>3. status' = [status EXCEPT ![at[r]] = "PENDING"] /\ attempts' = [attempts EXCEPT ![at[r]] = 0]
    BY <2>1, <2>2, ProjectedWrite
  <2>4. attempts[at[r]] = 0
    BY <1>1, <1>a, <2>1 DEF UncreatedInv
  <2>5. attempts' = attempts
    BY <2>3, <2>4
  <2>6. PICK k \in Runs : k = at[r]
    BY <2>1
  <2>7. Lifecycle!Create(k)
    BY <1>1, <2>1, <2>3, <2>5, <2>6 DEF Lifecycle!Create, Lifecycle!Become
  <2> QED BY <2>7, LifecycleMoves
<1>2. CASE UpdateStatus(r)
  <2>1. /\ at[r] \in Runs /\ steps' = steps
        /\ run' = [run EXCEPT ![at[r]] = [run[at[r]] EXCEPT !.status = msg[r].to,
                                                            !.step = Seen(r).step]]
        /\ msg[r].to \in RunTransitions(run[at[r]].status)
    BY <1>2, <1>a, <1>b DEF UpdateStatus, Handling, Write, SoloFlow
  <2> DEFINE row == [run[at[r]] EXCEPT !.status = msg[r].to, !.step = Seen(r).step]
  <2>2. row.status = msg[r].to /\ row.attempt = run[at[r]].attempt
    BY <1>c, <2>1 DEF Row
  <2>3. status' = [status EXCEPT ![at[r]] = msg[r].to] /\ attempts' = attempts
    <3> HIDE DEF row
    <3>1. /\ status' = [status EXCEPT ![at[r]] = row.status]
          /\ attempts' = [attempts EXCEPT ![at[r]] = row.attempt]
      BY <2>1, ProjectedWrite DEF row
    <3> QED BY <2>1, <2>2, <3>1
  <2>4. CASE msg[r].to = "RUNNING"
    <3>1. run[at[r]].status = "PENDING"
      BY <2>1, <2>4 DEF RunTransitions, RunEnds
    <3>2. PICK k \in Runs : k = at[r]
      BY <2>1
    <3>3. Lifecycle!Start(k)
      BY <2>1, <2>3, <2>4, <3>1, <3>2 DEF Lifecycle!Start, Lifecycle!Become
    <3> QED BY <3>3, LifecycleMoves
  <2>5. CASE msg[r].to # "RUNNING"
    <3>1. /\ msg[r].to \in Lifecycle!RunEnds
          /\ \/ run[at[r]].status = "RUNNING"
             \/ run[at[r]].status = "PENDING" /\ msg[r].to # "SUCCEEDED"
      BY <2>1, <2>5 DEF RunTransitions, RunEnds, Lifecycle!RunEnds
    <3>2. Lifecycle!End(at[r])
      BY <2>1, <2>3, <3>1 DEF Lifecycle!End, Lifecycle!Become
    <3> QED BY <2>1, <3>2, LifecycleMoves
  <2> QED BY <2>4, <2>5
<1>3. CASE SweepRun(r) /\ run' # run
  <2>1. PICK j \in todo[r] : \E reason \in ReasonsFor(snap[r][j]) \ {"NONE"} :
          Write(j, AfterAction(ChooseAction(j, snap[r][j], reason), snap[r][j]))
    BY <1>3 DEF SweepRun
  <2>2. j \in Runs /\ snap[r][j] = run[j] /\ steps' = steps
    BY <1>3, <1>a, <2>1 DEF SweepRun, SoloFlow, TypeOK
  <2>3. run[j].status = "RUNNING"
    BY <2>1, <2>2 DEF ReasonsFor
  <2>4. PICK reason : run' = [run EXCEPT ![j] = AfterAction(ChooseAction(j, run[j], reason), run[j])]
    BY <2>1, <2>2 DEF Write
  <2> DEFINE act == ChooseAction(j, run[j], reason)
  <2>5. /\ AfterAction(act, run[j]).status = IF act = "RETRY" THEN "PENDING" ELSE "FAILED"
        /\ AfterAction(act, run[j]).attempt = run[j].attempt + 1
    BY DEF AfterAction
  <2>6. /\ status' = [status EXCEPT ![j] = IF act = "RETRY" THEN "PENDING" ELSE "FAILED"]
        /\ attempts' = [attempts EXCEPT ![j] = attempts[j] + 1]
    <3> HIDE DEF act
    <3>1. /\ status' = [status EXCEPT ![j] = AfterAction(act, run[j]).status]
          /\ attempts' = [attempts EXCEPT ![j] = AfterAction(act, run[j]).attempt]
      BY <2>2, <2>4, ProjectedWrite DEF act
    <3> QED BY <1>c, <2>2, <2>5, <3>1
  <2>7. act = "RETRY" => Lifecycle!MayRetry(j)
    <3>1. run[j].attempt \in Nat
      BY <1>c, <2>2 DEF Row
    <3> QED BY <2>2, <3>1, <1>c DEF ChooseAction, Lifecycle!MayRetry
  <2>8. Lifecycle!Intervene(j)
    <3> HIDE DEF act
    <3> QED
      BY <2>2, <2>3, <2>6, <2>7, <1>c DEF Lifecycle!Intervene, Lifecycle!Become
  <2> QED BY <2>2, <2>8, LifecycleMoves
<1>4. CASE SetLease(r) \/ Point(r)
  <2>1. \A k \in Runs : run'[k].status = run[k].status /\ run'[k].attempt = run[k].attempt
    <3> SUFFICES ASSUME NEW k \in Runs
                 PROVE  run'[k].status = run[k].status /\ run'[k].attempt = run[k].attempt
      OBVIOUS
    <3>1. SoloWrites(r, k)
      BY <1>0, SoloRows
    <3>2. CASE \E x : run'[k] = [run[k] EXCEPT !.lease = x]
      BY <3>2, <1>c DEF Row
    <3>3. CASE \E s : run'[k] = [run[k] EXCEPT !.step = s]
      BY <3>3, <1>c DEF Row
    <3> QED
      BY <1>4, <3>1, <3>2, <3>3
      DEF SoloWrites, SetLease, Point, CreateRun, UpdateStatus, SweepRun
  <2>2. steps' = steps
    BY <1>4 DEF SetLease, Point
  <2> QED BY <2>1, <2>2 DEF Lifecycle!vars
<1>5. CASE CreateStep(r) /\ steps' # steps
  <2>1. /\ run' = run /\ at[r] \in Runs /\ msg[r].step \in Steps
        /\ run[at[r]].status = "RUNNING"
        /\ steps[at[r]][msg[r].step] = "NONE"
        /\ steps' = [steps EXCEPT ![at[r]][msg[r].step] = "RUNNING"]
    BY <1>0, <1>5, <1>a, <1>b, SoloSteps
    DEF CreateStep, UpdateStep, Flow, SoloFlow, Handling, OnStep
  <2>2. status' = status /\ attempts' = attempts
    BY <2>1
  <2>3. Lifecycle!StepBegin(at[r], msg[r].step)
    BY <2>1, <2>2, <1>c DEF Lifecycle!StepBegin
  <2> QED BY <2>1, <2>3, LifecycleMoves
<1>6. CASE UpdateStep(r)
  <2>1. /\ run' = run /\ at[r] \in Runs /\ msg[r].step \in Steps
        /\ run[at[r]].status = "RUNNING"
        /\ steps[at[r]][msg[r].step] = "RUNNING" /\ msg[r].to \in Lifecycle!StepEnds
        /\ steps' = [steps EXCEPT ![at[r]][msg[r].step] = msg[r].to]
    BY <1>6, <1>a, <1>b
    DEF UpdateStep, WriteStep, Flow, SoloFlow, Handling, OnStep, StepEnds, Lifecycle!StepEnds
  <2>2. status' = status /\ attempts' = attempts
    BY <2>1
  <2>3. Lifecycle!StepEnd(at[r], msg[r].step)
    BY <2>1, <2>2, <1>c DEF Lifecycle!StepEnd
  <2> QED BY <2>1, <2>3, LifecycleMoves
<1>7. CASE run' = run /\ steps' = steps
  BY <1>7 DEF Lifecycle!vars
<1>8. steps' = steps \/ CreateStep(r) \/ UpdateStep(r)
  BY <1>0, SoloSteps
<1>9. \/ run' = run
      \/ CreateRun(r) /\ run[at[r]].status = "NONE"
      \/ UpdateStatus(r) \/ SetLease(r) \/ Point(r) \/ SweepRun(r)
  BY <1>0
  DEF By, Handle, Sweep, Deliver, StartSweep, PassOver, AppendAudit, EndSweep, Crash,
      CheckDuplicate, ReadRun, RaiseUntimed, CreateRun, ReadStep, CreateStep, UpdateStep, AppendTimeline,
      MarkProcessed, rows
<1>10. run' # run => steps' = steps
  BY <1>8 DEF CreateStep, UpdateStep
<1> QED BY <1>1, <1>2, <1>3, <1>4, <1>5, <1>6, <1>7, <1>8, <1>9, <1>10

LEMMA InitSolo == ASSUME Init PROVE SoloInv
<1> USE DEF Init
<1>1. \A k \in Runs : run[k].status = "NONE" /\ run[k].attempt = 0
                      /\ run[k].lease = NoLease /\ run[k].step = NoStep
  BY DEF NoRows, NoRow
<1>2. \A r \in Sessions : SoloFlow(r)
  BY DEF SoloFlow, OnStep
<1>3. UncreatedInv /\ LeaseWhileRunning /\ PointerInv
  BY <1>1 DEF UncreatedInv, LeaseWhileRunning, PointerInv, PointerFits
<1> QED BY <1>2, <1>3 DEF SoloInv

LEMMA SoloStutter == ASSUME SoloInv, UNCHANGED vars PROVE SoloInv'
<1> USE DEF vars, rows, logs, locals, deaths, SoloInv
<1>1. \A r \in Sessions : SoloFlow(r)'
  BY DEF SoloFlow, Seen
<1>2. UncreatedInv' /\ LeaseWhileRunning' /\ PointerInv'
  BY DEF UncreatedInv, LeaseWhileRunning, Owed, PointerInv, PointerFits
<1> QED BY <1>1, <1>2

LEMMA SoloNext == ASSUME OneAtATime, IInv, SoloInv, [Next]_vars PROVE SoloInv'
<1>1. CASE Next
  BY <1>1, SoloFlowStep, UncreatedStep, LeaseStep, PointerStep DEF IInv, SoloInv
<1>2. CASE UNCHANGED vars
  BY <1>2, SoloStutter
<1> QED BY <1>1, <1>2

(* While requests do not overlap, what a session has read is what the rows
   still hold when it writes.                                              *)
THEOREM SoloInvariance == ASSUME OneAtATime PROVE Spec => []SoloInv
<1>1. Init => SoloInv
  BY InitSolo
<1>2. IInv /\ SoloInv /\ [Next]_vars => SoloInv'
  BY SoloNext
<1> QED BY <1>1, <1>2, Invariance, PTL DEF Spec

(* With one request at a time a run has a lease exactly while it runs, but
   for a lease write that is due or was lost (242, 252).                   *)
THEOREM LeasesFollowStatus == ASSUME OneAtATime PROVE Spec => []LeaseWhileRunning
<1>1. SoloInv => LeaseWhileRunning
  BY DEF SoloInv
<1> QED BY <1>1, SoloInvariance, PTL

(* With one request at a time the current step of a run is one that runs,
   but for a pointer write that is due or was lost (335).                  *)
THEOREM PointersFollowSteps == ASSUME OneAtATime PROVE Spec => []CurrentStepRuns
<1>1. SoloInv => CurrentStepRuns
  BY DEF SoloInv, PointerInv, PointerFits, CurrentStepRuns, Owed
<1> QED BY <1>1, SoloInvariance, PTL

(* With one request at a time, deliveries and sweeps in any order, with
   duplicates and deaths, do to the runs what the life cycle allows.       *)
THEOREM RefinesLifecycle == ASSUME OneAtATime PROVE Spec => ImplementsLifecycle
<1>1. Init => Lifecycle!Init
  BY DEF Init, Lifecycle!Init, NoRows, NoRow
<1>2. IInv /\ SoloInv /\ [Next]_vars => [Lifecycle!Next]_(Lifecycle!vars)
  <2> SUFFICES ASSUME IInv, SoloInv, [Next]_vars
               PROVE  Lifecycle!Next \/ UNCHANGED Lifecycle!vars
    OBVIOUS
  <2>1. CASE Next
    BY <2>1, LifecycleStep DEF IInv
  <2>2. CASE UNCHANGED vars
    BY <2>2 DEF vars, rows, Lifecycle!vars
  <2> QED BY <2>1, <2>2
<1> QED
  BY <1>1, <1>2, Invariance, SoloInvariance, PTL DEF Spec, ImplementsLifecycle, Lifecycle!Spec

(* With one request at a time a run that has ended keeps its status, as
   the table of transitions means it (44): only overlapping requests break
   that.                                                                   *)
THEOREM EndsStay == ASSUME OneAtATime PROVE Spec => TerminalIsFinal
<1>1. IInv /\ SoloInv /\ [Next]_vars =>
        [\A k \in Runs :
           run[k].status \in RunEnds => (run[k].status)' = run[k].status]_vars
  <2> SUFFICES ASSUME IInv, SoloInv, Next, NEW k \in Runs, run[k].status \in RunEnds
               PROVE  run'[k].status = run[k].status
    OBVIOUS
  <2>0. PICK r \in Sessions : By(r)
    BY DEF Next, By
  <2>1. SoloWrites(r, k) /\ run[k] \in Row
    BY <2>0, SoloRows DEF IInv, TypeOK
  <2>2. run[k].status \notin {"NONE", "PENDING", "RUNNING"}
    BY DEF RunEnds
  <2>3. RunTransitions(run[k].status) = {}
    BY <2>2 DEF RunTransitions
  <2>4. CASE \E x : run'[k] = [run[k] EXCEPT !.lease = x]
    BY <2>1, <2>4 DEF Row
  <2>5. CASE \E s : run'[k] = [run[k] EXCEPT !.step = s]
    BY <2>1, <2>5 DEF Row
  <2> QED BY <2>1, <2>2, <2>3, <2>4, <2>5 DEF SoloWrites
<1> QED BY <1>1, Invariance, SoloInvariance, PTL DEF Spec, TerminalIsFinal

-----------------------------------------------------------------------------
(* How often an event is decided.                                          *)

(* The sessions that found m new and have still to record their decision,
   and those that have recorded it.                                        *)
Deciding(m) == {r \in Sessions : msg[r] = m /\ pc[r] \in Handling \ {"check", "mark"}}
Marking(m)  == {r \in Sessions : msg[r] = m /\ pc[r] = "mark"}

(* Before the ledger knows m, each entry has its session or its death;
   afterwards only those that already decide m can add one.                *)
BudgetInv ==
  \A m \in Messages :
    /\ m \notin processed => Entries(m) <= Cardinality(Marking(m)) + crashes
    /\ m \in processed =>
         Entries(m) + Cardinality(Deciding(m)) <= Cardinality(Sessions) + crashes

(* A step moves no session but its own in or out.                          *)
LEMMA OthersStay ==
  ASSUME TypeOK, NEW r \in Sessions, By(r), NEW m
  PROVE  /\ Deciding(m)' \ {r} = Deciding(m) \ {r}
         /\ Marking(m)' \ {r} = Marking(m) \ {r}
BY Locality DEF SameLocals, Deciding, Marking

LEMMA EntriesCounted ==
  ASSUME TypeOK, FlowInv, NEW r \in Sessions, By(r), NEW m \in Messages
  PROVE  /\ Entries(m) \in Nat
         /\ AppendTimeline(r) /\ msg[r] = m => Entries(m)' = Entries(m) + 1
         /\ ~(AppendTimeline(r) /\ msg[r] = m) => Entries(m)' = Entries(m)
<1>0. \A x \in Messages, d \in Decisions : recorded[x][d] \in Nat
  BY DEF TypeOK
<1>1. Entries(m) \in Nat
  BY <1>0 DEF Entries, Decisions
<1>2. CASE AppendTimeline(r)
  <2>1. msg[r] \in Messages /\ verdict[r] \in Decisions
    BY <1>2 DEF AppendTimeline, FlowInv, Flow, Handling, TypeOK
  <2>2. recorded' = [recorded EXCEPT ![msg[r]][verdict[r]] = @ + 1]
    BY <1>2 DEF AppendTimeline
  <2>3. \A d \in Decisions :
          recorded'[m][d] = IF m = msg[r] /\ d = verdict[r] THEN recorded[m][d] + 1
                                                           ELSE recorded[m][d]
    BY <2>1, <2>2 DEF TypeOK
  <2>4. /\ recorded[m]["ACCEPTED"] \in Nat /\ recorded[m]["REJECTED"] \in Nat
        /\ verdict[r] = "ACCEPTED" \/ verdict[r] = "REJECTED"
    BY <1>0, <2>1 DEF Decisions
  <2>5. CASE m = msg[r]
    <3>1. recorded'[m]["ACCEPTED"] + recorded'[m]["REJECTED"]
            = recorded[m]["ACCEPTED"] + recorded[m]["REJECTED"] + 1
      BY <2>3, <2>4, <2>5 DEF Decisions
    <3> QED BY <1>1, <1>2, <2>5, <3>1 DEF Entries
  <2>6. CASE m # msg[r]
    <3>1. recorded'[m]["ACCEPTED"] = recorded[m]["ACCEPTED"]
          /\ recorded'[m]["REJECTED"] = recorded[m]["REJECTED"]
      BY <2>3, <2>6 DEF Decisions
    <3> QED BY <1>1, <2>6, <3>1 DEF Entries
  <2> QED BY <2>5, <2>6
<1>3. CASE ~AppendTimeline(r)
  <2>1. recorded' = recorded
    BY <1>3
    DEF By, Handle, Sweep, Deliver, StartSweep, PassOver, SweepRun, AppendAudit, EndSweep,
        Crash, CheckDuplicate, ReadRun, RaiseUntimed, CreateRun, UpdateStatus, SetLease, ReadStep, CreateStep,
        UpdateStep, Point, MarkProcessed, logs
  <2> QED BY <1>1, <1>3, <2>1 DEF Entries
<1> QED BY <1>2, <1>3

(* What a step of session r, none of the three that count for m, does.     *)
LEMMA OtherMoves ==
  ASSUME TypeOK, FlowInv, NEW r \in Sessions, By(r), NEW m \in Messages,
         ~(AppendTimeline(r) /\ msg[r] = m), ~(MarkProcessed(r) /\ msg[r] = m), ~Crash(r)
  PROVE  /\ crashes' = crashes
         /\ m \in processed' <=> m \in processed
         /\ r \in Marking(m)' <=> r \in Marking(m)
         /\ m \in processed /\ r \in Deciding(m)' => r \in Deciding(m)
<1> USE DEF TypeOK, Goto, Marking, Deciding, Handling, logs, locals, deaths
<1>1. CASE \E x \in Messages : Deliver(r, x)
  BY <1>1 DEF Deliver
<1>2. CASE CheckDuplicate(r)
  <2>1. crashes' = crashes /\ processed' = processed /\ pc[r] = "check"
    BY <1>2 DEF CheckDuplicate
  <2>2. CASE Return(r)
    BY <2>1, <2>2 DEF Return
  <2>3. CASE ~Return(r)
    <3>1. msg' = msg /\ msg[r] \notin processed /\ pc'[r] = Dispatch(msg[r])
      BY <1>2, <2>3 DEF CheckDuplicate
    <3>2. pc'[r] \in {"read", "record"}
      BY <3>1, DispatchCases
    <3> QED BY <2>1, <3>1, <3>2
  <2> QED BY <2>2, <2>3
<1>3. CASE ReadRun(r)
  <2>1. pc'[r] \in {"readStep", "create", "update", "record"}
    BY <1>3 DEF ReadRun, AfterReadRun
  <2> QED BY <1>3, <2>1 DEF ReadRun
<1>4. CASE CreateRun(r) \/ CreateStep(r)
  BY <1>4 DEF CreateRun, CreateStep, Return
<1>5. CASE UpdateStatus(r) \/ SetLease(r) \/ UpdateStep(r) \/ Point(r)
  BY <1>5 DEF UpdateStatus, SetLease, UpdateStep, Point
<1>6. CASE ReadStep(r)
  <2>1. pc'[r] \in {"createStep", "updateStep", "record"}
    BY <1>6 DEF ReadStep, AfterReadStep
  <2> QED BY <1>6, <2>1 DEF ReadStep
<1>7. CASE AppendTimeline(r)
  BY <1>7 DEF AppendTimeline
<1>8. CASE MarkProcessed(r) \/ RaiseUntimed(r)
  BY <1>8 DEF MarkProcessed, RaiseUntimed, Return
<1>9. CASE StartSweep(r) \/ Sweep(r)
  BY <1>9 DEF StartSweep, Sweep, PassOver, SweepRun, AppendAudit, EndSweep, Return
<1> QED
  BY <1>1, <1>2, <1>3, <1>4, <1>5, <1>6, <1>7, <1>8, <1>9 DEF By, Handle

LEMMA BudgetStep ==
  ASSUME IsFiniteSet(Sessions), TypeOK, FlowInv, BudgetInv, Next
  PROVE  BudgetInv'
<1>0. PICK r \in Sessions : By(r)
  BY DEF Next, By
<1> SUFFICES ASSUME NEW m \in Messages
             PROVE  /\ m \notin processed' =>
                         Entries(m)' <= Cardinality(Marking(m)') + crashes'
                    /\ m \in processed' =>
                         Entries(m)' + Cardinality(Deciding(m)')
                           <= Cardinality(Sessions) + crashes'
  BY DEF BudgetInv
<1> DEFINE D == Deciding(m) DD == Deciding(m)' M == Marking(m) MM == Marking(m)'
<1>1. /\ m \notin processed => Entries(m) <= Cardinality(M) + crashes
      /\ m \in processed => Entries(m) + Cardinality(D) <= Cardinality(Sessions) + crashes
  BY DEF BudgetInv
<1>2. DD \ {r} = D \ {r} /\ MM \ {r} = M \ {r}
  BY <1>0, OthersStay
<1>3. D \in SUBSET Sessions /\ M \in SUBSET Sessions /\ D \cap M = {} /\ D \cup M \in SUBSET Sessions
  BY DEF Deciding, Marking
<1>4. IsFiniteSet(D) /\ IsFiniteSet(M) /\ IsFiniteSet(D \ {r}) /\ IsFiniteSet(M \ {r})
  BY <1>3, FS_Subset, FS_RemoveElement
<1>5. /\ Cardinality(D) \in Nat /\ Cardinality(M) \in Nat /\ Cardinality(Sessions) \in Nat
      /\ crashes \in Nat /\ Entries(m) \in Nat
  BY <1>0, <1>4, FS_CardinalityType, EntriesCounted, BoundsAssumption DEF TypeOK
<1>6. Cardinality(D) + Cardinality(M) <= Cardinality(Sessions)
  <2>1. Cardinality(D \cup M) = Cardinality(D) + Cardinality(M) - Cardinality(D \cap M)
    BY <1>4, FS_Union
  <2>2. Cardinality(D \cap M) = 0
    BY <1>3, FS_EmptySet
  <2>3. Cardinality(D \cup M) <= Cardinality(Sessions)
    BY <1>3, FS_Subset
  <2> QED BY <1>5, <2>1, <2>2, <2>3
<1> HIDE DEF D, DD, M, MM
<1>7. CASE AppendTimeline(r) /\ msg[r] = m
  <2>1. r \in D /\ r \notin M /\ r \in MM /\ r \notin DD
    BY <1>7, <1>0 DEF D, DD, M, MM, AppendTimeline, Deciding, Marking, Handling, Goto, TypeOK,
                      locals
  <2>2. MM = M \cup {r} /\ DD = D \ {r}
    BY <1>2, <2>1
  <2>3. Cardinality(MM) = Cardinality(M) + 1 /\ Cardinality(DD) = Cardinality(D) - 1
    BY <1>4, <2>1, <2>2, FS_AddElement, FS_RemoveElement
  <2>4. Entries(m)' = Entries(m) + 1
    BY <1>0, <1>7, EntriesCounted
  <2>5. crashes' = crashes /\ processed' = processed
    BY <1>7 DEF AppendTimeline, deaths
  <2> QED BY <1>1, <1>5, <2>3, <2>4, <2>5 DEF DD, MM
<1>8. CASE MarkProcessed(r) /\ msg[r] = m
  <2>1. r \notin D /\ r \notin DD
    BY <1>8 DEF D, DD, MarkProcessed, Deciding, Handling, Return, Goto, TypeOK
  <2>2. DD = D
    BY <1>2, <2>1
  <2>3. m \in processed' /\ crashes' = crashes
    BY <1>8 DEF MarkProcessed, deaths
  <2>4. Entries(m)' = Entries(m)
    BY <1>0, <1>8, EntriesCounted DEF MarkProcessed, AppendTimeline
  <2> QED BY <1>1, <1>5, <1>6, <2>2, <2>3, <2>4 DEF DD
<1>9. CASE Crash(r)
  <2>1. r \notin DD /\ r \notin MM
    BY <1>9 DEF DD, MM, Crash, Deciding, Marking, Handling, Return, Goto, TypeOK
  <2>2. DD = D \ {r} /\ MM = M \ {r}
    BY <1>2, <2>1
  <2>3. /\ Cardinality(DD) \in Nat /\ Cardinality(DD) <= Cardinality(D)
        /\ Cardinality(MM) \in Nat /\ Cardinality(M) <= Cardinality(MM) + 1
    <3>1. Cardinality(DD) \in Nat /\ Cardinality(MM) \in Nat
      BY <1>4, <2>2, FS_CardinalityType
    <3>2. Cardinality(DD) = IF r \in D THEN Cardinality(D) - 1 ELSE Cardinality(D)
      BY <1>4, <2>2, FS_RemoveElement
    <3>3. Cardinality(MM) = IF r \in M THEN Cardinality(M) - 1 ELSE Cardinality(M)
      BY <1>4, <2>2, FS_RemoveElement
    <3> QED BY <1>5, <3>1, <3>2, <3>3
  <2>4. Entries(m)' = Entries(m) /\ processed' = processed /\ crashes' = crashes + 1
    BY <1>9 DEF Crash, Entries, logs
  <2> QED BY <1>1, <1>5, <2>3, <2>4 DEF DD, MM
<1>10. CASE /\ ~(AppendTimeline(r) /\ msg[r] = m) /\ ~(MarkProcessed(r) /\ msg[r] = m)
            /\ ~Crash(r)
  <2>1. /\ crashes' = crashes /\ (m \in processed' <=> m \in processed)
        /\ (r \in MM <=> r \in M) /\ (m \in processed /\ r \in DD => r \in D)
    BY <1>0, <1>10, OtherMoves DEF D, DD, M, MM
  <2>2. MM = M
    BY <1>2, <2>1
  <2>3. Entries(m)' = Entries(m)
    BY <1>0, <1>10, EntriesCounted
  <2>4. CASE m \in processed
    <3>1. DD \in SUBSET D
      BY <1>2, <2>1, <2>4
    <3>2. Cardinality(DD) \in Nat /\ Cardinality(DD) <= Cardinality(D)
      BY <1>4, <3>1, FS_Subset, FS_CardinalityType
    <3> QED BY <1>1, <1>5, <2>1, <2>3, <2>4, <3>2 DEF DD
  <2>5. CASE m \notin processed
    BY <1>1, <2>1, <2>2, <2>3, <2>5 DEF MM
  <2> QED BY <2>4, <2>5
<1> QED BY <1>7, <1>8, <1>9, <1>10

LEMMA BudgetInit == ASSUME Init PROVE BudgetInv
<1> SUFFICES ASSUME NEW m \in Messages
             PROVE  Entries(m) <= Cardinality(Marking(m)) + crashes
  BY DEF BudgetInv, Init
<1>1. Marking(m) = {}
  BY DEF Init, Marking
<1>2. Entries(m) = 0 /\ crashes = 0
  BY DEF Init, Entries, Decisions
<1> QED BY <1>1, <1>2, FS_EmptySet

LEMMA BudgetNext ==
  ASSUME IsFiniteSet(Sessions), IInv, BudgetInv, [Next]_vars PROVE BudgetInv'
<1>1. CASE Next
  BY <1>1, BudgetStep DEF IInv
<1>2. CASE UNCHANGED vars
  BY <1>2 DEF vars, rows, logs, locals, deaths, BudgetInv, Entries, Marking, Deciding
<1> QED BY <1>1, <1>2

(* However requests overlap and die, an event is not decided once more for
   every redelivery: the ledger stops all but those that already decide it
   (process_message, was_message_processed).                               *)
THEOREM DecisionsBounded ==
  ASSUME IsFiniteSet(Sessions) PROVE Spec => []RedeliveriesBounded
<1>1. Init => BudgetInv
  BY BudgetInit
<1>2. IInv /\ BudgetInv /\ [Next]_vars => BudgetInv'
  BY BudgetNext
<1>3. IInv /\ BudgetInv => RedeliveriesBounded
  <2> SUFFICES ASSUME IInv, BudgetInv, NEW m \in Messages
               PROVE  Entries(m) <= Cardinality(Sessions) + crashes
    BY DEF RedeliveriesBounded
  <2>1. Deciding(m) \in SUBSET Sessions /\ Marking(m) \in SUBSET Sessions
    BY DEF Deciding, Marking
  <2>2. /\ Cardinality(Deciding(m)) \in Nat /\ Cardinality(Marking(m)) \in Nat
        /\ Cardinality(Sessions) \in Nat /\ Cardinality(Marking(m)) <= Cardinality(Sessions)
    BY <2>1, FS_Subset, FS_CardinalityType
  <2>3. Entries(m) \in Nat /\ crashes \in Nat
    BY BoundsAssumption DEF IInv, TypeOK, Entries, Decisions
  <2> QED BY <2>2, <2>3 DEF BudgetInv
<1> QED BY <1>1, <1>2, <1>3, Invariance, PTL DEF Spec

=============================================================================
