---------------------------- MODULE RunLifecycle ----------------------------
(***************************************************************************)
(* What the control plane promises of a run, whoever handles its events: a *)
(* run is created pending, starts, ends once; steps begin only while their *)
(* run is running; and the watchdog takes a stale running run away from    *)
(* its worker, back to pending as often as the run's type allows.          *)
(*                                                                         *)
(* Sources: the transition tables of worker_state_machine_service.py and   *)
(* the policy of watchdog_service.py.                                      *)
(***************************************************************************)
EXTENDS Naturals

CONSTANTS
  Runs,     (* runs                                                        *)
  Steps,    (* steps of a run                                              *)
  RunType   (* the type each run was submitted with                        *)

VARIABLES
  status,   (* of each run, "NONE" before it exists                        *)
  steps,    (* of each run and step, "NONE" before it exists               *)
  attempts  (* interventions of the watchdog in each run                   *)

vars == <<status, steps, attempts>>

RunEnds  == {"SUCCEEDED", "FAILED", "CANCELLED"}
StepEnds == {"SUCCEEDED", "FAILED", "CANCELLED", "SKIPPED"}

(* A critical run is never retried, a batch run once, any other without
   limit.                                                                  *)
MayRetry(k) ==
  CASE RunType[k] \in {"CRITICAL", "USER_FLOW"}   -> FALSE
    [] RunType[k] \in {"BATCH", "ASYNC_PIPELINE"} -> attempts[k] = 0
    [] OTHER                                      -> TRUE

Init ==
  /\ status = [k \in Runs |-> "NONE"]
  /\ steps = [k \in Runs |-> [t \in Steps |-> "NONE"]]
  /\ attempts = [k \in Runs |-> 0]

Become(k, st) == status' = [status EXCEPT ![k] = st]

Create(k) ==
  /\ status[k] = "NONE"
  /\ Become(k, "PENDING")
  /\ UNCHANGED <<steps, attempts>>

Start(k) ==
  /\ status[k] = "PENDING"
  /\ Become(k, "RUNNING")
  /\ UNCHANGED <<steps, attempts>>

(* A run that never started cannot have succeeded.                         *)
End(k) ==
  /\ \E st \in RunEnds :
       /\ Become(k, st)
       /\ status[k] = "RUNNING" \/ (status[k] = "PENDING" /\ st # "SUCCEEDED")
  /\ UNCHANGED <<steps, attempts>>

Intervene(k) ==
  /\ status[k] = "RUNNING"
  /\ attempts' = [attempts EXCEPT ![k] = @ + 1]
  /\ \/ MayRetry(k) /\ Become(k, "PENDING")
     \/ Become(k, "FAILED")
  /\ UNCHANGED steps

StepBegin(k, t) ==
  /\ status[k] = "RUNNING"
  /\ steps[k][t] = "NONE"
  /\ steps' = [steps EXCEPT ![k][t] = "RUNNING"]
  /\ UNCHANGED <<status, attempts>>

StepEnd(k, t) ==
  /\ status[k] = "RUNNING"
  /\ steps[k][t] = "RUNNING"
  /\ \E st \in StepEnds : steps' = [steps EXCEPT ![k][t] = st]
  /\ UNCHANGED <<status, attempts>>

Next ==
  \E k \in Runs :
    \/ Create(k) \/ Start(k) \/ End(k) \/ Intervene(k)
    \/ \E t \in Steps : StepBegin(k, t) \/ StepEnd(k, t)

Spec == Init /\ [][Next]_vars
=============================================================================
