---------------------------- MODULE MCWorkerRuns ----------------------------
(***************************************************************************)
(* Small instances of WorkerRuns: one run, one step, a handful of events.  *)
(***************************************************************************)
EXTENDS WorkerRuns, TLC

CONSTANTS k1, s1, t1, t2, noStep, noLease

AsRun(to, tok, n)   == [kind |-> "run", run |-> k1, to |-> to, token |-> tok, id |-> n]
AsStep(to, step, n) == [kind |-> "step", run |-> k1, to |-> to, step |-> step, id |-> n]

(* A start and a submit without a time.                                    *)
TimelessStart  == AsRun("RUNNING", t1, 7)
TimelessSubmit == AsRun("PENDING", noLease, 8)

(* A run that is submitted, started twice (a retry needs a second start;
   one has no time, the other no lease token), runs a step and succeeds.   *)
OneLife ==
  {AsRun("PENDING", noLease, 1), TimelessStart, AsRun("RUNNING", noLease, 3),
   AsStep("RUNNING", s1, 4), AsStep("SUCCEEDED", s1, 5), AsRun("SUCCEEDED", noLease, 6)}

(* Events that compete for the row of one run.                             *)
Rivals ==
  {AsRun("PENDING", noLease, 1), TimelessSubmit, AsRun("RUNNING", t1, 2),
   AsStep("RUNNING", s1, 3), AsRun("SUCCEEDED", noLease, 4)}

(* Two outcomes of one run, and the events rejected unread: a step event
   without a step id and one of no known type.                             *)
Outcomes ==
  {AsRun("PENDING", noLease, 1), AsRun("RUNNING", t1, 2), AsRun("SUCCEEDED", noLease, 3),
   AsRun("FAILED", noLease, 4), AsStep("FAILED", noStep, 5),
   [kind |-> "other", run |-> k1, id |-> 6]}

Batch == [k \in Runs |-> "BATCH"]

(* The events without a time.                                              *)
Timeless == Messages \cap {TimelessStart, TimelessSubmit}

(* Requests are alike.                                                     *)
Symmetry == Permutations(Sessions)
=============================================================================
