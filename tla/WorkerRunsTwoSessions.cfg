\* Two overlapping requests: events, duplicates, sweeps.
SPECIFICATION Spec
CONSTANTS
  k1 = k1
  s1 = s1
  t1 = t1
  t2 = t2
  noStep = noStep
  noLease = noLease
  Sessions = {r1, r2}
  Runs = {k1}
  Steps = {s1}
  NoRun = noRun
  NoStep = noStep
  NoLease = noLease
  NoMsg = noMsg
  Tokens = {t1, t2}
  Messages <- Rivals
  Untimed <- Timeless
  RunType <- Batch
  Reasons = {"HEARTBEAT_LOSS"}
  MaxAttempts = 2
  MaxCrashes = 0
INVARIANTS ProcessedIsRecorded RedeliveriesBounded EndIsRecorded QuarantineAfterRetry
SYMMETRY Symmetry
