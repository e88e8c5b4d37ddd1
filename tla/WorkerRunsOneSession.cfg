\* One request at a time: redeliveries, reordering, sweeps and one death.
SPECIFICATION FairSpec
CONSTANTS
  k1 = k1
  s1 = s1
  t1 = t1
  t2 = t2
  noStep = noStep
  noLease = noLease
  Sessions = {r1}
  Runs = {k1}
  Steps = {s1}
  NoRun = noRun
  NoStep = noStep
  NoLease = noLease
  NoMsg = noMsg
  Tokens = {t1, t2}
  Messages <- OneLife
  Untimed <- Timeless
  RunType <- Batch
  Reasons = {"HEARTBEAT_LOSS"}
  MaxAttempts = 2
  MaxCrashes = 1
INVARIANTS TypeOK LeaseWhileRunning CurrentStepRuns
PROPERTIES ImplementsLifecycle EventuallyProcessed
