SPECIFICATION FairSpecTwoQueued
CONSTANTS
  i1 = i1
  i2 = i2
  a1 = a1
  a2 = a2
  Sessions = {s1, s2}
  Items = {i1, i2}
  Agents = {a1, a2}
  NoItem = NoItem
  NoAgent = NoAgent
  Kinds = {"assign"}
  Payloads <- Reassignments
  Crashes = TRUE
  MaxEntries = 4
PROPERTY RequestsFinish
CHECK_DEADLOCK FALSE
