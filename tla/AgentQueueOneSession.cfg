SPECIFICATION Spec
CONSTANTS
  i1 = i1
  i2 = i2
  a1 = a1
  a2 = a2
  Sessions = {s1}
  Items = {i1, i2}
  Agents = {a1}
  NoItem = NoItem
  NoAgent = NoAgent
  Kinds = {"ingest", "assign", "dispatch"}
  Payloads <- AllPayloads
  Crashes = TRUE
  MaxEntries = 3
INVARIANT CapacityBoundedBySessions
PROPERTY OldestFirst
