SPECIFICATION Spec
CONSTANTS
  i1 = i1
  i2 = i2
  a1 = a1
  a2 = a2
  Sessions = {s1, s2}
  Items = {i1, i2}
  Agents = {a1}
  NoItem = NoItem
  NoAgent = NoAgent
  Kinds = {"assign", "dispatch"}
  Payloads <- AllPayloads
  Crashes = FALSE
  MaxEntries = 3
PROPERTY OldestFirst
