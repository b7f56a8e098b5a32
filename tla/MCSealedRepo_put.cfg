CONSTANTS
  c1 = c1
  c2 = c2
  d1 = d1
  d2 = d2
  p1 = p1
  p2 = p2
  Calls = {c1, c2}
  IDs = {d1, d2}
  Objects = {d1, d2}
  Payloads = {p1, p2}
  Via = {"router"}
  PutFirst = TRUE
  Failures = {}
  Empty = Empty
  NoRow = NoRow
  Gone = Gone
  NoID = NoID
  NoLocator = NoLocator
SPECIFICATION Spec
INVARIANTS
  PutStores
