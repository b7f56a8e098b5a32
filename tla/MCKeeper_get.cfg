CONSTANTS
  r1 = r1
  r2 = r2
  u1 = u1
  p1 = p1
  p2 = p2
  l1 = l1
  l2 = l2
  d1 = d1
  d2 = d2
  Requests = {r1, r2}
  Users = {u1}
  Payloads = {p1, p2}
  Locators = {l1, l2}
  DataIDs = {d1, d2}
  Batches <- MCReuse
  Failures = {}
  Empty = Empty
  NoLocator = NoLocator
  NoID = NoID
  NoRow = NoRow
SPECIFICATION Spec
INVARIANTS
  GetReturnsObject
