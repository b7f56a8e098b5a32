CONSTANTS
  r1 = r1
  r2 = r2
  l1 = l1
  p1 = p1
  p2 = p2
  u1 = u1
  u2 = u2
  t1 = t1
  t2 = t2
  Stranger = Stranger
  NoUser = NoUser
  NoToken = NoToken
  NoRow = NoRow
  Requests = {r1, r2}
  Logins = {l1}
  Passwords = {p1, p2}
  UserIDs = {u1, u2}
  Tokens = {t1, t2}
  RefreshTTL = 1
  MaxNow = 1
  Failures = {"Read", "Create", "Save", "Delete", "Crash"}
  Defects = {}
SPECIFICATION Spec
SYMMETRY MCSymmetry
INVARIANTS
  TypeOK
  SessionIsOwners
  OneRegistration
  RevokedForGood
