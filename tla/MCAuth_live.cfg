CONSTANTS
  r1 = r1
  r2 = r2
  l1 = l1
  p1 = p1
  u1 = u1
  u2 = u2
  t1 = t1
  Stranger = Stranger
  NoUser = NoUser
  NoToken = NoToken
  NoRow = NoRow
  Requests = {r1, r2}
  Logins = {l1}
  Passwords = {p1}
  UserIDs = {u1, u2}
  Tokens = {t1}
  RefreshTTL = 1
  MaxNow = 0
  Failures = {"Read", "Create", "Save", "Delete"}
  Defects = {}
SPECIFICATION FairSpec
PROPERTIES
  Responds
