CONSTANTS
  r1 = r1
  l1 = l1
  p1 = p1
  u1 = u1
  u2 = u2
  t1 = t1
  t2 = t2
  Stranger = Stranger
  NoUser = NoUser
  NoToken = NoToken
  NoRow = NoRow
  Requests = {r1}
  Logins = {l1}
  Passwords = {p1}
  UserIDs = {u1, u2}
  Tokens = {t1, t2}
  RefreshTTL = 1
  MaxNow = 0
  Failures = {}
  Defects = {"FindByLogin"}
SPECIFICATION Spec
INVARIANTS
  FreshLoginRegisters
