CONSTANTS
  s1 = s1
  s2 = s2
  u1 = u1
  k1 = k1
  Slots = {s1, s2}
  Users = {u1}
  Keys = {k1}
  Outstanding <- MCOutstanding
  Asked = {"List", "Sync", "Add", "Register", "Ping"}
  Failures = {"Connect", "Migrate", "Ping", "Creds", "Listen", "Query", "Crash"}
  AccessTokenExpire = 1
  jwtLeeway = 1
  MaxTime = 1
  MaxTokens = 2
  NoToken = NoToken
  NoUser = NoUser
  Unset = Unset
SPECIFICATION FairSpec
INVARIANTS
  TypeOK
  ServesMigrated
  GracefulMeansAnswered
PROPERTIES
  ShutdownEnds
