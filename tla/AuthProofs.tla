----------------------------- MODULE AuthProofs -----------------------------
(***************************************************************************)
(* Proofs about Auth, for any number of requests, accounts, tokens and     *)
(* failures, with the interfaces or with the code behind them: logins are  *)
(* unique, a session belongs to the account whose password was given, of   *)
(* several registrations of a login one succeeds, and a revoked token      *)
(* stays revoked.                                                          *)
(***************************************************************************)
EXTENDS Auth, TLAPS

(***************************************************************************)
(* Types, in the parts the actions leave alone together.                   *)
(***************************************************************************)
TableTypes ==
  /\ users \in [UserIDs -> UserRows \cup {NoRow}]
  /\ minted \in [Tokens -> TokenRows \cup {NoRow}]
  /\ stored \subseteq Tokens
  /\ now \in 0 .. MaxNow
  /\ known \subseteq Tokens
  /\ revoked \subseteq Tokens

CallTypes ==
  /\ pc \in [Requests -> States]
  /\ rq \in [Requests -> RequestMessages]
  /\ uid \in [Requests -> UserIDs \cup {NoUser}]
  /\ tok \in [Requests -> Tokens \cup {NoToken}]
  /\ tries \in [Requests -> 0 .. maxAttemptCount]
  /\ live \in [Requests -> BOOLEAN]
  /\ resp \in [Requests -> Codes]

\* TypeOK is the conjunction of its parts.
LEMMA Parts == TypeOK <=> TableTypes /\ CallTypes
BY DEF TypeOK, TableTypes, CallTypes

\* TypeOK is the conjunction of its two parts, after a step too.
LEMMA PartsNext == TypeOK' <=> TableTypes' /\ CallTypes'
BY DEF TypeOK, TableTypes, CallTypes

-----------------------------------------------------------------------------
(***************************************************************************)
(* The inductive invariant.                                                *)
(***************************************************************************)

\* The tokens that were generated.
Minted == {t \in Tokens : minted[t] # NoRow}

\* The request has found, or made, the account of its login and its password.
Owned(r) ==
  /\ uid[r] \in UserIDs
  /\ users[uid[r]] # NoRow
  /\ users[uid[r]].login = rq[r].login
  /\ users[uid[r]].phc.key = IDKey(rq[r].password, TimeCost, MemoryCost)

\* It is storing the session of that account, or has handed it out.
Granting(r) == pc[r] = "save" \/ resp[r] = "OK"

\* What a request serves in each of its states.
Serving(r) ==
  /\ pc[r] = "find" => rq[r].op \in {"Register", "Login"}
  /\ pc[r] = "create" => rq[r].op = "Register"
  /\ pc[r] = "save" => rq[r].op \in {"Register", "Login", "Refresh"}
  /\ pc[r] = "delete" => /\ rq[r].op \in {"Logout", "Refresh"}
                         /\ rq[r].op = "Refresh" => rq[r].user \in UserIDs
                         /\ rq[r].token \in known \cup {Stranger}
  /\ pc[r] = "validate" => rq[r].op = "Validate"
  /\ pc[r] # "idle" => resp[r] = "None"

\* What it has done for it: the account is the right one, the token is the
\* account's, and a token that was accepted is the user's.
Granted(r) ==
  /\ rq[r].op \in {"Register", "Login"} /\ Granting(r) => Owned(r)
  /\ pc[r] = "save" \/ SessionOf(r) =>
       tok[r] \in Minted /\ minted[tok[r]].user = uid[r]
  /\ rq[r].op = "Validate" /\ resp[r] = "OK" =>
       rq[r].token \in Minted /\ minted[rq[r].token].user = rq[r].user

Local(r) == Serving(r) /\ Granted(r)

\* A token that is being saved is known to nobody, so nobody can have revoked
\* it, and no other request saves the same.
Sessions ==
  /\ stored \subseteq Minted
  /\ known \subseteq Minted
  /\ revoked \subseteq known
  /\ RevokedForGood
  /\ \A r \in Requests : pc[r] = "save" => tok[r] \notin known
  /\ \A r, q \in Requests : r # q /\ pc[r] = "save" /\ pc[q] = "save" => tok[r] # tok[q]

Registering(r) == rq[r].op = "Register" /\ Granting(r)

\* The constraint UNIQUE keeps the logins of accounts apart.
UniqueLogins ==
  \A u, v \in UserIDs :
    (u # v /\ users[u] # NoRow /\ users[v] # NoRow) =>
      users[u].login # users[v].login

\* Two registrations never stand for the same row of users.
Accounts ==
  /\ UniqueLogins
  /\ \A r, q \in Requests : r # q /\ Registering(r) /\ Registering(q) => uid[r] # uid[q]

IndInv ==
  /\ TypeOK
  /\ \A r \in Requests : Local(r)
  /\ Sessions
  /\ Accounts

-----------------------------------------------------------------------------
(***************************************************************************)
(* A step of one request leaves the others alone, and the tables grow.     *)
(***************************************************************************)
Alone(q) ==
  /\ pc'[q] = pc[q] /\ rq'[q] = rq[q] /\ uid'[q] = uid[q] /\ tok'[q] = tok[q]
  /\ resp'[q] = resp[q]

Others(r) == \A q \in Requests \ {r} : Alone(q)

Grows ==
  /\ \A u \in UserIDs : users[u] # NoRow => users'[u] = users[u]
  /\ \A t \in Tokens : minted[t] # NoRow => minted'[t] = minted[t]
  /\ known \subseteq known'

\* A request that another one's step leaves alone keeps what it knows.
LEMMA AloneLocal ==
  ASSUME NEW q \in Requests, Local(q), Alone(q), Grows
  PROVE  Local(q)'
<1>1. Serving(q)'
  BY DEF Local, Alone, Serving, Grows
<1>2. Owned(q) => Owned(q)'
  BY DEF Alone, Owned, Grows
<1>3. \A t \in Minted : t \in Minted' /\ minted'[t] = minted[t]
  BY DEF Minted, Grows
<1>4. Granted(q)'
  BY <1>2, <1>3 DEF Local, Alone, Granted, Granting, SessionOf
<1> QED
  BY <1>1, <1>4 DEF Local

\* The token a request saves joins the stored and the known ones, and a deleted one
\* joins the revoked ones.
LEMMA SessionsStep ==
  ASSUME IndInv, NEW r \in Requests, Others(r), Grows,
         stored' \subseteq stored \cup {t \in {tok[r]} : pc[r] = "save"},
         known' \subseteq known \cup {t \in {tok[r]} : pc[r] = "save"},
         \/ UNCHANGED revoked
         \/ \E t \in known \cup {Stranger} :
              stored' = stored \ {t} /\ revoked' = revoked \cup ({t} \cap Tokens),
         pc'[r] = "save" => \/ pc[r] = "save" /\ tok'[r] = tok[r] /\ UNCHANGED known
                            \/ tok'[r] \in FreshTokens
  PROVE  Sessions'
<1>1. \A t \in Minted : t \in Minted' /\ t \notin FreshTokens
  BY DEF Minted, Grows, FreshTokens
<1>2. \A q \in Requests : pc[q] = "save" => tok[q] \in Minted /\ tok[q] \notin known
  BY DEF IndInv, Local, Granted, Sessions
<1>3. stored' \subseteq Minted'
  BY <1>1, <1>2 DEF IndInv, Sessions
<1>4. known' \subseteq Minted /\ known' \subseteq Minted'
  BY <1>1, <1>2 DEF IndInv, Sessions
<1>5. revoked' \subseteq known'
  BY AuthSentinelAssumption DEF IndInv, Sessions, Grows
<1>6. RevokedForGood'
  <2>1. CASE UNCHANGED revoked
    BY <1>2, <2>1 DEF RevokedForGood, IndInv, Sessions
  <2>2. CASE \E t \in known \cup {Stranger} :
              stored' = stored \ {t} /\ revoked' = revoked \cup ({t} \cap Tokens)
    BY <2>2 DEF RevokedForGood, IndInv, Sessions
  <2> QED
    BY <2>1, <2>2
<1>7. \A q \in Requests : pc'[q] = "save" => tok'[q] \notin known'
  <2> SUFFICES ASSUME NEW q \in Requests, pc'[q] = "save" PROVE tok'[q] \notin known'
    OBVIOUS
  <2>1. CASE q = r
    BY <1>1, <1>2, <1>4, <2>1
  <2>2. CASE q # r
    <3>1. pc[q] = "save" /\ tok'[q] = tok[q]
      BY <2>2 DEF Others, Alone
    <3> QED
      BY <1>2, <2>2, <3>1 DEF IndInv, Sessions
  <2> QED
    BY <2>1, <2>2
<1>8. ASSUME NEW p \in Requests, NEW q \in Requests, p # q, pc'[p] = "save", pc'[q] = "save"
      PROVE  tok'[p] # tok'[q]
  <2>1. \A d \in Requests \ {r} : pc'[d] = "save" => pc[d] = "save" /\ tok'[d] = tok[d]
    BY DEF Others, Alone
  <2>2. \A d \in Requests \ {r} : pc'[d] = "save" /\ pc'[r] = "save" => tok'[d] # tok'[r]
    <3> SUFFICES ASSUME NEW d \in Requests \ {r}, pc'[d] = "save", pc'[r] = "save"
                 PROVE  tok'[d] # tok'[r]
      OBVIOUS
    <3>1. pc[d] = "save" /\ tok'[d] = tok[d] /\ tok[d] \in Minted
      BY <1>2, <2>1
    <3>2. CASE pc[r] = "save" /\ tok'[r] = tok[r]
      BY <3>1, <3>2 DEF IndInv, Sessions
    <3>3. CASE tok'[r] \in FreshTokens
      BY <1>1, <3>1, <3>3
    <3> QED
      BY <3>2, <3>3
  <2>3. CASE p = r
    BY <1>8, <2>2, <2>3
  <2>4. CASE q = r
    BY <1>8, <2>2, <2>4
  <2>5. CASE p # r /\ q # r
    BY <1>8, <2>1, <2>5 DEF IndInv, Sessions
  <2> QED
    BY <2>3, <2>4, <2>5
<1> QED
  BY <1>3, <1>4, <1>5, <1>6, <1>7, <1>8 DEF Sessions

\* The constraint UNIQUE lets a row in only when the login has none.
Inserts(r) ==
  Insertable(r) /\ \E u \in FreshUserIDs : InsertUser(r, u)

\* The string stored for a password carries the key of that password.
LEMMA PHCType ==
  ASSUME NEW p \in Passwords
  PROVE  /\ GenerateFromPassword(p) \in PHCs
         /\ GenerateFromPassword(p).key = IDKey(p, TimeCost, MemoryCost)
BY DEF PHCs, GenerateFromPassword, GeneratePHC

\* Whatever order the costs are written in, only the right password compares.
LEMMA ComparesRight ==
  ASSUME NEW phc \in PHCs, NEW p \in Passwords, CompareHashAndPassword(phc, p)
  PROVE  phc.key = IDKey(p, TimeCost, MemoryCost)
<1>1. PICK q \in Passwords : phc = GenerateFromPassword(q)
  BY DEF PHCs
<1>2. phc.key = <<q, TimeCost, MemoryCost>>
  BY <1>1 DEF GenerateFromPassword, GeneratePHC, IDKey
<1>3. <<p, phc.t, phc.m>> = phc.key
  BY DEF CompareHashAndPassword, IDKey
<1>4. p = q
  BY <1>2, <1>3
<1> QED
  BY <1>2, <1>4 DEF IDKey

\* An insert adds the account of the request's login under a new identifier.
LEMMA InsertEffect ==
  ASSUME IndInv, NEW r \in Requests, NEW u \in FreshUserIDs, InsertUser(r, u)
  PROVE  /\ users' \in [UserIDs -> UserRows \cup {NoRow}]
         /\ u \in UserIDs /\ users[u] = NoRow /\ users'[u] # NoRow
         /\ users'[u].login = rq[r].login
         /\ users'[u].phc.key = IDKey(rq[r].password, TimeCost, MemoryCost)
         /\ \A v \in UserIDs \ {u} : users'[v] = users[v]
<1>0. TableTypes /\ CallTypes /\ u \in UserIDs /\ users[u] = NoRow
  BY Parts DEF IndInv, FreshUserIDs
<1>1. rq[r].login \in Logins /\ rq[r].password \in Passwords
  BY <1>0 DEF CallTypes, RequestMessages
<1> DEFINE row == [login |-> rq[r].login, phc |-> GenerateFromPassword(rq[r].password)]
<1>2. GenerateFromPassword(rq[r].password) \in PHCs
  BY <1>1, PHCType
<1>3. row \in UserRows
  BY <1>1, <1>2 DEF UserRows
<1>4. row # NoRow
  BY <1>3, AuthSentinelAssumption
<1>5. /\ row.login = rq[r].login
      /\ row.phc.key = IDKey(rq[r].password, TimeCost, MemoryCost)
  BY <1>1, PHCType
<1>6. users' = [users EXCEPT ![u] = row]
  BY DEF InsertUser
<1> HIDE DEF row
<1> QED
  BY <1>0, <1>3, <1>4, <1>5, <1>6 DEF TableTypes

\* Registrations insert rows of their own.
LEMMA AccountsStep ==
  ASSUME IndInv, NEW r \in Requests, Others(r),
         UNCHANGED users \/ Inserts(r),
         Registering(r)' => \/ Registering(r) /\ UNCHANGED <<uid[r]>>
                            \/ uid'[r] \in FreshUserIDs
  PROVE  Accounts'
<1>1. UniqueLogins'
  <2>1. CASE UNCHANGED users
    BY <2>1 DEF IndInv, Accounts, UniqueLogins
  <2>2. CASE Inserts(r)
    <3>1. PICK u \in FreshUserIDs : InsertUser(r, u)
      BY <2>2 DEF Inserts
    <3>2. /\ u \in UserIDs /\ users'[u].login = rq[r].login
          /\ \A v \in UserIDs \ {u} : users'[v] = users[v]
      BY <3>1, InsertEffect
    <3>3. \A v \in UserIDs : users[v] # NoRow => users[v].login # rq[r].login
      BY <2>2 DEF Inserts, Insertable, Owners
    <3> QED
      BY <3>2, <3>3 DEF IndInv, Accounts, UniqueLogins
  <2> QED
    BY <2>1, <2>2
<1>2. \A q \in Requests : Registering(q) => uid[q] \notin FreshUserIDs
  BY DEF IndInv, Local, Granted, Registering, Owned, FreshUserIDs
<1>3. \A q \in Requests \ {r} : Registering(q)' => Registering(q) /\ uid'[q] = uid[q]
  BY DEF Others, Alone, Registering, Granting
<1>4. \A q \in Requests \ {r} : Registering(q)' /\ Registering(r)' => uid'[q] # uid'[r]
  BY <1>2, <1>3 DEF IndInv, Accounts
<1>5. \A p, q \in Requests : p # q /\ Registering(p)' /\ Registering(q)' => uid'[p] # uid'[q]
  BY <1>3, <1>4 DEF IndInv, Accounts
<1> QED
  BY <1>1, <1>5 DEF Accounts

\* What a step has to show, put together.
LEMMA StepInd ==
  ASSUME IndInv, NEW r \in Requests, Others(r), Grows, TypeOK', Local(r)', Sessions',
         Accounts'
  PROVE  IndInv'
<1>1. \A q \in Requests \ {r} : Local(q)'
  BY AloneLocal DEF IndInv, Others
<1> QED
  BY <1>1 DEF IndInv

\* Steps that leave the tables alone and begin no saving.
LEMMA QuietStep ==
  ASSUME IndInv, NEW r \in Requests, UNCHANGED <<tables, now, known, revoked>>, Others(r),
         CallTypes', Local(r)', pc'[r] # "save", ~ Registering(r)'
  PROVE  IndInv'
<1>1. TypeOK'
  BY Parts, PartsNext DEF IndInv, TableTypes, tables
<1>2. Grows
  BY DEF Grows, tables
<1>3. Sessions'
  BY <1>2, SessionsStep DEF tables
<1>4. Accounts'
  BY AccountsStep DEF tables
<1> QED
  BY <1>1, <1>2, <1>3, <1>4, StepInd

-----------------------------------------------------------------------------
(***************************************************************************)
(* The helpers of the actions.                                             *)
(***************************************************************************)
LEMMA NoRequestType == NoRequest \in RequestMessages /\ NoRequest.op = "None"
<1>1. /\ (CHOOSE l \in Logins : TRUE) \in Logins
      /\ (CHOOSE p \in Passwords : TRUE) \in Passwords
  BY CredentialsAssumption
<1> QED
  BY <1>1 DEF NoRequest, RequestMessages

\* A request begins with the message its handler was called with.
LEMMA BeginInd ==
  ASSUME IndInv, NEW r \in Requests, NEW m \in RequestMessages,
         NEW state \in {"find", "delete", "validate"}, Begin(r, m, state),
         state = "find" => m.op \in {"Register", "Login"},
         state = "delete" => /\ m.op \in {"Logout", "Refresh"}
                             /\ m.op = "Refresh" => m.user \in UserIDs
                             /\ m.token \in known \cup {Stranger},
         state = "validate" => m.op = "Validate"
  PROVE  IndInv'
<1>0. CallTypes
  BY Parts DEF IndInv
<1>1. /\ pc'[r] = state /\ rq'[r] = m /\ resp'[r] = "None"
      /\ UNCHANGED <<tables, now, known, revoked>>
  BY <1>0 DEF Begin, CallTypes
<1>2. Others(r)
  BY <1>0 DEF Begin, Others, Alone, CallTypes
<1>3. CallTypes'
  <2>1. 0 \in 0 .. maxAttemptCount
    BY DEF maxAttemptCount
  <2> QED
    BY <1>0, <2>1 DEF Begin, CallTypes, States, Codes
<1>4. Serving(r)'
  BY <1>1 DEF Serving
<1>5. Granted(r)'
  BY <1>1 DEF Granted, Granting, SessionOf
<1>6. pc'[r] # "save" /\ ~ Registering(r)'
  BY <1>1 DEF Registering, Granting
<1> QED
  BY <1>1, <1>2, <1>3, <1>4, <1>5, <1>6, QuietStep DEF Local

\* Returning touches one slot only.
LEMMA FinishEffect ==
  ASSUME IndInv, NEW r \in Requests, NEW code \in Codes, Finish(r, code),
         UNCHANGED <<uid, tok>>
  PROVE  /\ CallTypes' /\ Others(r) /\ UNCHANGED rq
         /\ pc'[r] = "idle" /\ resp'[r] = code
<1>0. CallTypes
  BY Parts DEF IndInv
<1>1. CallTypes'
  BY <1>0 DEF Finish, CallTypes, States
<1>2. Others(r)
  BY <1>0 DEF Finish, Others, Alone, CallTypes
<1> QED
  BY <1>0, <1>1, <1>2 DEF Finish, CallTypes

\* An answer that hands out nothing.
LEMMA FailInd ==
  ASSUME IndInv, NEW r \in Requests, NEW code \in Codes \ {"OK"}, Finish(r, code),
         UNCHANGED <<tables, now, uid, tok, known, revoked>>
  PROVE  IndInv'
<1>1. /\ CallTypes' /\ Others(r) /\ UNCHANGED rq
      /\ pc'[r] = "idle" /\ resp'[r] = code
  BY FinishEffect
<1>2. Local(r)'
  BY <1>1 DEF Local, Serving, Granted, Granting, SessionOf
<1>3. ~ Registering(r)'
  BY <1>1 DEF Registering, Granting
<1> QED
  BY <1>1, <1>2, <1>3, QuietStep

\* A failed attempt is made again, or answered Internal.
LEMMA RetryEffect ==
  ASSUME IndInv, NEW r \in Requests, RetryOrFail(r), UNCHANGED <<uid, tok>>
  PROVE  /\ CallTypes' /\ Others(r) /\ UNCHANGED rq
         /\ \/ pc'[r] = "idle" /\ resp'[r] = "Internal"
            \/ UNCHANGED <<pc, resp>>
<1>0. CallTypes
  BY Parts DEF IndInv
<1>1. CASE Finish(r, "Internal")
  BY <1>1, FinishEffect DEF Codes
<1>2. CASE ~ Finish(r, "Internal")
  <2>1. Retry(r) /\ tries[r] < maxAttemptCount
    BY <1>2 DEF RetryOrFail, MayRetry
  <2>2. tries[r] + 1 \in 0 .. maxAttemptCount
    BY <1>0, <2>1 DEF CallTypes, maxAttemptCount
  <2>3. CallTypes'
    BY <1>0, <2>1, <2>2 DEF Retry, CallTypes
  <2>4. Others(r)
    BY <2>1 DEF Retry, Others, Alone
  <2> QED
    BY <2>1, <2>3, <2>4 DEF Retry
<1> QED
  BY <1>1, <1>2

\* A failed attempt that may have been applied.
LEMMA RetryInd ==
  ASSUME IndInv, NEW r \in Requests, RetryOrFail(r), pc[r] # "idle",
         UNCHANGED <<minted, now, uid, tok, known, revoked>>,
         stored' \subseteq stored \cup {t \in {tok[r]} : pc[r] = "save"},
         UNCHANGED users \/ Inserts(r)
  PROVE  IndInv'
<1>0. TableTypes
  BY Parts DEF IndInv
<1>1. /\ CallTypes' /\ Others(r) /\ UNCHANGED rq
      /\ \/ pc'[r] = "idle" /\ resp'[r] = "Internal"
         \/ UNCHANGED <<pc, resp>>
  BY RetryEffect
<1>2. /\ users' \in [UserIDs -> UserRows \cup {NoRow}]
      /\ \A u \in UserIDs : users[u] # NoRow => users'[u] = users[u]
  <2>1. CASE UNCHANGED users
    BY <1>0, <2>1 DEF TableTypes
  <2>2. CASE Inserts(r)
    <3>1. PICK u \in FreshUserIDs : InsertUser(r, u)
      BY <2>2 DEF Inserts
    <3>2. /\ users' \in [UserIDs -> UserRows \cup {NoRow}]
          /\ users[u] = NoRow
          /\ \A v \in UserIDs \ {u} : users'[v] = users[v]
      BY <3>1, InsertEffect
    <3> QED
      BY <3>2
  <2> QED
    BY <2>1, <2>2
<1>3. pc[r] = "save" => tok[r] \in Tokens
  BY DEF IndInv, Local, Granted, Minted
<1>4. TypeOK'
  <2>1. stored' \subseteq Tokens
    BY <1>0, <1>3 DEF TableTypes
  <2>2. TableTypes'
    BY <1>0, <1>2, <2>1 DEF TableTypes
  <2> QED
    BY <1>1, <2>2, PartsNext
<1>5. Grows
  BY <1>2 DEF Grows
<1>6. Local(r)'
  <2>1. CASE pc'[r] = "idle" /\ resp'[r] = "Internal"
    BY <2>1 DEF Local, Serving, Granted, Granting, SessionOf
  <2>2. CASE UNCHANGED <<pc, resp>>
    <3>1. Alone(r)
      BY <1>1, <2>2 DEF Alone
    <3> QED
      BY <1>5, <3>1, AloneLocal DEF IndInv
  <2> QED
    BY <1>1, <2>1, <2>2
<1>7. Sessions'
  BY <1>1, <1>5, SessionsStep
<1>8. Accounts'
  <2>1. Registering(r)' => Registering(r) /\ uid'[r] = uid[r]
    BY <1>1 DEF Registering, Granting
  <2> QED
    BY <1>1, <2>1, AccountsStep
<1> QED
  BY <1>1, <1>4, <1>5, <1>6, <1>7, <1>8, StepInd

(***************************************************************************)
(* CreateSession: a token nobody knows is generated for the user, or none  *)
(* is left.                                                                *)
(***************************************************************************)
LEMMA MintEffect ==
  ASSUME IndInv, NEW r \in Requests, NEW u \in UserIDs, CreateSession(r, u)
  PROVE  /\ CallTypes' /\ minted' \in [Tokens -> TokenRows \cup {NoRow}]
         /\ Others(r) /\ UNCHANGED rq /\ uid'[r] = u
         /\ \A t \in Tokens : minted[t] # NoRow => minted'[t] = minted[t]
         /\ \/ /\ pc'[r] = "save" /\ resp'[r] = resp[r]
               /\ tok'[r] \in FreshTokens /\ tok'[r] \in Minted'
               /\ minted'[tok'[r]].user = u
            \/ pc'[r] = "idle" /\ resp'[r] = "Internal"
<1>0. TableTypes /\ CallTypes
  BY Parts DEF IndInv
<1>1. CASE \E t \in FreshTokens :
             /\ minted' = [minted EXCEPT ![t] = [user |-> u, expires |-> now + RefreshTTL]]
             /\ tok' = [tok EXCEPT ![r] = t]
             /\ uid' = [uid EXCEPT ![r] = u]
             /\ pc' = [pc EXCEPT ![r] = "save"]
             /\ tries' = [tries EXCEPT ![r] = 0]
             /\ live' = [live EXCEPT ![r] = TRUE]
             /\ UNCHANGED <<rq, resp>>
  <2>1. PICK t \in FreshTokens :
             /\ minted' = [minted EXCEPT ![t] = [user |-> u, expires |-> now + RefreshTTL]]
             /\ tok' = [tok EXCEPT ![r] = t]
             /\ uid' = [uid EXCEPT ![r] = u]
             /\ pc' = [pc EXCEPT ![r] = "save"]
             /\ tries' = [tries EXCEPT ![r] = 0]
             /\ live' = [live EXCEPT ![r] = TRUE]
             /\ UNCHANGED <<rq, resp>>
    BY <1>1
  <2> DEFINE row == [user |-> u, expires |-> now + RefreshTTL]
  <2>2. now + RefreshTTL \in Nat
    BY <1>0, ClockAssumption DEF TableTypes
  <2>3. row \in TokenRows /\ row.user = u
    BY <2>2 DEF TokenRows
  <2>4. row # NoRow
    BY <2>3, AuthSentinelAssumption
  <2>5. minted' = [minted EXCEPT ![t] = row] /\ t \in Tokens /\ minted[t] = NoRow
    BY <2>1 DEF FreshTokens
  <2> HIDE DEF row
  <2>6. /\ minted' \in [Tokens -> TokenRows \cup {NoRow}]
        /\ minted'[t] = row
        /\ \A s \in Tokens : minted[s] # NoRow => minted'[s] = minted[s]
    BY <1>0, <2>3, <2>5 DEF TableTypes
  <2>7. tok'[r] = t /\ uid'[r] = u /\ pc'[r] = "save"
    BY <1>0, <2>1 DEF CallTypes
  <2>8. CallTypes'
    <3>1. 0 \in 0 .. maxAttemptCount
      BY DEF maxAttemptCount
    <3> QED
      BY <1>0, <2>1, <2>5, <3>1 DEF CallTypes, States
  <2>9. Others(r)
    BY <1>0, <2>1 DEF Others, Alone, CallTypes
  <2>10. t \in Minted' /\ minted'[t].user = u
    BY <2>3, <2>4, <2>5, <2>6 DEF Minted
  <2> QED
    BY <2>1, <2>6, <2>7, <2>8, <2>9, <2>10
<1>2. CASE /\ uid' = [uid EXCEPT ![r] = u]
           /\ Finish(r, "Internal")
           /\ UNCHANGED <<minted, tok>>
  <2>1. CallTypes'
    BY <1>0, <1>2 DEF Finish, CallTypes, States, Codes
  <2>2. Others(r)
    BY <1>0, <1>2 DEF Finish, Others, Alone, CallTypes
  <2> QED
    BY <1>0, <1>2, <2>1, <2>2 DEF Finish, CallTypes, TableTypes
<1> QED
  BY <1>1, <1>2 DEF CreateSession

\* The token generator makes a token nobody knows, for the account of the
\* request.
LEMMA MintInd ==
  ASSUME IndInv, NEW r \in Requests, NEW u \in UserIDs, CreateSession(r, u),
         pc[r] \in {"find", "create", "delete"},
         rq[r].op \in {"Register", "Login", "Refresh"},
         UNCHANGED <<now, known>>, stored' \subseteq stored,
         \/ UNCHANGED revoked
         \/ \E t \in known \cup {Stranger} :
              stored' = stored \ {t} /\ revoked' = revoked \cup ({t} \cap Tokens),
         users' \in [UserIDs -> UserRows \cup {NoRow}],
         \A v \in UserIDs : users[v] # NoRow => users'[v] = users[v],
         UNCHANGED users \/ Inserts(r),
         rq[r].op \in {"Register", "Login"} =>
           /\ users'[u] # NoRow
           /\ users'[u].login = rq[r].login
           /\ users'[u].phc.key = IDKey(rq[r].password, TimeCost, MemoryCost),
         rq[r].op = "Register" => u \in FreshUserIDs
  PROVE  IndInv'
<1>0. TableTypes
  BY Parts DEF IndInv
<1>1. /\ CallTypes' /\ minted' \in [Tokens -> TokenRows \cup {NoRow}]
      /\ Others(r) /\ UNCHANGED rq /\ uid'[r] = u
      /\ \A t \in Tokens : minted[t] # NoRow => minted'[t] = minted[t]
      /\ \/ /\ pc'[r] = "save" /\ resp'[r] = resp[r]
            /\ tok'[r] \in FreshTokens /\ tok'[r] \in Minted'
            /\ minted'[tok'[r]].user = u
         \/ pc'[r] = "idle" /\ resp'[r] = "Internal"
  BY MintEffect
<1>2. TableTypes'
  BY <1>0, <1>1 DEF TableTypes
<1>3. TypeOK'
  BY <1>1, <1>2, PartsNext
<1>4. Grows
  BY <1>1 DEF Grows
<1>5. resp[r] = "None"
  BY DEF IndInv, Local, Serving
<1>6. Serving(r)'
  BY <1>1, <1>5 DEF Serving
<1>7. Granted(r)'
  BY <1>1, <1>5 DEF Granted, Granting, SessionOf, Owned
<1>8. Sessions'
  BY <1>1, <1>4, SessionsStep
<1>9. Accounts'
  <2>1. Registering(r)' => uid'[r] \in FreshUserIDs
    BY <1>1, <1>5 DEF Registering, Granting
  <2> QED
    BY <1>1, <2>1, AccountsStep
<1> QED
  BY <1>1, <1>3, <1>4, <1>6, <1>7, <1>8, <1>9, StepInd DEF Local

-----------------------------------------------------------------------------
(***************************************************************************)
(* The actions, one after the other.                                       *)
(***************************************************************************)
LEMMA ClientInd ==
  ASSUME IndInv, NEW r \in Requests, ClientStep(r)
  PROVE  IndInv'
<1>0. CallTypes /\ known \subseteq Tokens
  BY Parts DEF IndInv, TableTypes
<1>1. ASSUME NEW op \in {"Register", "Login"}, NEW l \in Logins, NEW p \in Passwords,
             Begin(r, [NoRequest EXCEPT !.op = op, !.login = l, !.password = p], "find")
      PROVE  IndInv'
  <2> DEFINE m == [NoRequest EXCEPT !.op = op, !.login = l, !.password = p]
  <2>1. m \in RequestMessages /\ m.op = op
    BY NoRequestType DEF RequestMessages
  <2>2. Begin(r, m, "find")
    BY <1>1
  <2> HIDE DEF m
  <2> QED
    BY <2>1, <2>2, BeginInd
<1>2. ASSUME NEW op \in {"Refresh", "Validate"}, NEW u \in UserIDs,
             NEW t \in known \cup {Stranger}, NEW state,
             state = IF op = "Refresh" THEN "delete" ELSE "validate",
             Begin(r, [NoRequest EXCEPT !.op = op, !.user = u, !.token = t], state)
      PROVE  IndInv'
  <2> DEFINE m == [NoRequest EXCEPT !.op = op, !.user = u, !.token = t]
  <2>1. m \in RequestMessages /\ m.op = op /\ m.user = u /\ m.token = t
    BY <1>0, NoRequestType DEF RequestMessages
  <2>2. Begin(r, m, state)
    BY <1>2
  <2> HIDE DEF m
  <2> QED
    BY <1>2, <2>1, <2>2, BeginInd
<1>3. CASE StartLogout(r)
  <2>1. PICK t \in known \cup {Stranger} :
          Begin(r, [NoRequest EXCEPT !.op = "Logout", !.token = t], "delete")
    BY <1>3 DEF StartLogout
  <2> DEFINE m == [NoRequest EXCEPT !.op = "Logout", !.token = t]
  <2>2. m \in RequestMessages /\ m.op = "Logout" /\ m.token = t
    BY <1>0, NoRequestType DEF RequestMessages
  <2>3. Begin(r, m, "delete")
    BY <2>1
  <2> HIDE DEF m
  <2> QED
    BY <2>2, <2>3, BeginInd
<1>4. CASE Refuse(r)
  <2>1. /\ pc'[r] = "idle" /\ rq'[r].op = "None" /\ resp'[r] = "InvalidArgument"
        /\ UNCHANGED <<tables, now, pc, callvars, known, revoked>>
    BY <1>0, <1>4, NoRequestType DEF Refuse, CallTypes
  <2>2. CallTypes'
    BY <1>0, <1>4, NoRequestType DEF Refuse, CallTypes, callvars, Codes
  <2>3. Others(r)
    BY <1>0, <1>4 DEF Refuse, Others, Alone, CallTypes, callvars
  <2>4. Local(r)'
    BY <2>1 DEF Local, Serving, Granted, Granting, SessionOf
  <2>5. ~ Registering(r)'
    BY <2>1 DEF Registering
  <2> QED
    BY <2>1, <2>2, <2>3, <2>4, <2>5, QuietStep
<1>5. CASE StartRegister(r)
  BY <1>1, <1>5 DEF StartRegister
<1>6. CASE StartLogin(r)
  BY <1>1, <1>6 DEF StartLogin
<1>7. CASE StartRefresh(r)
  BY <1>2, <1>7 DEF StartRefresh
<1>8. CASE StartValidate(r)
  BY <1>2, <1>8 DEF StartValidate
<1> QED
  BY <1>3, <1>4, <1>5, <1>6, <1>7, <1>8 DEF ClientStep

\* Register and Login up to the session.
LEMMA FindInd ==
  ASSUME IndInv, NEW r \in Requests,
         \/ RegisterFree(r) \/ RegisterTaken(r) \/ LoginRight(r) \/ LoginWrong(r)
         \/ FindFault(r)
  PROVE  IndInv'
<1>0. TableTypes /\ CallTypes /\ pc[r] = "find"
  BY Parts DEF IndInv, RegisterFree, RegisterTaken, LoginRight, LoginWrong, FindFault
<1>1. resp[r] = "None"
  BY <1>0 DEF IndInv, Local, Serving
<1>2. CASE RegisterFree(r)
  <2>1. /\ pc'[r] = "create" /\ rq[r].op = "Register"
        /\ UNCHANGED <<tables, now, rq, callvars, resp, known, revoked>>
    BY <1>0, <1>2 DEF RegisterFree, CallTypes
  <2>2. CallTypes'
    BY <1>0, <1>2 DEF RegisterFree, CallTypes, callvars, States
  <2>3. Others(r)
    BY <1>0, <1>2 DEF RegisterFree, Others, Alone, CallTypes, callvars
  <2>4. Local(r)'
    BY <1>1, <2>1 DEF Local, Serving, Granted, Granting, SessionOf
  <2>5. ~ Registering(r)'
    BY <1>1, <2>1 DEF Registering, Granting
  <2> QED
    BY <2>1, <2>2, <2>3, <2>4, <2>5, QuietStep
<1>3. CASE RegisterTaken(r)
  BY <1>3, FailInd DEF RegisterTaken, Codes
<1>4. CASE LoginWrong(r)
  BY <1>4, FailInd DEF LoginWrong, Codes
<1>5. CASE FindFault(r)
  BY <1>5, FailInd DEF FindFault, Codes
<1>6. CASE LoginRight(r)
  <2>1. PICK u \in Owners(rq[r].login) :
          CompareHashAndPassword(users[u].phc, rq[r].password) /\ CreateSession(r, u)
    BY <1>6 DEF LoginRight
  <2>2. u \in UserIDs /\ users[u] # NoRow /\ users[u].login = rq[r].login
    BY <2>1 DEF Owners
  <2>3. users[u].phc \in PHCs /\ rq[r].password \in Passwords
    BY <1>0, <2>2 DEF TableTypes, UserRows, CallTypes, RequestMessages
  <2>4. users[u].phc.key = IDKey(rq[r].password, TimeCost, MemoryCost)
    BY <2>1, <2>3, ComparesRight
  <2>5. UNCHANGED <<users, stored, now, known, revoked>> /\ rq[r].op = "Login"
    BY <1>6 DEF LoginRight
  <2>6. users' \in [UserIDs -> UserRows \cup {NoRow}]
    BY <1>0, <2>5 DEF TableTypes
  <2> QED
    BY <1>0, <2>1, <2>2, <2>4, <2>5, <2>6, MintInd
<1> QED
  BY <1>2, <1>3, <1>4, <1>5, <1>6

\* The insert of an account, its conflict and its failure.
LEMMA CreateInd ==
  ASSUME IndInv, NEW r \in Requests, Create(r) \/ CreateConflict(r) \/ CreateFault(r)
  PROVE  IndInv'
<1>0. pc[r] = "create"
  BY DEF Create, CreateConflict, CreateFault
<1>1. rq[r].op = "Register"
  BY <1>0 DEF IndInv, Local, Serving
<1>2. CASE Create(r)
  <2>1. PICK u \in FreshUserIDs : InsertUser(r, u) /\ CreateSession(r, u)
    BY <1>2 DEF Create
  <2>2. /\ users' \in [UserIDs -> UserRows \cup {NoRow}]
        /\ u \in UserIDs /\ users[u] = NoRow /\ users'[u] # NoRow
        /\ users'[u].login = rq[r].login
        /\ users'[u].phc.key = IDKey(rq[r].password, TimeCost, MemoryCost)
        /\ \A v \in UserIDs \ {u} : users'[v] = users[v]
    BY <2>1, InsertEffect
  <2>3. \A v \in UserIDs : users[v] # NoRow => users'[v] = users[v]
    BY <2>2
  <2>4. Inserts(r) /\ UNCHANGED <<stored, now, known, revoked>>
    BY <1>2, <2>1 DEF Create, Inserts
  <2> QED
    BY <1>0, <1>1, <2>1, <2>2, <2>3, <2>4, MintInd
<1>3. CASE CreateConflict(r)
  BY <1>3, FailInd DEF CreateConflict, Codes
<1>4. CASE CreateFault(r)
  BY <1>0, <1>4, RetryInd DEF CreateFault, Inserts
<1> QED
  BY <1>2, <1>3, <1>4

\* The session is stored and handed out.
LEMMA SaveInd ==
  ASSUME IndInv, NEW r \in Requests, Save(r) \/ SaveFault(r) \/ Expired(r)
  PROVE  IndInv'
<1>0. TableTypes /\ CallTypes
  BY Parts DEF IndInv
<1>1. CASE Save(r)
  <2>1. /\ Finish(r, "OK") /\ pc[r] = "save" /\ UNCHANGED <<users, minted, now, uid, tok, revoked>>
        /\ stored' = stored \cup {tok[r]} /\ known' = known \cup {tok[r]}
    BY <1>1 DEF Save, Upserted
  <2>2. /\ CallTypes' /\ Others(r) /\ UNCHANGED rq
        /\ pc'[r] = "idle" /\ resp'[r] = "OK"
    BY <2>1, FinishEffect DEF Codes
  <2>3. /\ tok[r] \in Minted /\ minted[tok[r]].user = uid[r]
        /\ rq[r].op \in {"Register", "Login", "Refresh"}
        /\ rq[r].op \in {"Register", "Login"} => Owned(r)
    BY <2>1 DEF IndInv, Local, Granted, Granting, Serving
  <2>4. TypeOK'
    <3>1. TableTypes'
      BY <1>0, <2>1, <2>3 DEF TableTypes, Minted
    <3> QED
      BY <2>2, <3>1, PartsNext
  <2>5. Grows
    BY <2>1 DEF Grows
  <2>6. Serving(r)'
    BY <2>2 DEF Serving
  <2>7. Granted(r)'
    BY <2>1, <2>2, <2>3 DEF Granted, Granting, SessionOf, Owned, Minted
  <2>8. Sessions'
    BY <2>1, <2>2, <2>5, SessionsStep
  <2>9. Accounts'
    <3>1. Registering(r)' => Registering(r) /\ uid'[r] = uid[r]
      BY <2>1, <2>2 DEF Registering, Granting
    <3> QED
      BY <2>1, <2>2, <3>1, AccountsStep
  <2> QED
    BY <2>2, <2>4, <2>5, <2>6, <2>7, <2>8, <2>9, StepInd DEF Local
<1>2. CASE SaveFault(r)
  BY <1>2, RetryInd DEF SaveFault, Upserted
<1>3. CASE Expired(r)
  BY <1>3, FailInd DEF Expired, Codes
<1> QED
  BY <1>1, <1>2, <1>3

\* Logout, the first half of RefreshSession, and ValidateRefreshToken.
LEMMA TokenInd ==
  ASSUME IndInv, NEW r \in Requests,
         DeleteToken(r) \/ DeleteTokenFault(r) \/ Validate(r) \/ ValidateFault(r)
  PROVE  IndInv'
<1>0. TableTypes /\ CallTypes
  BY Parts DEF IndInv
<1>1. CASE DeleteToken(r)
  <2> DEFINE t == rq[r].token
  <2>1. /\ AfterDelete(r) /\ pc[r] = "delete" /\ UNCHANGED <<users, now, known>>
        /\ stored' = stored \ {t} /\ revoked' = revoked \cup ({t} \cap Tokens)
    BY <1>1 DEF DeleteToken, Deleted
  <2>2. /\ t \in known \cup {Stranger} /\ rq[r].op \in {"Logout", "Refresh"}
        /\ rq[r].op = "Refresh" => rq[r].user \in UserIDs
    BY <2>1 DEF IndInv, Local, Serving
  <2> HIDE DEF t
  <2>3. CASE rq[r].op = "Refresh"
    <3>1. CreateSession(r, rq[r].user)
      BY <2>1, <2>3 DEF AfterDelete
    <3>2. users' \in [UserIDs -> UserRows \cup {NoRow}]
      BY <1>0, <2>1 DEF TableTypes
    <3> QED
      BY <2>1, <2>2, <2>3, <3>1, <3>2, MintInd
  <2>4. CASE rq[r].op = "Logout"
    <3>1. Finish(r, "OK") /\ UNCHANGED <<minted, uid, tok>>
      BY <2>1, <2>4 DEF AfterDelete
    <3>2. /\ CallTypes' /\ Others(r) /\ UNCHANGED rq
          /\ pc'[r] = "idle" /\ resp'[r] = "OK"
      BY <3>1, FinishEffect DEF Codes
    <3>3. TypeOK'
      <4>1. TableTypes'
        BY <1>0, <2>1, <3>1 DEF TableTypes
      <4> QED
        BY <3>2, <4>1, PartsNext
    <3>4. Grows
      BY <2>1, <3>1 DEF Grows
    <3>5. Local(r)'
      BY <2>4, <3>2 DEF Local, Serving, Granted, Granting, SessionOf
    <3>6. Sessions'
      BY <2>1, <2>2, <3>2, <3>4, SessionsStep
    <3>7. Accounts'
      <4>1. ~ Registering(r)'
        BY <2>4, <3>2 DEF Registering
      <4> QED
        BY <2>1, <3>2, <4>1, AccountsStep
    <3> QED
      BY <3>2, <3>3, <3>4, <3>5, <3>6, <3>7, StepInd
  <2> QED
    BY <2>2, <2>3, <2>4
<1>2. CASE DeleteTokenFault(r)
  BY <1>2, RetryInd DEF DeleteTokenFault, Deleted
<1>3. CASE ValidateFault(r)
  BY <1>3, FailInd DEF ValidateFault, Codes
<1>4. CASE Validate(r)
  <2>1. UNCHANGED <<tables, now, uid, tok, known, revoked>> /\ pc[r] = "validate"
    BY <1>4 DEF Validate
  <2>2. CASE ~ Valid(rq[r].user, rq[r].token)
    BY <1>4, <2>1, <2>2, FailInd DEF Validate, Codes
  <2>3. CASE Valid(rq[r].user, rq[r].token)
    <3>1. Finish(r, "OK")
      BY <1>4, <2>3 DEF Validate
    <3>2. /\ CallTypes' /\ Others(r) /\ UNCHANGED rq
          /\ pc'[r] = "idle" /\ resp'[r] = "OK"
      BY <2>1, <3>1, FinishEffect DEF Codes
    <3>3. rq[r].op = "Validate"
      BY <2>1 DEF IndInv, Local, Serving
    <3>4. rq[r].token \in Minted /\ minted[rq[r].token].user = rq[r].user
      BY <2>3 DEF Valid, IndInv, Sessions
    <3>5. Local(r)'
      BY <2>1, <3>2, <3>3, <3>4 DEF Local, Serving, Granted, Granting, SessionOf, Minted, tables
    <3>6. ~ Registering(r)'
      BY <3>2, <3>3 DEF Registering
    <3> QED
      BY <2>1, <3>2, <3>5, <3>6, QuietStep
  <2> QED
    BY <2>2, <2>3
<1> QED
  BY <1>1, <1>2, <1>3, <1>4

\* A crash ends the requests; the tables and the clients' tokens remain.
LEMMA CrashInd ==
  ASSUME IndInv, Crash
  PROVE  IndInv'
<1>0. TableTypes
  BY Parts DEF IndInv
<1>1. TableTypes' /\ UNCHANGED <<users, minted, stored, known, revoked>>
  BY <1>0 DEF Crash, tables, TableTypes
<1>2. CallTypes'
  <2>1. 0 \in 0 .. maxAttemptCount
    BY DEF maxAttemptCount
  <2> QED
    BY <2>1, NoRequestType DEF Crash, CallTypes, States, Codes
<1>3. \A r \in Requests : pc'[r] = "idle" /\ rq'[r].op = "None" /\ resp'[r] = "None"
  BY NoRequestType DEF Crash
<1>4. \A r \in Requests : Local(r)'
  BY <1>3 DEF Local, Serving, Granted, Granting, SessionOf
<1>5. Sessions'
  BY <1>1, <1>3 DEF IndInv, Sessions, Minted, RevokedForGood
<1>6. Accounts'
  BY <1>1, <1>3 DEF IndInv, Accounts, UniqueLogins, Registering
<1> QED
  BY <1>1, <1>2, <1>4, <1>5, <1>6, PartsNext DEF IndInv

\* Time passes, or nothing happens.
LEMMA IdleInd ==
  ASSUME IndInv, UNCHANGED <<tables, pc, rq, callvars, resp, known, revoked>>,
         now' \in 0 .. MaxNow
  PROVE  IndInv'
<1>1. UNCHANGED <<users, minted, stored, known, revoked, pc, rq, uid, tok, tries, live, resp>>
  BY DEF tables, callvars
<1>2. TypeOK'
  BY <1>1 DEF IndInv, TypeOK
<1>3. Grows /\ \A r \in Requests : Alone(r)
  BY <1>1 DEF Grows, Alone
<1>4. \A r \in Requests : Local(r)'
  BY <1>3, AloneLocal DEF IndInv
<1>5. Sessions'
  BY <1>1 DEF IndInv, Sessions, Minted, RevokedForGood
<1>6. Accounts'
  BY <1>1 DEF IndInv, Accounts, UniqueLogins, Registering, Granting
<1> QED
  BY <1>2, <1>4, <1>5, <1>6 DEF IndInv

-----------------------------------------------------------------------------
(***************************************************************************)
(* The invariants.                                                         *)
(***************************************************************************)
LEMMA InitInd == Init => IndInv
<1> SUFFICES ASSUME Init PROVE IndInv
  OBVIOUS
<1>1. TypeOK
  <2>1. 0 \in 0 .. maxAttemptCount /\ 0 \in 0 .. MaxNow
    BY ClockAssumption DEF maxAttemptCount
  <2>2. TableTypes
    BY <2>1 DEF Init, TableTypes
  <2>3. CallTypes
    BY <2>1, NoRequestType DEF Init, CallTypes, States, Codes
  <2> QED
    BY <2>2, <2>3, Parts
<1>2. \A r \in Requests : pc[r] = "idle" /\ rq[r].op = "None" /\ resp[r] = "None"
  BY NoRequestType DEF Init
<1>3. \A r \in Requests : Local(r)
  BY <1>2 DEF Local, Serving, Granted, Granting, SessionOf
<1>4. Sessions
  BY <1>2 DEF Init, Sessions, RevokedForGood
<1>5. Accounts
  BY <1>2 DEF Init, Accounts, UniqueLogins, Registering
<1> QED
  BY <1>1, <1>3, <1>4, <1>5 DEF IndInv

\* Every step preserves the invariant.
LEMMA NextInd ==
  ASSUME IndInv, [Next]_vars
  PROVE  IndInv'
<1>0. now \in 0 .. MaxNow
  BY DEF IndInv, TypeOK
<1>1. ASSUME NEW r \in Requests, ClientStep(r) PROVE IndInv'
  BY <1>1, ClientInd
<1>2. ASSUME NEW r \in Requests, ServerStep(r) PROVE IndInv'
  BY <1>2, FindInd, CreateInd, SaveInd, TokenInd DEF ServerStep
<1>3. CASE Crash
  BY <1>3, CrashInd
<1>4. CASE Tick
  <2>1. now + 1 \in 0 .. MaxNow
    BY <1>0, <1>4, ClockAssumption DEF Tick
  <2> QED
    BY <1>4, <2>1, IdleInd DEF Tick
<1>5. CASE UNCHANGED vars
  BY <1>0, <1>5, IdleInd DEF vars
<1> QED
  BY <1>1, <1>2, <1>3, <1>4, <1>5 DEF Next

\* The inductive invariant of Auth: what requests serve and have been granted, which
\* tokens are known to whom, and which rows registrations stand for.
THEOREM Inductive == Spec => []IndInv
BY InitInd, NextInd, PTL DEF Spec

\* Every reachable state of accounts and sessions is well typed; every answer is one
\* of the codes of AuthService.
THEOREM TypeCorrect == Spec => []TypeOK
<1>1. IndInv => TypeOK
  BY DEF IndInv
<1> QED
  BY <1>1, Inductive, PTL

\* A token whose deletion was reported never has a row again: the retry of a Save
\* that may still be under way saves a token no client has seen.
THEOREM RevocationLasts == Spec => []RevokedForGood
<1>1. IndInv => RevokedForGood
  BY DEF IndInv, Sessions
<1> QED
  BY <1>1, Inductive, PTL

\* Tokens are handed out only for the account of the login whose password was given,
\* and no token is accepted for another account; with the costs of the PHC string in
\* the right order or swapped.
THEOREM SessionsBelong == Spec => []SessionIsOwners
<1>1. IndInv => SessionIsOwners
  <2> SUFFICES ASSUME IndInv PROVE SessionIsOwners
    OBVIOUS
  <2>1. ASSUME NEW r \in Requests, SessionOf(r)
        PROVE  /\ users[uid[r]] # NoRow
               /\ users[uid[r]].login = rq[r].login
               /\ users[uid[r]].phc.key = IDKey(rq[r].password, TimeCost, MemoryCost)
               /\ minted[tok[r]].user = uid[r]
    BY <2>1 DEF IndInv, Local, Granted, Granting, SessionOf, Owned
  <2>2. ASSUME NEW r \in Requests, rq[r].op = "Validate", resp[r] = "OK"
        PROVE  minted[rq[r].token].user = rq[r].user
    BY <2>2 DEF IndInv, Local, Granted
  <2> QED
    BY <2>1, <2>2 DEF SessionIsOwners
<1> QED
  BY <1>1, Inductive, PTL

\* Of several registrations of one login at most one is answered OK: each stands for
\* a row of its own, and logins are unique.
THEOREM RegisteredOnce == Spec => []OneRegistration
<1>1. IndInv => OneRegistration
  <2> SUFFICES ASSUME IndInv, NEW r \in Requests, NEW q \in Requests, r # q,
                      rq[r].op = "Register", rq[q].op = "Register",
                      resp[r] = "OK", resp[q] = "OK"
               PROVE  rq[r].login # rq[q].login
    BY DEF OneRegistration
  <2>1. Owned(r) /\ Owned(q)
    BY DEF IndInv, Local, Granted, Granting
  <2>2. uid[r] # uid[q]
    BY DEF IndInv, Accounts, Registering, Granting
  <2> QED
    BY <2>1, <2>2 DEF Owned, IndInv, Accounts, UniqueLogins
<1> QED
  BY <1>1, Inductive, PTL
=============================================================================
