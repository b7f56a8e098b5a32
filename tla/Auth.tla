-------------------------------- MODULE Auth --------------------------------
(***************************************************************************)
(* Accounts and sessions: the RPCs Register, Login and Logout of           *)
(* AuthService, session.Manager with RefreshSession and                    *)
(* ValidateRefreshToken, the generator of tokens, and the tables users and *)
(* refresh_tokens.                                                         *)
(*                                                                         *)
(* Every RPC runs in a goroutine of its own; a step of a request is one    *)
(* attempt of one repository call.  A write that is reported as failed may *)
(* have been applied.                                                      *)
(*                                                                         *)
(* AuthService is written, and tested, against the interfaces              *)
(* UserRepository and SessionManager.  Defects names the places where the  *)
(* code behind them is known to differ from what AuthService expects; the  *)
(* empty set stands for the interfaces, the others for the code as it is.  *)
(***************************************************************************)
EXTENDS Naturals, WithRetry

CONSTANTS
  Requests,    \* slots for RPCs that are served at the same time
  Logins,      \* login hashes
  Passwords,
  UserIDs,     \* identifiers gen_random_uuid() can generate
  Tokens,      \* refresh tokens GenerateRefreshToken can generate
  Stranger,    \* a refresh token that it never generated
  NoUser,      \* no user identifier yet
  NoToken,     \* no refresh token yet
  NoRow,       \* an identifier or a token that was not generated yet
  RefreshTTL,  \* RefreshTokenExpireDays in units of the model's clock
  MaxNow,      \* bound on that clock
  Failures,    \* the calls that may fail for no reason of their own
  Defects      \* departures of the code from the interfaces, see above

FailureKinds == {"Read", "Create", "Save", "Delete", "Crash"}

ASSUME FailuresAssumption == Failures \subseteq FailureKinds
ASSUME DefectsAssumption == Defects \subseteq {"FindByLogin", "PHC"}
ASSUME ClockAssumption == RefreshTTL \in Nat \ {0} /\ MaxNow \in Nat

(***************************************************************************)
(* Package hash.  The PHC string carries the parameters of argon2 with the *)
(* salt and the key; comparing recomputes the key from the parameters the  *)
(* string carries.  GenerateFromPassword passes the two costs to           *)
(* GeneratePHC in the wrong order.                                         *)
(***************************************************************************)
TimeCost   == 2
MemoryCost == 65536

IDKey(password, time, memory) == <<password, time, memory>>

GeneratePHC(key, timeCost, memoryCost) ==
  [key |-> key, t |-> timeCost, m |-> memoryCost]

GenerateFromPassword(password) ==
  LET key == IDKey(password, TimeCost, MemoryCost)
  IN IF "PHC" \in Defects
     THEN GeneratePHC(key, MemoryCost, TimeCost)
     ELSE GeneratePHC(key, TimeCost, MemoryCost)

CompareHashAndPassword(phc, password) ==
  IDKey(password, phc.t, phc.m) = phc.key

PHCs == {GenerateFromPassword(p) : p \in Passwords}

UserRows  == [login : Logins, phc : PHCs]
TokenRows == [user : UserIDs, expires : Nat]

RequestMessages ==
  [op : {"None", "Register", "Login", "Logout", "Refresh", "Validate"},
   login : Logins, password : Passwords,
   user : UserIDs \cup {NoUser}, token : Tokens \cup {Stranger, NoToken}]

ASSUME CredentialsAssumption == Logins # {} /\ Passwords # {}
ASSUME AuthSentinelAssumption ==
  /\ Stranger \notin Tokens
  /\ NoRow \notin UserRows \cup TokenRows

VARIABLES
  \* the database
  users,    \* users[u]: the row inserted under u, NoRow before that
  minted,   \* minted[t]: owner and expiry of the refresh token t, once generated
  stored,   \* refresh tokens with a row in refresh_tokens now
  now,      \* the clock
  \* the requests
  pc,       \* what each request does next
  rq,       \* the message each request serves
  uid,      \* the local variable userID
  tok,      \* the local variable refreshToken of CreateSession
  tries,    \* the parameter counter of WithRetry
  live,     \* the context of the current repository call has not expired
  \* what the clients have seen
  resp,     \* status of the last answer of each slot
  known,    \* refresh tokens some client was given
  \* history, for the properties only
  revoked   \* tokens whose deletion was reported to its caller

tables   == <<users, minted, stored>>
callvars == <<uid, tok, tries, live>>
vars     == <<tables, now, pc, rq, callvars, resp, known, revoked>>

Codes == {"None", "OK", "Internal", "InvalidArgument", "Unauthenticated",
          "AlreadyExists"}

States == {"idle", "find", "create", "save", "delete", "validate"}

TypeOK ==
  /\ users \in [UserIDs -> UserRows \cup {NoRow}]
  /\ minted \in [Tokens -> TokenRows \cup {NoRow}]
  /\ stored \subseteq Tokens
  /\ now \in 0 .. MaxNow
  /\ pc \in [Requests -> States]
  /\ rq \in [Requests -> RequestMessages]
  /\ uid \in [Requests -> UserIDs \cup {NoUser}]
  /\ tok \in [Requests -> Tokens \cup {NoToken}]
  /\ tries \in [Requests -> 0 .. maxAttemptCount]
  /\ live \in [Requests -> BOOLEAN]
  /\ resp \in [Requests -> Codes]
  /\ known \subseteq Tokens
  /\ revoked \subseteq Tokens

NoRequest == [op |-> "None", login |-> CHOOSE l \in Logins : TRUE,
              password |-> CHOOSE p \in Passwords : TRUE,
              user |-> NoUser, token |-> NoToken]

Init ==
  /\ users = [u \in UserIDs |-> NoRow]
  /\ minted = [t \in Tokens |-> NoRow]
  /\ stored = {}
  /\ now = 0
  /\ pc = [r \in Requests |-> "idle"]
  /\ rq = [r \in Requests |-> NoRequest]
  /\ uid = [r \in Requests |-> NoUser]
  /\ tok = [r \in Requests |-> NoToken]
  /\ tries = [r \in Requests |-> 0]
  /\ live = [r \in Requests |-> TRUE]
  /\ resp = [r \in Requests |-> "None"]
  /\ known = {}
  /\ revoked = {}

-----------------------------------------------------------------------------
(***************************************************************************)
(* Helpers.                                                                *)
(***************************************************************************)

Begin(r, m, state) ==
  /\ pc[r] = "idle"
  /\ pc' = [pc EXCEPT ![r] = state]
  /\ rq' = [rq EXCEPT ![r] = m]
  /\ uid' = [uid EXCEPT ![r] = NoUser]
  /\ tok' = [tok EXCEPT ![r] = NoToken]
  /\ tries' = [tries EXCEPT ![r] = 0]
  /\ live' = [live EXCEPT ![r] = TRUE]
  /\ resp' = [resp EXCEPT ![r] = "None"]
  /\ UNCHANGED <<tables, now, known, revoked>>

Finish(r, code) ==
  /\ pc' = [pc EXCEPT ![r] = "idle"]
  /\ resp' = [resp EXCEPT ![r] = code]
  /\ UNCHANGED <<rq, tries, live>>

\* WithRetry sleeps and makes the next attempt, in time or too late.
Retry(r) ==
  \E onTime \in BOOLEAN :
    /\ tries' = [tries EXCEPT ![r] = @ + 1]
    /\ live' = [live EXCEPT ![r] = onTime /\ InTime(tries[r] + 1)]
    /\ UNCHANGED <<pc, rq, resp>>

\* A failed attempt of a call: try again, or return Internal.
RetryOrFail(r) ==
  \E retryable \in BOOLEAN :
    \/ MayRetry(tries[r], retryable) /\ Retry(r)
    \/ ~ MayRetry(tries[r], retryable) /\ Finish(r, "Internal")

-----------------------------------------------------------------------------
(***************************************************************************)
(* The session manager.                                                    *)
(***************************************************************************)

FreshTokens == {t \in Tokens : minted[t] = NoRow}

(***************************************************************************)
(* CreateSession for user u up to its only repository call: both tokens    *)
(* are generated, with their expiry, before Save.  When no token is left   *)
(* (the bound Tokens), generating fails.                                   *)
(***************************************************************************)
CreateSession(r, u) ==
  \/ \E t \in FreshTokens :
       /\ minted' = [minted EXCEPT ![t] =
                       [user |-> u, expires |-> now + RefreshTTL]]
       /\ tok' = [tok EXCEPT ![r] = t]
       /\ uid' = [uid EXCEPT ![r] = u]
       /\ pc' = [pc EXCEPT ![r] = "save"]
       /\ tries' = [tries EXCEPT ![r] = 0]
       /\ live' = [live EXCEPT ![r] = TRUE]
       /\ UNCHANGED <<rq, resp>>
  \/ /\ FreshTokens = {}
     /\ uid' = [uid EXCEPT ![r] = u]
     /\ Finish(r, "Internal")
     /\ UNCHANGED <<minted, tok>>

\* The rows after the upsert Save and after the query DeleteToken.
Upserted(t) == stored \cup {t}
Deleted(t)  == stored \ {t}

\* storage.Save succeeds: the handler answers with both tokens.
Save(r) ==
  /\ pc[r] = "save"
  /\ live[r]
  /\ stored' = Upserted(tok[r])
  /\ known' = known \cup {tok[r]}
  /\ Finish(r, "OK")
  /\ UNCHANGED <<users, minted, now, uid, tok, revoked>>

\* An attempt fails; the upsert may have been applied.
SaveFault(r) ==
  /\ pc[r] = "save"
  /\ live[r]
  /\ "Save" \in Failures
  /\ stored' \in {stored, Upserted(tok[r])}
  /\ RetryOrFail(r)
  /\ UNCHANGED <<users, minted, now, uid, tok, known, revoked>>

\* Mutant of Expired: WithRetry never gives up an expired context.
Expired_Forever(r) ==
  /\ pc[r] \in {"create", "save", "delete"}
  /\ ~ live[r]
  /\ UNCHANGED vars

\* An attempt under an expired context fails at once and is not retried.
Expired(r) ==
  /\ pc[r] \in {"create", "save", "delete"}
  /\ ~ live[r]
  /\ Finish(r, "Internal")
  /\ UNCHANGED <<tables, now, uid, tok, known, revoked>>

\* storage.Validate: the row exists, is the user's and has not expired.
Valid(u, t) ==
  t \in stored /\ minted[t].user = u /\ minted[t].expires > now

\* ValidateRefreshToken.
StartValidate(r) ==
  \E u \in {v \in UserIDs : users[v] # NoRow}, t \in known \cup {Stranger} :
    Begin(r, [NoRequest EXCEPT !.op = "Validate", !.user = u, !.token = t],
          "validate")

Validate(r) ==
  /\ pc[r] = "validate"
  /\ Finish(r, IF Valid(rq[r].user, rq[r].token) THEN "OK" ELSE "Internal")
  /\ UNCHANGED <<tables, now, uid, tok, known, revoked>>

\* The query of Validate fails: the token is refused, valid or not.
ValidateFault(r) ==
  /\ pc[r] = "validate"
  /\ "Read" \in Failures
  /\ Finish(r, "Internal")
  /\ UNCHANGED <<tables, now, uid, tok, known, revoked>>

(***************************************************************************)
(* RevokeSession and the first half of RefreshSession: storage.Delete, an  *)
(* :exec query that reports success whether or not there was a row.        *)
(***************************************************************************)
AfterDelete(r) ==
  IF rq[r].op = "Refresh"
  THEN CreateSession(r, rq[r].user)
  ELSE Finish(r, "OK") /\ UNCHANGED <<minted, uid, tok>>

\* Mutant of DeleteToken: the query matches only rows Validate would accept.
DeleteToken_OnlyValid(r) ==
  /\ pc[r] = "delete"
  /\ live[r]
  /\ stored' = IF Valid(rq[r].user, rq[r].token)
               THEN Deleted(rq[r].token) ELSE stored
  /\ revoked' = revoked \cup ({rq[r].token} \cap Tokens)
  /\ AfterDelete(r)
  /\ UNCHANGED <<users, now, known>>

DeleteToken(r) ==
  /\ pc[r] = "delete"
  /\ live[r]
  /\ stored' = Deleted(rq[r].token)
  /\ revoked' = revoked \cup ({rq[r].token} \cap Tokens)
  /\ AfterDelete(r)
  /\ UNCHANGED <<users, now, known>>

DeleteTokenFault(r) ==
  /\ pc[r] = "delete"
  /\ live[r]
  /\ "Delete" \in Failures
  /\ stored' \in {stored, Deleted(rq[r].token)}
  /\ RetryOrFail(r)
  /\ UNCHANGED <<users, minted, now, uid, tok, known, revoked>>

\* Manager.RefreshSession, for the user the caller authenticated.
StartRefresh(r) ==
  \E u \in {v \in UserIDs : users[v] # NoRow}, t \in known \cup {Stranger} :
    Begin(r, [NoRequest EXCEPT !.op = "Refresh", !.user = u, !.token = t],
          "delete")

-----------------------------------------------------------------------------
(***************************************************************************)
(* AuthService.                                                            *)
(***************************************************************************)

StartRegister(r) ==
  \E l \in Logins, p \in Passwords :
    Begin(r, [NoRequest EXCEPT !.op = "Register", !.login = l, !.password = p],
          "find")

StartLogin(r) ==
  \E l \in Logins, p \in Passwords :
    Begin(r, [NoRequest EXCEPT !.op = "Login", !.login = l, !.password = p],
          "find")

StartLogout(r) ==
  \E t \in known \cup {Stranger} :
    Begin(r, [NoRequest EXCEPT !.op = "Logout", !.token = t], "delete")

\* Early returns: no credentials, no login or password, no refresh token.
Refuse(r) ==
  /\ pc[r] = "idle"
  /\ rq' = [rq EXCEPT ![r] = NoRequest]
  /\ resp' = [resp EXCEPT ![r] = "InvalidArgument"]
  /\ UNCHANGED <<tables, now, pc, callvars, known, revoked>>

Owners(l) == {u \in UserIDs : users[u] # NoRow /\ users[u].login = l}

\* The query of FindByLogin runs; with the operator == it cannot.
LookupWorks == "FindByLogin" \notin Defects

\* Register: the login is free (model.ErrNotFound); hash the password, Create.
RegisterFree(r) ==
  /\ pc[r] = "find"
  /\ rq[r].op = "Register"
  /\ LookupWorks
  /\ Owners(rq[r].login) = {}
  /\ pc' = [pc EXCEPT ![r] = "create"]
  /\ UNCHANGED <<tables, now, rq, callvars, resp, known, revoked>>

RegisterTaken(r) ==
  /\ pc[r] = "find"
  /\ rq[r].op = "Register"
  /\ LookupWorks
  /\ Owners(rq[r].login) # {}
  /\ Finish(r, "AlreadyExists")
  /\ UNCHANGED <<tables, now, uid, tok, known, revoked>>

\* Mutant of LoginRight: the result of CompareHashAndPassword is ignored.
LoginRight_AnyPassword(r) ==
  /\ pc[r] = "find"
  /\ rq[r].op = "Login"
  /\ LookupWorks
  /\ \E u \in Owners(rq[r].login) : CreateSession(r, u)
  /\ UNCHANGED <<users, stored, now, known, revoked>>

\* Login: the user exists and the password is right; CreateSession.
LoginRight(r) ==
  /\ pc[r] = "find"
  /\ rq[r].op = "Login"
  /\ LookupWorks
  /\ \E u \in Owners(rq[r].login) :
       /\ CompareHashAndPassword(users[u].phc, rq[r].password)
       /\ CreateSession(r, u)
  /\ UNCHANGED <<users, stored, now, known, revoked>>

LoginWrong(r) ==
  /\ pc[r] = "find"
  /\ rq[r].op = "Login"
  /\ LookupWorks
  /\ \A u \in Owners(rq[r].login) :
       ~ CompareHashAndPassword(users[u].phc, rq[r].password)
  /\ Finish(r, "Unauthenticated")
  /\ UNCHANGED <<tables, now, uid, tok, known, revoked>>

\* FindByLogin fails: Internal for Register, Unauthenticated for Login.
FindFault(r) ==
  /\ pc[r] = "find"
  /\ "Read" \in Failures \/ ~ LookupWorks
  /\ Finish(r, IF rq[r].op = "Register" THEN "Internal" ELSE "Unauthenticated")
  /\ UNCHANGED <<tables, now, uid, tok, known, revoked>>

FreshUserIDs == {u \in UserIDs : users[u] = NoRow}

\* Mutant of Insertable: the column login_hash without its constraint UNIQUE.
Insertable_NotUnique(r) == TRUE

\* The constraint UNIQUE of users.login_hash lets the row in.
Insertable(r) == Owners(rq[r].login) = {}

InsertUser(r, u) ==
  users' = [users EXCEPT ![u] =
    [login |-> rq[r].login, phc |-> GenerateFromPassword(rq[r].password)]]

\* repo.Create succeeds; CreateSession.
Create(r) ==
  /\ pc[r] = "create"
  /\ live[r]
  /\ Insertable(r)
  /\ \E u \in FreshUserIDs : InsertUser(r, u) /\ CreateSession(r, u)
  /\ UNCHANGED <<stored, now, known, revoked>>

\* Mutant of CreateConflict: the error of the repository is returned as it is.
CreateConflict_RawError(r) ==
  /\ pc[r] = "create"
  /\ live[r]
  /\ ~ Insertable(r) \/ FreshUserIDs = {}
  /\ Finish(r, "Unknown")
  /\ UNCHANGED <<tables, now, uid, tok, known, revoked>>

\* The login was taken meanwhile (or the bound UserIDs is reached).
CreateConflict(r) ==
  /\ pc[r] = "create"
  /\ live[r]
  /\ ~ Insertable(r) \/ FreshUserIDs = {}
  /\ Finish(r, "Internal")
  /\ UNCHANGED <<tables, now, uid, tok, known, revoked>>

\* An attempt fails; the row may have been inserted, under an id nobody learns.
CreateFault(r) ==
  /\ pc[r] = "create"
  /\ live[r]
  /\ "Create" \in Failures
  /\ \/ UNCHANGED users
     \/ Insertable(r) /\ \E u \in FreshUserIDs : InsertUser(r, u)
  /\ RetryOrFail(r)
  /\ UNCHANGED <<minted, stored, now, uid, tok, known, revoked>>

-----------------------------------------------------------------------------
\* The server process dies; the database survives.
Crash ==
  /\ "Crash" \in Failures
  /\ pc' = [r \in Requests |-> "idle"]
  /\ rq' = [r \in Requests |-> NoRequest]
  /\ uid' = [r \in Requests |-> NoUser]
  /\ tok' = [r \in Requests |-> NoToken]
  /\ tries' = [r \in Requests |-> 0]
  /\ live' = [r \in Requests |-> TRUE]
  /\ resp' = [r \in Requests |-> "None"]
  /\ UNCHANGED <<tables, now, known, revoked>>

Tick ==
  /\ now < MaxNow
  /\ now' = now + 1
  /\ UNCHANGED <<tables, pc, rq, callvars, resp, known, revoked>>

ClientStep(r) ==
  \/ StartRegister(r) \/ StartLogin(r) \/ StartLogout(r)
  \/ StartRefresh(r) \/ StartValidate(r) \/ Refuse(r)

ServerStep(r) ==
  \/ RegisterFree(r) \/ RegisterTaken(r) \/ LoginRight(r) \/ LoginWrong(r)
  \/ FindFault(r) \/ Create(r) \/ CreateConflict(r) \/ CreateFault(r)
  \/ Save(r) \/ SaveFault(r) \/ Expired(r)
  \/ DeleteToken(r) \/ DeleteTokenFault(r) \/ Validate(r) \/ ValidateFault(r)

Next ==
  \/ \E r \in Requests : ClientStep(r) \/ ServerStep(r)
  \/ Crash
  \/ Tick

Spec == Init /\ [][Next]_vars

\* Every repository call returns (its context has a deadline), and a runnable
\* goroutine runs.  Clients owe nothing and the clock need not advance.
FairSpec == Spec /\ \A r \in Requests : WF_vars(ServerStep(r))

-----------------------------------------------------------------------------
(***************************************************************************)
(* Properties.                                                             *)
(***************************************************************************)

SessionOf(r) == rq[r].op \in {"Register", "Login"} /\ resp[r] = "OK"

\* Tokens are handed out only for the account of that login whose password was
\* given, and the refresh token is that account's; and ValidateRefreshToken
\* accepts a token for no other account.
SessionIsOwners ==
  /\ \A r \in Requests : SessionOf(r) =>
       LET row == users[uid[r]]
       IN /\ row # NoRow
          /\ row.login = rq[r].login
          /\ row.phc.key = IDKey(rq[r].password, TimeCost, MemoryCost)
          /\ minted[tok[r]].user = uid[r]
  /\ \A r \in Requests :
       (rq[r].op = "Validate" /\ resp[r] = "OK") =>
         minted[rq[r].token].user = rq[r].user

\* Of several registrations of one login at most one is answered OK.
OneRegistration ==
  \A r, q \in Requests :
    (/\ r # q
     /\ rq[r].op = "Register" /\ rq[q].op = "Register"
     /\ resp[r] = "OK" /\ resp[q] = "OK") => rq[r].login # rq[q].login

\* A refresh token whose deletion was reported (Logout answered, or the session
\* refreshed) never has a row again, whatever retries are still under way.
RevokedForGood == revoked \cap stored = {}

\* Every request is answered (or dies in a crash).
Responds ==
  \A r \in Requests : (pc[r] # "idle") ~> (pc[r] = "idle")

-----------------------------------------------------------------------------
(***************************************************************************)
(* Claims of docs and messages that the code departs from.                 *)
(***************************************************************************)

\* auth.proto: Register registers a new user.  When nothing fails, a Register
\* that runs alone on a free login is not answered Internal.
FreshLoginRegisters ==
  \A r \in Requests :
    (/\ rq[r].op = "Register"
     /\ FreshUserIDs = UserIDs) => resp[r] # "Internal"

\* auth.proto: Login returns credentials.  When nothing fails, the right password
\* of an account is not answered Unauthenticated.
RightPasswordLogsIn ==
  \A r \in Requests :
    (/\ rq[r].op = "Login"
     /\ resp[r] = "Unauthenticated") =>
       \A u \in Owners(rq[r].login) :
         users[u].phc.key # IDKey(rq[r].password, TimeCost, MemoryCost)
=============================================================================
