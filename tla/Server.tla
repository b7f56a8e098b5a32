------------------------------- MODULE Server -------------------------------
(***************************************************************************)
(* The server process: configuration, dbConnect and the migrations, Setup, *)
(* Serve, the signal, Stop, and the way of an RPC from its connection      *)
(* through the generated stub and the interceptor to its handler.          *)
(*                                                                         *)
(* What the handlers of Keeper and AuthService do is in the modules Keeper *)
(* and Auth; here a handler holds a connection of the pool for a while and *)
(* answers, and Register and Login hand out an access token.               *)
(***************************************************************************)
EXTENDS Naturals, FiniteSets

CONSTANTS
  Slots,         \* RPCs that are under way at the same time
  Users,
  Keys,          \* values of SECRET_KEY, other than the empty one
  Outstanding,   \* access tokens handed out before the first start
  Asked,         \* the methods clients call
  Failures,      \* what may fail
  AccessTokenExpire, jwtLeeway,  \* of package tokens, in ticks of the clock
  MaxTime,       \* bound: ticks
  MaxTokens,     \* bound: access tokens
  NoToken,       \* a call without authorization header
  NoUser,
  Unset          \* a flag or an environment variable that is not given

FailureKinds == {"Connect", "Migrate", "Ping", "Creds", "Listen", "Query", "Crash"}

\* The files under sql/migrations.
Migrations == 2

(***************************************************************************)
(* The service descriptors.                                                *)
(***************************************************************************)
KeeperMethods == {"List", "Delete"}
KeeperStreams == {"Sync", "Add", "Get"}
AuthMethods   == {"Register", "Login", "Logout"}
HealthMethods == {"Ping"}

Unary   == KeeperMethods \cup AuthMethods \cup HealthMethods
Methods == Unary \cup KeeperStreams

Tokens == [user : Users, key : Keys \cup {""},
           exp : 0 .. MaxTime + AccessTokenExpire]

ASSUME ServerAssumption ==
  /\ Failures \subseteq FailureKinds
  /\ Asked \subseteq Methods
  /\ AccessTokenExpire \in Nat
  /\ jwtLeeway \in Nat
  /\ MaxTime \in Nat
  /\ MaxTokens \in Nat
  /\ Outstanding \subseteq Tokens
  /\ NoUser \notin Users
  /\ NoToken \notin Tokens
  /\ Unset \notin Keys \cup {"", "dsn"}

VARIABLES
  \* what outlives the process
  applied,   \* migrations the database has
  version,   \* schema_migrations: the version
  dirty,     \* schema_migrations: the flag
  now,       \* the clock
  tokens,    \* access tokens handed out
  \* the process
  phase,     \* how far run is
  dsn, key,  \* its configuration
  err,       \* Fluent.err is not nil
  serve,     \* the goroutine of Serve
  notified,  \* signal.Notify has been called
  stop,      \* the goroutine of GracefulStop
  \* the RPCs
  rpc,       \* what each slot does
  ans,       \* how the last RPC of the slot ended
  \* history, for the properties only
  outcome    \* how the process ends or has ended

disk    == <<applied, version, dirty>>
clock   == <<now, tokens>>
config  == <<dsn, key>>
process == <<phase, config, err, serve, notified, stop>>
calls   == <<rpc, ans>>
vars    == <<disk, clock, process, calls, outcome>>

Free == [st |-> "free", m |-> "None", tok |-> NoToken, user |-> NoUser]

TypeOK ==
  /\ applied \in 0 .. Migrations
  /\ version \in 0 .. Migrations
  /\ dirty \in BOOLEAN
  /\ now \in 0 .. MaxTime
  /\ tokens \subseteq Tokens
  /\ phase \in {"down", "connect", "migrate", "apply", "clean", "ping", "result",
                "setup", "run", "stopping", "closing"}
  /\ dsn \in {"", "dsn"}
  /\ key \in Keys \cup {""}
  /\ err \in BOOLEAN
  /\ serve \in {"off", "starting", "serving", "failed"}
  /\ notified \in BOOLEAN
  /\ stop \in {"off", "draining", "done"}
  /\ rpc \in [Slots -> [st : {"free", "open", "unary", "stream", "handler", "db"},
                        m : Methods \cup {"None"}, tok : Tokens \cup {NoToken},
                        user : Users \cup {NoUser}]]
  /\ ans \in [Slots -> {"None", "OK", "Internal", "Unauthenticated", "Lost"}]
  /\ outcome \in {"None", "failed", "killed", "panicked", "graceful", "timeout"}

\* A fresh database and no process.
Init ==
  /\ applied = 0
  /\ version = 0
  /\ dirty = FALSE
  /\ now = 0
  /\ tokens = Outstanding
  /\ phase = "down"
  /\ dsn = ""
  /\ key = ""
  /\ err = FALSE
  /\ serve = "off"
  /\ notified = FALSE
  /\ stop = "off"
  /\ rpc = [s \in Slots |-> Free]
  /\ ans = [s \in Slots |-> "None"]
  /\ outcome = "None"

-----------------------------------------------------------------------------
(***************************************************************************)
(* The end of a process, whatever the reason: the RPCs under way are lost. *)
(***************************************************************************)
End(how) ==
  /\ phase' = "down"
  /\ dsn' = ""
  /\ key' = ""
  /\ err' = FALSE
  /\ serve' = "off"
  /\ notified' = FALSE
  /\ stop' = "off"
  /\ rpc' = [s \in Slots |-> Free]
  /\ ans' = [s \in Slots |-> IF rpc[s].st = "free" THEN ans[s] ELSE "Lost"]
  /\ outcome' = how
  /\ UNCHANGED <<disk, clock>>

Crash ==
  /\ "Crash" \in Failures
  /\ phase # "down"
  /\ End("killed")

-----------------------------------------------------------------------------
(***************************************************************************)
(* Start: Builder, then dbConnect with the chain of Fluent.                *)
(***************************************************************************)

\* Mutant of Setting: FromFlags has no default for what FromEnv left out.
Setting_NoDefault(flag, env, default) == IF flag # Unset THEN flag ELSE env

\* FromEnv, then FromFlags, whose default is what FromEnv has found.
Setting(flag, env, default) ==
  IF flag # Unset THEN flag ELSE IF env # Unset THEN env ELSE default

Start ==
  /\ phase = "down"
  /\ phase' = "connect"
  /\ \E flag, env \in {Unset, "dsn"} : dsn' = Setting(flag, env, "")
  /\ \E flag, env \in {Unset} \cup Keys : key' = Setting(flag, env, "")
  /\ ans' = [s \in Slots |-> "None"]
  /\ outcome' = "None"
  /\ UNCHANGED <<disk, clock, err, serve, notified, stop, rpc>>

\* One call of the chain: nothing after an error, else the method itself.
Chained(from, to, fails, kind) ==
  /\ phase = from
  /\ phase' = to
  /\ \/ err' = (err \/ fails)
     \/ kind \in Failures /\ err' = TRUE
  /\ UNCHANGED <<disk, clock, config, serve, notified, stop, calls, outcome>>

\* DBManager.Connect: an empty or wrong DSN, no pool.
Connect == Chained("connect", "migrate", dsn = "", "Connect")

\* DBManager.ApplyMigrations, where there is nothing to apply: an earlier
\* error, a dirty schema (migrate.ErrDirty), or migrate.ErrNoChange.
ApplyMigrations ==
  /\ err \/ dirty \/ version = Migrations
  /\ Chained("migrate", "ping", dirty, "Migrate")

\* migrate.Up, one file: the version is written first, marked dirty; the file
\* runs in one transaction; the mark goes.  Each of the three may fail.
SetVersion ==
  /\ phase = "migrate"
  /\ ~ err
  /\ ~ dirty
  /\ version < Migrations
  /\ version' = version + 1
  /\ dirty' = TRUE
  /\ phase' = "apply"
  /\ UNCHANGED <<applied, clock, config, err, serve, notified, stop, calls, outcome>>

RunMigration ==
  /\ phase = "apply"
  /\ applied' = version
  /\ phase' = "clean"
  /\ UNCHANGED <<version, dirty, clock, config, err, serve, notified, stop, calls, outcome>>

SetClean ==
  /\ phase = "clean"
  /\ dirty' = FALSE
  /\ phase' = "migrate"
  /\ UNCHANGED <<applied, version, clock, config, err, serve, notified, stop, calls, outcome>>

MigrateFault ==
  /\ "Migrate" \in Failures
  /\ phase \in {"migrate", "apply", "clean"}
  /\ ~ err
  /\ err' = TRUE
  /\ phase' = "ping"
  /\ UNCHANGED <<disk, clock, config, serve, notified, stop, calls, outcome>>

\* Mutant of Ping: the error of the ping replaces the one before it.
Ping_Overwrites ==
  /\ phase = "ping"
  /\ phase' = "result"
  /\ err' \in {FALSE} \cup {TRUE : f \in Failures \cap {"Ping"}}
  /\ UNCHANGED <<disk, clock, config, serve, notified, stop, calls, outcome>>

\* DBManager.Ping fails when the database does not answer within what is left
\* of RepoOperationTO, which has been running since Connect.
Ping == Chained("ping", "result", FALSE, "Ping")

\* run returns when dbConnect failed: no Close of the pool.
ConnectFailed ==
  /\ phase = "result"
  /\ err
  /\ End("failed")

DbConnected ==
  /\ phase = "result"
  /\ ~ err
  /\ phase' = "setup"
  /\ UNCHANGED <<disk, clock, config, err, serve, notified, stop, calls, outcome>>

-----------------------------------------------------------------------------
(***************************************************************************)
(* Server.Setup, Serve and Stop, and run around them.                      *)
(***************************************************************************)

\* Setup is done: run starts the goroutines of Serve and of the signal.
Setup ==
  /\ phase = "setup"
  /\ phase' = "run"
  /\ serve' = "starting"
  /\ UNCHANGED <<disk, clock, config, err, notified, stop, calls, outcome>>

\* Setup fails (loadCredentials): run closes the pool and returns.
SetupFault ==
  /\ phase = "setup"
  /\ "Creds" \in Failures
  /\ phase' = "closing"
  /\ outcome' = "failed"
  /\ UNCHANGED <<disk, clock, config, err, serve, notified, stop, calls>>

\* net.Listen, then grpcServer.Serve, which a stopped server refuses.
Serve ==
  /\ serve = "starting"
  /\ serve' = IF stop = "off" THEN "serving" ELSE "failed"
  /\ UNCHANGED <<disk, clock, phase, config, err, notified, stop, calls, outcome>>

\* net.Listen fails: logged, and run goes on waiting for the signal.
ServeFault ==
  /\ serve = "starting"
  /\ "Listen" \in Failures
  /\ serve' = "failed"
  /\ UNCHANGED <<disk, clock, phase, config, err, notified, stop, calls, outcome>>

Notify ==
  /\ phase = "run"
  /\ ~ notified
  /\ notified' = TRUE
  /\ UNCHANGED <<disk, clock, phase, config, err, serve, stop, calls, outcome>>

\* SIGINT or SIGTERM: before Notify it ends the process; after it, it wakes
\* run, which calls Stop, which starts the goroutine of GracefulStop.
SignalEarly ==
  /\ phase # "down"
  /\ ~ notified
  /\ End("killed")

Signal ==
  /\ phase = "run"
  /\ notified
  /\ phase' = "stopping"
  /\ stop' = "draining"
  /\ UNCHANGED <<disk, clock, config, err, serve, notified, calls, outcome>>

InFlight == {s \in Slots : rpc[s].st # "free"}

\* Mutant of GracefulStop: done is signalled before the RPCs are waited for.
GracefulStop_DoneFirst ==
  /\ stop = "draining"
  /\ stop' = "done"
  /\ UNCHANGED <<disk, clock, phase, config, err, serve, notified, calls, outcome>>

\* GracefulStop returns when every RPC has ended, and done is signalled.
GracefulStop ==
  /\ stop = "draining"
  /\ InFlight = {}
  /\ stop' = "done"
  /\ UNCHANGED <<disk, clock, phase, config, err, serve, notified, calls, outcome>>

\* Mutant of Stop: there is no case for the context.
Stop_NoTimeout ==
  /\ phase = "stopping"
  /\ phase' = "closing"
  /\ stop = "done" /\ outcome' = "graceful"
  /\ UNCHANGED <<disk, clock, config, err, serve, notified, stop, calls>>

\* The select of Stop: done, or the end of the context after stopTO.  Either
\* way run returns, and the deferred Close of the pool begins.
Stop ==
  /\ phase = "stopping"
  /\ phase' = "closing"
  /\ \/ stop = "done" /\ outcome' = "graceful"
     \/ outcome' = "timeout"
  /\ UNCHANGED <<disk, clock, config, err, serve, notified, stop, calls>>

\* pool.Close returns when no handler holds a connection; run is over.
Exit ==
  /\ phase = "closing"
  /\ \A s \in Slots : rpc[s].st # "db"
  /\ End(outcome)

-----------------------------------------------------------------------------
(***************************************************************************)
(* An RPC.                                                                 *)
(***************************************************************************)
Issuing == {s \in Slots : rpc[s].m \in {"Register", "Login"}}

\* A client can sign a token itself for a server whose key is empty.
Forgeable == {t \in Tokens : t.key = ""}

\* A client opens an RPC, with a token it was given or has made, or without.
Open(s) ==
  /\ serve = "serving"
  /\ stop = "off"
  /\ rpc[s].st = "free"
  /\ \E m \in Asked, t \in tokens \cup Forgeable \cup {NoToken} :
       /\ m \in {"Register", "Login"} =>
            Cardinality(tokens) + Cardinality(Issuing) < MaxTokens
       /\ rpc' = [rpc EXCEPT ![s] = [Free EXCEPT !.st = "open", !.m = m, !.tok = t]]
  /\ ans' = [ans EXCEPT ![s] = "None"]
  /\ UNCHANGED <<disk, clock, process, outcome>>

Move(s, state) ==
  /\ rpc' = [rpc EXCEPT ![s].st = state]
  /\ UNCHANGED <<disk, clock, process, ans, outcome>>

Reply(s, code) ==
  /\ rpc' = [rpc EXCEPT ![s] = Free]
  /\ ans' = [ans EXCEPT ![s] = code]

\* The request of the client arrives, or never does: the stubs of unary RPCs
\* and of Sync and Get read it before anything else.
ReceiveKeeper(s) ==
  /\ rpc[s].st = "open"
  /\ \/ rpc[s].m \in KeeperMethods /\ Move(s, "unary")
     \/ rpc[s].m \in KeeperStreams \ {"Add"} /\ Move(s, "stream")

\* The stub of Add hands its stream to Add without reading.
CallAdd(s) ==
  /\ rpc[s].st = "open"
  /\ rpc[s].m = "Add"
  /\ Move(s, "stream")

ReceiveAuth(s) ==
  /\ rpc[s].st = "open"
  /\ rpc[s].m \in AuthMethods
  /\ Move(s, "unary")

ReceiveHealth(s) ==
  /\ rpc[s].st = "open"
  /\ rpc[s].m \in HealthMethods
  /\ Move(s, "unary")

\* The client goes away instead: the stub returns the error of its read.
Hangup(s) ==
  /\ rpc[s].st = "open"
  /\ rpc[s].m # "Add"
  /\ Reply(s, "None")
  /\ UNCHANGED <<disk, clock, process, outcome>>

\* The signature of this server's key, and the expiry with its leeway.
CheckAccessToken(t) == t.key = key /\ now < t.exp + jwtLeeway

\* The interceptor: only unary RPCs pass it, all of them do.
Intercept(s) ==
  /\ rpc[s].st = "unary"
  /\ rpc[s].tok # NoToken
  /\ \/ /\ CheckAccessToken(rpc[s].tok)
        /\ rpc' = [rpc EXCEPT ![s].st = "handler", ![s].user = rpc[s].tok.user]
        /\ UNCHANGED ans
     \/ ~ CheckAccessToken(rpc[s].tok) /\ Reply(s, "Unauthenticated")
  /\ UNCHANGED <<disk, clock, process, outcome>>

\* It indexes the header before it looks whether there is one.
InterceptPanic(s) ==
  /\ rpc[s].st = "unary"
  /\ rpc[s].tok = NoToken
  /\ End("panicked")

\* No interceptor runs for streams: Add, Get and Sync find no user.
Stream(s) ==
  /\ rpc[s].st = "stream"
  /\ Reply(s, "Unauthenticated")
  /\ UNCHANGED <<disk, clock, process, outcome>>

\* The handler takes a connection, or finds the pool closed.
Acquire(s) ==
  /\ rpc[s].st = "handler"
  /\ phase # "closing"
  /\ Move(s, "db")

AcquireClosed(s) ==
  /\ rpc[s].st = "handler"
  /\ phase = "closing"
  /\ Reply(s, "Internal")
  /\ UNCHANGED <<disk, clock, process, outcome>>

GenerateAccessToken(u) == [user |-> u, key |-> key, exp |-> now + AccessTokenExpire]

\* The handler answers; Register and Login with a token for some user.
Handle(s) ==
  /\ rpc[s].st = "db"
  /\ Reply(s, "OK")
  /\ IF rpc[s].m \in {"Register", "Login"}
     THEN \E u \in Users : tokens' = tokens \cup {GenerateAccessToken(u)}
     ELSE UNCHANGED tokens
  /\ UNCHANGED <<disk, now, process, outcome>>

HandleFault(s) ==
  /\ rpc[s].st = "db"
  /\ "Query" \in Failures
  /\ Reply(s, "Internal")
  /\ UNCHANGED <<disk, clock, process, outcome>>

Tick ==
  /\ now < MaxTime
  /\ now' = now + 1
  /\ UNCHANGED <<disk, tokens, process, calls, outcome>>

-----------------------------------------------------------------------------
Startup ==
  \/ Connect \/ ApplyMigrations \/ SetVersion \/ RunMigration \/ SetClean
  \/ MigrateFault \/ Ping \/ ConnectFailed \/ DbConnected
  \/ Setup \/ SetupFault \/ Notify

ServeStep == Serve \/ ServeFault

Receive(s) == ReceiveKeeper(s) \/ ReceiveAuth(s) \/ ReceiveHealth(s) \/ Hangup(s)

Handler(s) ==
  \/ CallAdd(s) \/ Intercept(s) \/ InterceptPanic(s) \/ Stream(s)
  \/ Acquire(s) \/ AcquireClosed(s) \/ Handle(s) \/ HandleFault(s)

Next ==
  \/ Start \/ Startup \/ ServeStep \/ Signal \/ SignalEarly
  \/ GracefulStop \/ Stop \/ Exit \/ Crash \/ Tick
  \/ \E s \in Slots : Open(s) \/ Receive(s) \/ Handler(s)

Spec == Init /\ [][Next]_vars

\* Goroutines run, statements end with their context, and the context of Stop
\* expires.  Nobody has to send a signal, to start the server, to call it or
\* to send the request of an RPC that was opened.
FairSpec ==
  /\ Spec
  /\ WF_vars(Startup) /\ WF_vars(ServeStep)
  /\ WF_vars(GracefulStop) /\ WF_vars(Stop) /\ WF_vars(Exit)
  /\ \A s \in Slots : WF_vars(Handler(s))

-----------------------------------------------------------------------------
(***************************************************************************)
(* Properties.                                                             *)
(***************************************************************************)

\* Clients are served only on a complete schema: not after a migration that
\* failed or died half way, in this process or an earlier one, and not after an
\* earlier link of the chain of Fluent has failed.
ServesMigrated ==
  serve = "serving" => applied = Migrations /\ ~ dirty /\ dsn # "" /\ ~ err

\* A Stop that returned nil has answered every RPC: none is lost with the
\* process, and none is left to find the pool closed under it.
GracefulMeansAnswered ==
  outcome = "graceful" => InFlight = {} /\ \A s \in Slots : ans[s] # "Lost"

\* A shutdown ends, though clients may have opened RPCs whose request never
\* comes and GracefulStop then waits for them for ever.
ShutdownEnds == phase = "stopping" ~> phase = "down"

-----------------------------------------------------------------------------
(***************************************************************************)
(* A claim the code departs from.                                          *)
(***************************************************************************)

\* auth.proto: Register and Login return the tokens that authorize the requests
\* after them, so they are called without one.  Where clients call nothing else,
\* no RPC is lost to a panic.
NewcomersAreServed ==
  \A s \in Slots : ans[s] = "Lost" => outcome # "panicked"
=============================================================================
