---------------------------- MODULE ServerProofs ----------------------------
(***************************************************************************)
(* Proofs about Server, for any number of RPCs under way, any users, keys, *)
(* tokens and failures, and any bounds.                                    *)
(***************************************************************************)
EXTENDS Server, TLAPS

(***************************************************************************)
(* Types, in the parts the actions leave alone together.                   *)
(***************************************************************************)
RpcRecords ==
  [st : {"free", "open", "unary", "stream", "handler", "db"},
   m : Methods \cup {"None"}, tok : Tokens \cup {NoToken},
   user : Users \cup {NoUser}]

Answers == {"None", "OK", "Internal", "Unauthenticated", "Lost"}

Outcomes == {"None", "failed", "killed", "panicked", "graceful", "timeout"}

DiskTypes ==
  /\ applied \in 0 .. Migrations
  /\ version \in 0 .. Migrations
  /\ dirty \in BOOLEAN

ClockTypes ==
  /\ now \in 0 .. MaxTime
  /\ tokens \subseteq Tokens

ProcessTypes ==
  /\ phase \in {"down", "connect", "migrate", "apply", "clean", "ping", "result",
                "setup", "run", "stopping", "closing"}
  /\ dsn \in {"", "dsn"}
  /\ key \in Keys \cup {""}
  /\ err \in BOOLEAN
  /\ serve \in {"off", "starting", "serving", "failed"}
  /\ notified \in BOOLEAN
  /\ stop \in {"off", "draining", "done"}

CallTypes ==
  /\ rpc \in [Slots -> RpcRecords]
  /\ ans \in [Slots -> Answers]
  /\ outcome \in Outcomes

\* TypeOK is the conjunction of its parts.
LEMMA Parts == TypeOK <=> DiskTypes /\ ClockTypes /\ ProcessTypes /\ CallTypes
BY DEF TypeOK, DiskTypes, ClockTypes, ProcessTypes, CallTypes, RpcRecords, Answers,
       Outcomes

\* And so it is in the next state.
LEMMA PartsNext ==
  TypeOK' <=> DiskTypes' /\ ClockTypes' /\ ProcessTypes' /\ CallTypes'
BY DEF TypeOK, DiskTypes, ClockTypes, ProcessTypes, CallTypes, RpcRecords, Answers,
       Outcomes

\* A slot without an RPC is well typed.
LEMMA FreeType == Free \in RpcRecords
BY DEF Free, RpcRecords

\* The end of the process leaves well-typed variables behind.
LEMMA EndTypes ==
  ASSUME TypeOK, NEW how \in Outcomes, End(how)
  PROVE  TypeOK'
<1>1. ProcessTypes'
  BY DEF End, ProcessTypes
<1>2. CallTypes'
  BY FreeType, Parts DEF End, CallTypes, Answers
<1>3. DiskTypes' /\ ClockTypes'
  BY Parts DEF End, disk, clock, DiskTypes, ClockTypes
<1> QED
  BY <1>1, <1>2, <1>3, PartsNext

\* So does a call of the chain of Fluent.
LEMMA ChainedTypes ==
  ASSUME TypeOK, NEW from, NEW to \in {"migrate", "ping", "result"},
         NEW fails \in BOOLEAN, NEW kind, Chained(from, to, fails, kind)
  PROVE  TypeOK'
<1>1. UNCHANGED <<disk, clock, config, serve, notified, stop, calls, outcome>>
  BY DEF Chained
<1>2. err' \in BOOLEAN /\ phase' = to
  BY Parts DEF Chained, ProcessTypes
<1> QED
  BY <1>1, <1>2, Parts, PartsNext DEF disk, clock, config, calls, DiskTypes, ClockTypes,
     ProcessTypes, CallTypes

\* And an RPC that goes on, or is answered.
LEMMA MoveTypes ==
  ASSUME TypeOK, NEW s \in Slots,
         NEW state \in {"unary", "stream", "db"}, Move(s, state)
  PROVE  TypeOK'
<1>1. rpc[s] \in RpcRecords
  BY Parts DEF CallTypes
<1>2. [rpc[s] EXCEPT !.st = state] \in RpcRecords
  BY <1>1 DEF RpcRecords
<1>3. CallTypes'
  BY <1>2, Parts DEF Move, CallTypes
<1> QED
  BY <1>3, Parts, PartsNext DEF Move, disk, clock, process, config, DiskTypes, ClockTypes,
     ProcessTypes

LEMMA ReplyTypes ==
  ASSUME TypeOK, NEW s \in Slots, NEW code \in Answers, Reply(s, code),
         UNCHANGED outcome
  PROVE  CallTypes'
BY FreeType, Parts DEF Reply, CallTypes

\* A new access token is one.
LEMMA IssuedType ==
  ASSUME TypeOK, NEW u \in Users
  PROVE  GenerateAccessToken(u) \in Tokens
<1>1. now \in 0 .. MaxTime /\ key \in Keys \cup {""}
  BY Parts DEF ClockTypes, ProcessTypes
<1>2. MaxTime \in Nat /\ AccessTokenExpire \in Nat
  BY ServerAssumption
<1>3. now + AccessTokenExpire \in 0 .. (MaxTime + AccessTokenExpire)
  <2>1. now \in 0 .. MaxTime
    BY <1>1
  <2> QED
    BY <1>2, <2>1
<1> QED
  BY <1>1, <1>3 DEF GenerateAccessToken, Tokens

\* Steps of the database and of the process that leave clock and RPCs alone.
LEMMA QuietTypes ==
  ASSUME TypeOK, UNCHANGED <<clock, calls>>, DiskTypes', ProcessTypes',
         outcome' \in Outcomes
  PROVE  TypeOK'
BY Parts, PartsNext DEF clock, calls, ClockTypes, CallTypes

LEMMA ChainTypes ==
  ASSUME TypeOK, Connect \/ ApplyMigrations \/ Ping
  PROVE  TypeOK'
<1>1. CASE Connect
  BY <1>1, ChainedTypes DEF Connect
<1>2. CASE ApplyMigrations
  <2>1. dirty \in BOOLEAN
    BY Parts DEF DiskTypes
  <2> QED
    BY <1>2, <2>1, ChainedTypes DEF ApplyMigrations
<1>3. CASE Ping
  BY <1>3, ChainedTypes DEF Ping
<1> QED
  BY <1>1, <1>2, <1>3

LEMMA StartupTypes ==
  ASSUME TypeOK, Startup \/ ServeStep \/ Signal \/ GracefulStop \/ Stop
  PROVE  TypeOK'
<1> USE DEF DiskTypes, ProcessTypes, disk, clock, config, calls
<1>0. DiskTypes /\ ClockTypes /\ ProcessTypes /\ CallTypes
  BY Parts
<1>00. outcome \in Outcomes
  BY <1>0 DEF CallTypes
<1>1. CASE Connect \/ ApplyMigrations \/ Ping
  BY <1>1, ChainTypes
<1>2. CASE SetVersion
  <2>1. version + 1 \in 0 .. Migrations
    <3>1. version \in 0 .. Migrations /\ version < Migrations
      BY <1>0, <1>2 DEF SetVersion
    <3> QED
      BY <3>1 DEF Migrations
  <2>2. DiskTypes'
    BY <1>0, <1>2, <2>1 DEF SetVersion
  <2>3. ProcessTypes' /\ UNCHANGED <<clock, calls, outcome>>
    BY <1>0, <1>2 DEF SetVersion
  <2> QED
    BY <1>00, <2>2, <2>3, QuietTypes
<1>3. CASE RunMigration
  BY <1>0, <1>00, <1>3, QuietTypes DEF RunMigration
<1>4. CASE SetClean
  BY <1>0, <1>00, <1>4, QuietTypes DEF SetClean
<1>5. CASE MigrateFault
  BY <1>0, <1>00, <1>5, QuietTypes DEF MigrateFault
<1>6. CASE ConnectFailed
  BY <1>6, EndTypes DEF ConnectFailed, Outcomes
<1>7. CASE DbConnected
  BY <1>0, <1>00, <1>7, QuietTypes DEF DbConnected
<1>8. CASE Setup
  BY <1>0, <1>00, <1>8, QuietTypes DEF Setup
<1>9. CASE SetupFault
  BY <1>0, <1>9, QuietTypes DEF SetupFault, Outcomes
<1>10. CASE Notify
  BY <1>0, <1>00, <1>10, QuietTypes DEF Notify
<1>11. CASE Serve
  BY <1>0, <1>00, <1>11, QuietTypes DEF Serve
<1>12. CASE ServeFault
  BY <1>0, <1>00, <1>12, QuietTypes DEF ServeFault
<1>13. CASE Signal
  BY <1>0, <1>00, <1>13, QuietTypes DEF Signal
<1>14. CASE GracefulStop
  BY <1>0, <1>00, <1>14, QuietTypes DEF GracefulStop
<1>15. CASE Stop
  BY <1>0, <1>15, QuietTypes DEF Stop, Outcomes
<1> QED
  BY <1>1, <1>2, <1>3, <1>4, <1>5, <1>6, <1>7, <1>8, <1>9, <1>10, <1>11, <1>12,
     <1>13, <1>14, <1>15 DEF Startup, ServeStep

\* The steps of an RPC.
LEMMA RpcTypes ==
  ASSUME TypeOK, NEW s \in Slots, Open(s) \/ Receive(s) \/ Handler(s)
  PROVE  TypeOK'
<1>0. DiskTypes /\ ClockTypes /\ ProcessTypes /\ CallTypes
  BY Parts
<1> DEFINE Others == UNCHANGED <<disk, clock, process, outcome>>
<1>00. ASSUME Others, CallTypes' PROVE TypeOK'
  BY <1>0, <1>00, PartsNext DEF disk, clock, process, config, DiskTypes, ClockTypes,
     ProcessTypes
<1>1. CASE Open(s)
  <2>1. PICK m \in Asked, t \in tokens \cup Forgeable \cup {NoToken} :
          rpc' = [rpc EXCEPT ![s] = [Free EXCEPT !.st = "open", !.m = m, !.tok = t]]
    BY <1>1 DEF Open
  <2>2. m \in Methods /\ t \in Tokens \cup {NoToken}
    BY <1>0, ServerAssumption DEF ClockTypes, Forgeable
  <2>3. [Free EXCEPT !.st = "open", !.m = m, !.tok = t] \in RpcRecords
    BY <2>2, FreeType DEF RpcRecords
  <2>4. Others /\ ans' = [ans EXCEPT ![s] = "None"]
    BY <1>1 DEF Open
  <2>5. CallTypes'
    BY <1>0, <2>1, <2>3, <2>4 DEF CallTypes, Answers
  <2> QED
    BY <1>00, <2>4, <2>5
<1>2. CASE Hangup(s)
  BY <1>00, <1>2, ReplyTypes DEF Hangup, Answers
<1>3. CASE ReceiveKeeper(s) \/ ReceiveAuth(s) \/ ReceiveHealth(s) \/ CallAdd(s)
  BY <1>3, MoveTypes DEF ReceiveKeeper, ReceiveAuth, ReceiveHealth, CallAdd
<1>4. CASE Intercept(s)
  <2>1. CASE Reply(s, "Unauthenticated")
    BY <1>00, <1>4, <2>1, ReplyTypes DEF Intercept, Answers
  <2>2. CASE /\ rpc' = [rpc EXCEPT ![s].st = "handler", ![s].user = rpc[s].tok.user]
             /\ UNCHANGED ans
    <3>1. rpc[s] \in RpcRecords /\ rpc[s].tok # NoToken
      BY <1>0, <1>4 DEF CallTypes, Intercept
    <3>2. rpc[s].tok.user \in Users
      BY <3>1 DEF RpcRecords, Tokens
    <3>3. [rpc[s] EXCEPT !.st = "handler", !.user = rpc[s].tok.user] \in RpcRecords
      BY <3>1, <3>2 DEF RpcRecords
    <3>4. rpc' \in [Slots -> RpcRecords]
      BY <1>0, <2>2, <3>3 DEF CallTypes
    <3>5. CallTypes' /\ Others
      BY <1>0, <1>4, <2>2, <3>4 DEF CallTypes, Intercept
    <3> QED
      BY <1>00, <3>5
  <2> QED
    BY <1>4, <2>1, <2>2 DEF Intercept
<1>5. CASE InterceptPanic(s)
  BY <1>5, EndTypes DEF InterceptPanic, Outcomes
<1>6. CASE Stream(s)
  BY <1>00, <1>6, ReplyTypes DEF Stream, Answers
<1>7. CASE Acquire(s)
  BY <1>7, MoveTypes DEF Acquire
<1>8. CASE AcquireClosed(s)
  BY <1>00, <1>8, ReplyTypes DEF AcquireClosed, Answers
<1>9. CASE Handle(s)
  <2>1. CallTypes'
    BY <1>9, ReplyTypes DEF Handle, Answers
  <2>2. tokens' \subseteq Tokens
    BY <1>0, <1>9, IssuedType DEF Handle, ClockTypes
  <2>3. UNCHANGED <<disk, now, process>>
    BY <1>9 DEF Handle
  <2> QED
    BY <1>0, <2>1, <2>2, <2>3, PartsNext DEF disk, process, config, DiskTypes,
       ClockTypes, ProcessTypes
<1>10. CASE HandleFault(s)
  BY <1>00, <1>10, ReplyTypes DEF HandleFault, Answers
<1> QED
  BY <1>1, <1>2, <1>3, <1>4, <1>5, <1>6, <1>7, <1>8, <1>9, <1>10 DEF Receive, Handler

\* Every step keeps the types.
LEMMA NextTypes ==
  ASSUME TypeOK, [Next]_vars
  PROVE  TypeOK'
<1>0. DiskTypes /\ ClockTypes /\ ProcessTypes /\ CallTypes
  BY Parts
<1>1. CASE Start
  <2>1. ProcessTypes'
    BY <1>0, <1>1, ServerAssumption DEF Start, Setting, ProcessTypes
  <2>2. CallTypes'
    BY <1>0, <1>1 DEF Start, CallTypes, Answers, Outcomes
  <2>3. UNCHANGED <<disk, clock>>
    BY <1>1 DEF Start
  <2> QED
    BY <1>0, <2>1, <2>2, <2>3, PartsNext DEF disk, clock, DiskTypes, ClockTypes
<1>2. CASE Startup \/ ServeStep \/ Signal \/ GracefulStop \/ Stop
  BY <1>2, StartupTypes
<1>3. CASE SignalEarly \/ Exit \/ Crash
  <2>1. outcome \in Outcomes
    BY <1>0 DEF CallTypes
  <2> QED
    BY <1>3, <2>1, EndTypes DEF SignalEarly, Exit, Crash, Outcomes
<1>4. CASE Tick
  <2>1. MaxTime \in Nat /\ now \in 0 .. MaxTime /\ now < MaxTime /\ now' = now + 1
    BY <1>0, <1>4, ServerAssumption DEF Tick, ClockTypes
  <2>2. now' \in 0 .. MaxTime
    BY <2>1
  <2> QED
    BY <1>0, <1>4, <2>2, PartsNext DEF Tick, disk, process, config, calls, DiskTypes,
       ClockTypes, ProcessTypes, CallTypes
<1>5. CASE \E s \in Slots : Open(s) \/ Receive(s) \/ Handler(s)
  BY <1>5, RpcTypes
<1>6. CASE UNCHANGED vars
  BY <1>0, <1>6, PartsNext DEF vars, disk, clock, process, config, calls, DiskTypes,
     ClockTypes, ProcessTypes, CallTypes
<1> QED
  BY <1>1, <1>2, <1>3, <1>4, <1>5, <1>6 DEF Next

LEMMA InitTypes == Init => TypeOK
<1> SUFFICES ASSUME Init PROVE TypeOK
  OBVIOUS
<1>1. MaxTime \in Nat /\ Outstanding \subseteq Tokens
  BY ServerAssumption
<1>2. 0 \in 0 .. MaxTime /\ 0 \in 0 .. Migrations
  BY <1>1 DEF Migrations
<1>3. DiskTypes /\ ClockTypes /\ ProcessTypes
  BY <1>1, <1>2 DEF Init, DiskTypes, ClockTypes, ProcessTypes
<1>4. CallTypes
  BY FreeType DEF Init, CallTypes, Answers, Outcomes
<1> QED
  BY <1>3, <1>4, Parts

\* Every reachable state of the server is well typed.
THEOREM TypeCorrect == Spec => []TypeOK
BY InitTypes, NextTypes, PTL DEF Spec

-----------------------------------------------------------------------------
(***************************************************************************)
(* The inductive invariant.  ServesMigrated speaks of the end of the start *)
(* only; what carries it is how far the start has come without an error,   *)
(* and that version and applied agree whenever the schema is not dirty.    *)
(***************************************************************************)
Migrated ==
  /\ ~ dirty => applied = version
  /\ phase = "clean" => applied = version
  /\ phase \in {"migrate", "apply", "clean", "ping", "result"} /\ ~ err => dsn # ""
  /\ phase \in {"ping", "result"} /\ ~ err => ~ dirty /\ version = Migrations
  /\ phase \in {"setup", "run", "stopping", "closing"} =>
       ~ err /\ ~ dirty /\ version = Migrations /\ dsn # ""
  /\ serve # "off" => phase \in {"run", "stopping", "closing"}

\* No RPC without a process; once done is signalled there is none and no new
\* one comes; what is lost is lost with a process that has ended.
Drained ==
  /\ phase = "down" => InFlight = {}
  /\ serve # "off" => phase # "down"
  /\ stop # "off" => phase \in {"stopping", "closing"}
  /\ stop = "done" => InFlight = {}
  /\ phase # "down" => \A s \in Slots : ans[s] # "Lost"
  /\ outcome = "graceful" =>
       \/ phase = "closing" /\ stop = "done"
       \/ phase = "down" /\ \A s \in Slots : ans[s] # "Lost"

IndInv == TypeOK /\ Migrated /\ Drained

\* What a step of an RPC leaves alone.
LEMMA RpcFrame ==
  ASSUME NEW s \in Slots, Open(s) \/ Receive(s) \/ Handler(s)
  PROVE  \/ UNCHANGED <<disk, process, outcome>>
         \/ End("panicked")
BY DEF Open, Receive, Handler, ReceiveKeeper, ReceiveAuth, ReceiveHealth, Hangup,
       CallAdd, Intercept, InterceptPanic, Stream, Acquire, AcquireClosed, Handle,
       HandleFault, Move, disk, process, config

\* The schema behind a serving process, step by step.
LEMMA NextMigrated ==
  ASSUME TypeOK, Migrated, [Next]_vars
  PROVE  Migrated'
<1> USE DEF Migrated
<1>0. err \in BOOLEAN /\ dirty \in BOOLEAN
  BY Parts DEF ProcessTypes, DiskTypes
<1>1. ASSUME NEW how, End(how) PROVE Migrated'
  BY <1>1 DEF End, disk
<1>2. ASSUME UNCHANGED <<disk, process>> PROVE Migrated'
  BY <1>2 DEF disk, process, config
<1>3. CASE Start
  <2>1. serve = "off"
    BY <1>3 DEF Start
  <2> QED
    BY <1>3, <2>1 DEF Start, disk
<1>4. CASE Connect
  BY <1>0, <1>4 DEF Connect, Chained, disk, config
<1>5. CASE ApplyMigrations
  BY <1>0, <1>5 DEF ApplyMigrations, Chained, disk, config
<1>6. CASE SetVersion
  BY <1>0, <1>6 DEF SetVersion, config
<1>7. CASE RunMigration
  BY <1>0, <1>7 DEF RunMigration, config
<1>8. CASE SetClean
  BY <1>0, <1>8 DEF SetClean, config
<1>9. CASE MigrateFault
  BY <1>0, <1>9 DEF MigrateFault, disk, config
<1>10. CASE Ping
  BY <1>0, <1>10 DEF Ping, Chained, disk, config
<1>11. CASE ConnectFailed \/ SignalEarly \/ Exit \/ Crash
  BY <1>1, <1>11 DEF ConnectFailed, SignalEarly, Exit, Crash
<1>12. CASE DbConnected
  BY <1>0, <1>12 DEF DbConnected, disk, config
<1>13. CASE Setup
  BY <1>0, <1>13 DEF Setup, disk, config
<1>16. CASE SetupFault
  BY <1>0, <1>16 DEF SetupFault, disk, config
<1>17. CASE Serve \/ ServeFault
  <2>1. serve = "starting" /\ UNCHANGED <<disk, phase, config, err>>
    BY <1>17 DEF Serve, ServeFault
  <2> QED
    BY <2>1 DEF disk, config
<1>18. CASE Notify
  BY <1>18 DEF Notify, disk, config
<1>19. CASE Signal
  BY <1>19 DEF Signal, disk, config
<1>20. CASE GracefulStop
  BY <1>20 DEF GracefulStop, disk, config
<1>21. CASE Stop
  BY <1>21 DEF Stop, disk, config
<1>14. CASE Tick \/ UNCHANGED vars
  BY <1>2, <1>14 DEF Tick, vars
<1>15. CASE \E s \in Slots : Open(s) \/ Receive(s) \/ Handler(s)
  BY <1>1, <1>2, <1>15, RpcFrame
<1> QED
  BY <1>3, <1>4, <1>5, <1>6, <1>7, <1>8, <1>9, <1>10, <1>11, <1>12, <1>13, <1>14,
     <1>15, <1>16, <1>17, <1>18, <1>19, <1>20, <1>21 DEF Next, Startup, ServeStep

\* A handler under way belongs to a process that has not signalled done.
LEMMA RpcDrained ==
  ASSUME TypeOK, Drained, NEW s \in Slots, Open(s) \/ Receive(s) \/ Handler(s),
         UNCHANGED <<process, outcome>>
  PROVE  Drained'
<1>1. rpc \in [Slots -> RpcRecords] /\ ans \in [Slots -> Answers]
  BY Parts DEF CallTypes
<1>2. phase # "down" /\ stop # "done"
  <2>1. CASE Open(s)
    BY <2>1 DEF Open, Drained
  <2>2. CASE Receive(s) \/ Handler(s)
    <3>1. rpc[s].st # "free"
      BY <2>2 DEF Receive, Handler, ReceiveKeeper, ReceiveAuth, ReceiveHealth, Hangup,
         CallAdd, Intercept, InterceptPanic, Stream, Acquire, AcquireClosed, Handle,
         HandleFault
    <3>2. InFlight # {}
      BY <3>1 DEF InFlight
    <3> QED
      BY <3>2 DEF Drained
  <2> QED
    BY <2>1, <2>2
<1>3. \A q \in Slots : ans'[q] # "Lost"
  <2>1. \/ UNCHANGED ans
        \/ \E code \in {"None", "OK", "Internal", "Unauthenticated"} :
             ans' = [ans EXCEPT ![s] = code]
        \/ End("panicked")
    BY DEF Open, Receive, Handler, ReceiveKeeper, ReceiveAuth, ReceiveHealth, Hangup,
       CallAdd, Intercept, InterceptPanic, Stream, Acquire, AcquireClosed, Handle,
       HandleFault, Move, Reply
  <2>2. ~ End("panicked")
    BY <1>2 DEF End, process
  <2>3. \A q \in Slots : ans[q] # "Lost"
    BY <1>2 DEF Drained
  <2> QED
    BY <1>1, <2>1, <2>2, <2>3
<1> QED
  BY <1>2, <1>3 DEF Drained, process, config

\* The end of a process, except for the outcome.
LEMMA EndDrained ==
  ASSUME TypeOK, Drained, NEW how, End(how), phase # "down",
         how = "graceful" => stop = "done"
  PROVE  Drained'
<1>1. InFlight' = {}
  BY DEF End, InFlight, Free
<1>2. phase' = "down" /\ serve' = "off" /\ stop' = "off" /\ outcome' = how
  BY DEF End
<1>3. ASSUME how = "graceful" PROVE \A s \in Slots : ans'[s] # "Lost"
  <2>1. InFlight = {} /\ \A s \in Slots : ans[s] # "Lost"
    BY <1>3 DEF Drained
  <2> QED
    BY <2>1 DEF End, InFlight
<1> QED
  BY <1>1, <1>2, <1>3 DEF Drained

LEMMA NextDrained ==
  ASSUME TypeOK, Drained, Migrated, [Next]_vars
  PROVE  Drained'
<1>0. phase # "down" /\ UNCHANGED calls => UNCHANGED InFlight
  BY DEF calls, InFlight
<1>1. ASSUME UNCHANGED <<phase, serve, stop, calls, outcome>> PROVE Drained'
  BY <1>1 DEF Drained, InFlight, calls
<1>2. CASE Start
  BY <1>2 DEF Start, Drained, InFlight
<1>3. CASE \/ Connect \/ ApplyMigrations \/ SetVersion \/ RunMigration \/ SetClean
           \/ MigrateFault \/ Ping \/ DbConnected
  <2>1. /\ phase \in {"connect", "migrate", "apply", "clean", "ping", "result"}
        /\ phase' \in {"migrate", "apply", "clean", "ping", "result", "setup"}
        /\ UNCHANGED <<serve, stop, calls, outcome>>
    BY <1>3 DEF Connect, ApplyMigrations, SetVersion, RunMigration, SetClean,
       MigrateFault, Ping, DbConnected, Chained
  <2> QED
    BY <2>1 DEF Drained, InFlight, calls
<1>4. CASE ConnectFailed
  BY <1>4, EndDrained DEF ConnectFailed
<1>5. CASE SignalEarly
  BY <1>5, EndDrained DEF SignalEarly
<1>6. CASE Crash
  BY <1>6, EndDrained DEF Crash
<1>7. CASE Exit
  <2>1. outcome = "graceful" => stop = "done"
    BY <1>7 DEF Exit, Drained
  <2> QED
    BY <1>7, <2>1, EndDrained DEF Exit
<1>8. CASE Setup
  BY <1>8 DEF Setup, Drained, InFlight, calls
<1>9. CASE SetupFault
  BY <1>9 DEF SetupFault, Drained, InFlight, calls
<1>10. CASE Serve \/ ServeFault
  <2>1. serve # "off" /\ UNCHANGED <<phase, stop, calls, outcome>>
    BY <1>10 DEF Serve, ServeFault
  <2> QED
    BY <2>1 DEF Drained, InFlight, calls
<1>11. CASE Notify
  BY <1>1, <1>11 DEF Notify
<1>12. CASE Signal
  BY <1>12 DEF Signal, Drained, InFlight, calls
<1>13. CASE GracefulStop
  <2>1. InFlight' = {} /\ phase # "down"
    BY <1>13 DEF GracefulStop, Drained, InFlight, calls
  <2> QED
    BY <1>13, <2>1 DEF GracefulStop, Drained, calls
<1>14. CASE Stop
  <2>1. UNCHANGED <<InFlight, ans, stop, serve>> /\ phase = "stopping"
    BY <1>14 DEF Stop, InFlight, calls
  <2> QED
    BY <1>14, <2>1 DEF Stop, Drained
<1>15. CASE Tick \/ UNCHANGED vars
  BY <1>1, <1>15 DEF Tick, vars, process
<1>16. CASE \E s \in Slots : Open(s) \/ Receive(s) \/ Handler(s)
  <2>1. PICK s \in Slots : Open(s) \/ Receive(s) \/ Handler(s)
    BY <1>16
  <2>2. CASE UNCHANGED <<disk, process, outcome>>
    BY <2>1, <2>2, RpcDrained
  <2>3. CASE End("panicked") /\ phase # "down"
    BY <2>3, EndDrained
  <2>4. CASE End("panicked") /\ phase = "down"
    BY <2>4 DEF End, Drained, InFlight, Free
  <2> QED
    BY <2>1, <2>2, <2>3, <2>4, RpcFrame
<1> QED
  BY <1>2, <1>3, <1>4, <1>5, <1>6, <1>7, <1>8, <1>9, <1>10, <1>11, <1>12, <1>13,
     <1>14, <1>15, <1>16 DEF Next, Startup, ServeStep

-----------------------------------------------------------------------------
LEMMA InitInd == Init => IndInv
<1> SUFFICES ASSUME Init PROVE IndInv
  OBVIOUS
<1>1. Migrated
  BY DEF Init, Migrated
<1>2. Drained
  BY DEF Init, Drained, InFlight, Free
<1> QED
  BY <1>1, <1>2, InitTypes DEF IndInv

LEMMA NextInd == IndInv /\ [Next]_vars => IndInv'
BY NextTypes, NextMigrated, NextDrained DEF IndInv

\* The invariant of the start and of the shutdown is inductive, whatever fails in
\* whichever order, over any number of restarts.
THEOREM Inductive == Spec => []IndInv
BY InitInd, NextInd, PTL DEF Spec

\* Server.Serve takes clients only after dbConnect brought the schema to the last
\* migration: a file that failed or died half way keeps every later start away.
THEOREM SafeStart == Spec => []ServesMigrated
<1>1. IndInv => ServesMigrated
  <2> SUFFICES ASSUME IndInv, serve = "serving"
               PROVE  applied = Migrations /\ ~ dirty /\ dsn # "" /\ ~ err
    BY DEF ServesMigrated
  <2>1. phase \in {"run", "stopping", "closing"}
    BY DEF IndInv, Migrated
  <2> QED
    BY <2>1 DEF IndInv, Migrated
<1> QED
  BY <1>1, Inductive, PTL

\* A Server.Stop that returned nil has lost no RPC and closes the pool under none.
THEOREM GracefulStops == Spec => []GracefulMeansAnswered
<1>1. IndInv => GracefulMeansAnswered
  BY DEF IndInv, Drained, GracefulMeansAnswered
<1> QED
  BY <1>1, Inductive, PTL
=============================================================================
