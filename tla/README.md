# GophKeeper: a TLA+ verification project

GophKeeper keeps the secrets of its users (logins, cards, binary files) on a
gRPC server backed by PostgreSQL. The project models the server's own logic:
how the server starts and stops, how requests interleave, fail, are retried and
compensated, and what the stores and the account tables look like afterwards.
TLC checks the models on small instances; TLAPS proves every safety property of the
passing runs, and the refinement, for all of them.

## 1. The system

| Part | Source | State it keeps | Operations |
|---|---|---|---|
| Keeper RPCs | `internal/api/v1/keeper_service.go` | the stream of each RPC | Add, Delete, Get, List, Sync |
| `keeper.Service` | `internal/service/server/keeper/keeper.go` | none of its own; two stores behind interfaces | AddSealed, Delete, GetSealed, List, Sync |
| `MetadataRepository` | `internal/repo/db/metadata_repo.go`, `sql/queries/metadata.sql` | table `objects` | Put, Get, ListByUser, Delete |
| Object store | interface `ObjectRepo`; `internal/repo/router`, `internal/repo/db/sealed_repo.go` | tables `secret_blobs`, `chunk_manifest` | Put, Get, Delete |
| `AuthService` | `internal/api/v1/auth_service.go` | none | Register, Login, Logout |
| `session.Manager`, `tokens.Generator` | `pkg/session`, `pkg/tokens` | none | CreateSession, RefreshSession, RevokeSession, Validate… |
| `UserRepository`, `TokenRepository` | `internal/repo/db` | tables `users`, `refresh_tokens` | Create, FindByLogin, Delete; Save, Validate, Delete |
| `WithRetry` | `internal/repo/db/common.go` | the attempt counter | wraps every repository call |
| `hash` | `pkg/hash/hash.go` | none | PHC strings, HMAC, SHA-256 |
| Converter | `internal/adapters/grpc/metadata` | none | wire form to and from `model.Metadata` |
| Interceptor, server | `internal/api/api.go` | user in the context, gRPC server | authenticate a unary RPC; Setup, Serve, Stop |
| `DBManager`, `main` | `internal/service/server/dbmanager`, `cmd/server` | the pool (1 to 10 connections) | connect, migrate, run, shut down |
| Health, config | `internal/api/v1/health_service.go`, `pkg/config` | none | Ping; read the environment and the flags |

How they interact. gRPC runs a goroutine per RPC. A handler checks its message,
takes the user the interceptor put into the context and calls a service; the
service makes one repository call after the other, each under a context of
`RepoOperationTO` (2 s). A repository wraps its query in `WithRetry`, which makes
up to four attempts with sleeps of 1, 3 and 5 s. Requests share nothing but the
database, so everything that can go wrong between two of them goes wrong between
two repository calls.

What is hard to get right here:

- a secret lives in two stores written one after the other without a
  transaction: requests see the states in between, a failure of the second write
  must be compensated, and a crash is never repaired;
- the locator of an object is made of the identifier the client sends, so clients
  that use an identifier again meet at one locator;
- a write can be reported as failed and have been applied, and `WithRetry` then
  applies it again;
- the compensation of AddSealed shares the context of the call that has failed;
- GetSealed and Sync read the row and the object at different times;
- Register checks and inserts a login in two steps, and creates the account and
  the session in two more;
- refresh tokens are saved, deleted and expire while other RPCs run;
- `SealedRepo.Put` is retried with a reader its first attempt has drained, its loop
  drops errors, and `Get` hands bytes through a pipe that another goroutine fills
  and closes;
- the schema is migrated in steps that a crash can separate, signals come at any
  moment, and a graceful stop waits for clients that may never send anything.

`PROJECT.json` lists these and the other hazards at their lines. What makes
each component correct:

- *keeper*: rows and objects correspond; what is delivered is what was stored;
  an answer OK means the whole request took effect, once; every request is answered;
- *auth*: a login registers once, tokens only for its owner, a revoked token
  stays revoked, every request is answered;
- *object store*: what Put stored Get returns, whole or not at all; a call and its
  goroutine end;
- *lifecycle*: only a complete schema is served, a graceful stop loses nothing,
  every stop ends.

## 2. The modules

| Module | What it is |
|---|---|
| `WithRetry` | limit, retryability and deadline arithmetic of `db.WithRetry` |
| `Keeper` | Keeper RPCs, `keeper.Service` and `MetadataRepository` over an object store |
| `KeeperProofs` | theorems about the stores of `Keeper` |
| `KeeperAnswers` | theorems about what `Keeper` answers, on top of those |
| `Auth` | AuthService, session manager, token generator, user and token tables |
| `AuthProofs` | theorems about `Auth` |
| `ObjectStore` | what an object store on these tables promises: an abstract specification |
| `SealedRepo` | `db.SealedRepo` behind `StoreRouter`, which implements `ObjectStore` |
| `SealedRepoProofs` | theorems about `SealedRepo`, the refinement of `ObjectStore` among them |
| `Server` | configuration, start with migrations, Serve, Stop, interceptor and the way of an RPC |
| `ServerProofs` | theorems about `Server` |
| `MCKeeper`, `MCAuth`, `MCSealedRepo`, `MCServer` | instances for TLC |

### Keeper

State and code. `content` is the object store: the bytes at each locator, `Empty`
where there is no object (`objects` are the locators that have one). `born`/`alive`
are the table `objects`: the row inserted under each identifier, and the identifiers
whose row exists now. Rows that are gone stay in `born`, and a row carries the bytes
of its item (`sealed`, no column of the table), so that the properties can speak of
them; no action reads either except to find a fresh identifier. `pc`, `rq`, `loc`,
`tries`, `live`, `snap`, `added` are the local state of the handler goroutines;
`live[r]` says that the context of the call under way has not expired, `added` are the
identifiers AddSealed has returned, which the handler discards. `sent` and `resp` are
what the client sees. `contested` and `faulted` are history: the locators of which a
write took effect and was reported failed (a row inserted by an attempt that failed,
an object removed by an attempt that is then repeated), and whether any write failed
or the server crashed.

A request takes one step per repository call (per attempt of a metadata write or of
an object deletion):

| Steps of the code | Actions |
|---|---|
| Add: receive loop | `StartAdd`, `RecvEOF`, `RecvBroken` |
| Add: item loop, checks | `RejectItem`, `AllAdded` |
| AddSealed: `objectRepo.Put` | `PutObject`, `PutObjectRefused`, `PutObjectFault` |
| AddSealed: `metadataRepo.Put` | `PutMetadata`, `PutMetadataRefused`, `PutMetadataFault`, `PutMetadataExpired` |
| AddSealed: compensation | `Undo`, `UndoFault` (`RemovalFails`), `UndoExpired` |
| Delete | `StartDelete`, `DeleteMetadata`, `DeleteMetadataRefused`, `DeleteMetadataFault`, `DeleteObject`, `DeleteObjectFault` (`RemovalFails`), `DeleteObjectExpired` |
| GetSealed | `StartGet`, `GetMetadata`, `GetMetadataRefused`, `GetObject` |
| List, Sync | `StartList`, `List`, `StartSync`, `SyncList`, `SyncNext`, `SyncFull`, `SyncDone` |
| failing reads and sends | `ReadFault` |
| early returns of the handlers | `Refuse` |
| the process dies | `Crash` |

The loop of Add over its stream is one receive step followed by one step per call
of each item, since the handler touches no shared state until the stream ends.
Retries of *reads* have no effect a client or another request could see, so a
read is one step that may fail. A failing write may have taken effect; a retry
takes place within the deadline only while the sleeps so far (k² seconds before
attempt k) leave time, `InTime`.

The object store is modelled by the interface `ObjectRepo` that `keeper.Service`
declares, as its only implementation keeps it: Put stores an object at the locator
made of the identifier in the client's metadata, and fails if that is no UUID or an
object is there already (`Puttable`; the second chunk 0 violates the primary key of
`chunk_manifest`). Delete removes the object and frees the locator, and its retry
removes whatever is there by then. Reading an absent object gives no bytes and no
error, as `SealedRepo.Get` does. How `SealedRepo` and `StoreRouter` do this, and where
they do not, is the subject of the module `SealedRepo`.

An answer of Add is OK, the error of SendAndClose (`SendError`, whatever its code) or a
status of an early return; List answers Internal, not Unauthenticated, to an empty
user, which is among the outcomes of `Refuse`.

### Auth

`users` and `stored` are the tables; `minted` records owner and expiry of every
refresh token the generator made, and `now` is the clock. `known` are the tokens
clients were given. A request takes one step per attempt of a repository call:
`StartRegister`, `RegisterFree`/`RegisterTaken`, `Create…`, then
`CreateSession` and `Save…`; `StartLogin`, `LoginRight`/`LoginWrong`;
`StartLogout`/`StartRefresh`, `DeleteToken…` (a refresh goes on with
`CreateSession`); `StartValidate`, `Validate…`. `RefreshSession` and
`ValidateRefreshToken` have no RPC yet; the model calls them as an RPC would,
with the user its caller authenticated.

AuthService is written and tested against its interfaces. Two places of the code
behind them make every Register or every Login fail: `FindByLogin`, whose SQL
PostgreSQL rejects, and the PHC string with swapped costs. The constant `Defects`
says which of the two are present. The passing runs use `Defects = {}`, because
with either defect nobody ever gets an account or a session and every other
property would hold for want of behaviours; two violation runs switch one on
each and show what the code does.

### SealedRepo and ObjectStore

`objects`, `blobs` and `manifest` are the three tables. A slot of `Calls` is a
goroutine that calls Put, Get or Delete; `pc`, `rq`, `tries`, `live`, `tx` are its
local state and its transaction, `drained` says that the `io.Reader` of a Put is at
its end. `writer`, `seen`, `rowsErr`, `closed`, `got` are the goroutine of a Get, its
query, and the pipe. `spoiled` is history.

| Steps of the code | Actions |
|---|---|
| `StoreRouter`: by type, by prefix | `StartPut`, `PutUnrouted`; `StartGet`, `StartDelete`, `LocatorUnrouted`, `RouterPanic` |
| Put: Begin | `BeginTx`, `PutRefused`, `BeginFault` |
| Put: the loop around `putHelper` | `InsertBlob`, `PutManifest`, `InsertFault` |
| Put: Commit and the retry | `Commit`, `CommitAborted`, `CommitFault` |
| Get: the goroutine | `Query`, `Write`, `ReadFault`, `CloseWriter` |
| `getSealedHelper`: `io.ReadAll` | `ReadAll` |
| Delete | `DeleteObject` |
| `MetadataRepository` on the same tables | `InsertRow`, `DeleteRow` |
| the process dies | `Crash` (and `RouterPanic`) |

The environment of `SealedRepo` is any caller of the interface, not only
`keeper.Service`: as the program is wired today no Put can succeed. The foreign key of
`secret_blobs` needs the row of the object; AddSealed inserts it after Put, and under an
identifier of its own. The run `store_put` shows this (`PutFirst = TRUE`, `Via =
{"router"}`). The run `store` asks what the repository does for callers that bring the
row first (`PutFirst = FALSE`) and that call it directly or through the router (`Via`),
since a router whose map by prefix is never filled ends the process at the first Get or
Delete of a locator Put has made (`RouterPanic`); a locator with neither of the known
prefixes is an error (`LocatorUnrouted`). `Delete` is modelled as the code has it: the
SQL names a table that is not in its FROM clause, so it always returns an error.

`ObjectStore` states the contract with five variables and no transaction, retry,
goroutine or pipe: bytes appear whole and at once under an existing row, never
change, and go with the row; a Get answers with what one moment of the call showed
under its locator, or with an error. `SealedRepo` instantiates it with

| `ObjectStore` | in `SealedRepo` |
|---|---|
| `row` | `objects` |
| `blob[id]` | the chunk `getQuery` would join: the manifest entry if its blob exists |
| `want[c]` | the locator of a Get until `io.ReadAll` returns |
| `seen[c]` | `seen` |
| `answer[c]` | the bytes read, or the error, of a Get that returned |

and `KeepsContract` is its specification.

### Server

`applied`, `version`, `dirty` are the database as golang-migrate (a library, modelled
as used) leaves it; they, the clock `now` and the access tokens clients hold survive
the process. `phase` is how far `run` is, `err` the error the chain of `Fluent`
carries, `serve`, `notified` and `stop` the goroutines of Serve, of the signal and of
GracefulStop. Each slot of `rpc` is an RPC on its way: `open` (the client has not
sent its request), `unary` or `stream` (decoded by the generated stub), `handler`,
`db` (the handler holds a connection), and `free` again.

| Steps of the code | Actions |
|---|---|
| `config.Builder`: environment, then flags | `Start` (`Setting`) |
| `dbConnect`: Connect, ApplyMigrations, Ping, Result | `Connect`; `ApplyMigrations`, `SetVersion`, `RunMigration`, `SetClean`, `MigrateFault`; `Ping`; `ConnectFailed`, `DbConnected` |
| `Server.Setup`, `loadCredentials` | `Setup`, `SetupFault` |
| `Server.Serve` | `Serve`, `ServeFault` |
| `signal.Notify`, the signal | `Notify`, `SignalEarly`, `Signal` |
| `Server.Stop`, the deferred Close of the pool | `GracefulStop`, `Stop`, `Exit` |
| stubs of the three services | `Open`, `ReceiveKeeper`, `CallAdd`, `ReceiveAuth`, `ReceiveHealth`, `Hangup` |
| the interceptor | `Intercept`, `InterceptPanic` |
| the handlers | `Stream`, `Acquire`, `AcquireClosed`, `Handle`, `HandleFault` |
| the process dies | `Crash` |

The handlers themselves are `Keeper` and `Auth`; here one takes a connection, holds
it, answers, and hands out an access token if it is Register or Login. A client
presents a token it was given, of this process or an earlier one, none at all, or one
it has made itself: the default of SECRET_KEY is the empty string, and tokens of the
empty key are anybody's (`Forgeable`). Keeper and Auth
modules take the user of a request as the interceptor would have set it. As the
code is, the interceptor is registered for unary RPCs only, so Add, Get and Sync are
always answered Unauthenticated (`Stream`), and a unary RPC without an authorization
header ends the process (`InterceptPanic`). Ping shares the 2 s context of
`dbConnect` with Connect and the migrations, so slow migrations make it fail:
`Ping` may fail after anything.

## 3. What the runs show

Passing runs:

| Run | Instance | Properties |
|---|---|---|
| `keeper_safety` | 2 requests, 1 user, 2 locators, 2 identifiers of rows, 2 payloads; streams of two items, one of which uses the identifiers of the other with different bytes and has a second item the table refuses; every call may fail, the server may crash | `TypeOK`, `NoDangling`, `NoOrphans`, `SentIsStored`, `DeletedOnce`, `Ownership`, `AddOKMeansStored` |
| `keeper_live` | 2 requests, 2 locators, 2 identifiers of rows (the next insert fails); streams with an item the handler, AddSealed or the object store refuses, the first after two good ones; writes of metadata may fail | `Responds` |
| `auth_safety` | 2 requests, 1 login, 2 passwords, 2 user identifiers, 2 tokens, 1 tick of the clock; every call may fail, crashes | `TypeOK`, `SessionIsOwners`, `OneRegistration`, `RevokedForGood` |
| `auth_live` | 2 requests, 1 login, 2 user identifiers, 1 token (the next session fails) | `Responds` |
| `store` | 2 calls, 2 rows, 1 identifier Put is called with, 2 payloads; every statement may fail, crashes | `TypeOK`, `Integrity`, `PutOKMeansStored`, `KeepsContract`, `CallsEnd` |
| `server` | 2 RPCs, a key and the empty one, a session from before, 2 tokens besides those clients make, 1 tick; everything may fail, crashes | `TypeOK`, `ServesMigrated`, `GracefulMeansAnswered`, `ShutdownEnds` |

In words: whatever interleaves, fails or crashes, and however often clients use an
identifier again, every row names an object that is there and holds the row's bytes
(`NoDangling`), and an object has one claim at a time, its row or one request under
way, so no compensation and no Delete removes what another Add stored (`Ownership`).
The exception of both is a *contested* locator: a write that took effect and was
reported failed leaves a row whose object the compensation then removes, or a Delete
whose retry finds the object of somebody else. Without failures nothing is ever
orphaned, refused items included (`NoOrphans`); with failures objects are, and
`NoDangling` says no more than that the row is never the one left over. Readers of a
row that is still there get its bytes and its type (`SentIsStored`); for rows deleted
meanwhile see `keeper_get`. Answers mean what they say (`AddOKMeansStored`,
`DeletedOnce`). A login registers once (`OneRegistration`), a session is its owner's
(`SessionIsOwners`), and a revoked token is never stored again (`RevokedForGood`).

`SealedRepo` never stores half an object though its loop drops errors, because
PostgreSQL refuses to commit an aborted transaction (`Integrity`,
`PutOKMeansStored`), and it implements the contract of `ObjectStore`. The exception
`spoiled` of `PutOKMeansStored` is real: after a commit that failed, the retry finds
the reader drained, commits nothing and returns a locator.

No start serves an incomplete schema, also after migrations that failed or died half
way in an earlier process (`ServesMigrated`); the price is that such a schema keeps
every later start away until somebody repairs it by hand. A Stop that returns nil
lost no RPC (`GracefulMeansAnswered`), and every shutdown ends, although GracefulStop
may wait for ever for a request that never comes (`ShutdownEnds`).

Violation runs, each a claim of a comment, a document or a message that the code
does not keep (details and quotations in `PROJECT.json`, `findings`):

| Run | Claim | What happens |
|---|---|---|
| `keeper_orphan` | a failed AddSealed deletes its object | the deletion shares the expired context |
| `keeper_get` | Get returns the whole object | a Delete between its two reads makes it answer OK without bytes |
| `auth_lookup` | Register registers a new user | FindByLogin's SQL is rejected, and ErrNotFound never returned |
| `auth_phc` | Login returns credentials | the PHC string carries swapped costs |
| `store_put` | Put stores the object | its row comes later, under another identifier |
| `server_newcomer` | Register and Login hand out the first tokens | the interceptor panics without a token |

One more claim is refuted by a theorem and has no run: the protocol lists binary files
among the data it keeps (`keeper.proto:14`), and `BinaryNeverStored` proves that no Add
of one is ever answered OK, because the name of the type has a leading blank that the
name in `data_types` has not.

Behaviours the models contain that no property is about: an Add that fails keeps the
items it has stored, and an object it orphans makes every repeat of that item fail; a
Register whose session fails cannot be repeated, the account exists; RefreshSession
never validates the token it replaces and has deleted it when the new session fails;
a Serve that fails leaves the process waiting for a signal; the description of a
secret is not written to the row (`metadata_repo.go:45`).

The comment of AddSealed also says that a failed call creates no metadata. The
exception `contested` of `NoDangling` and `Ownership` is the case where it does: an
insert that was committed and reported as failed leaves its row, and the
compensation then removes the object under it.

Bounds. Each hazard needs at most two requests (one in the middle of its calls, one that
overtakes it), two objects (one stored, one under way), two identifiers of rows (a
retried insert makes two rows of one object) and two payloads (to tell apart what two
Adds put at one locator); a third request adds no pair of steps that two do not have.
One user is enough: no step but List and Sync looks at the user of a row. In `Keeper`
and `Auth` the bounds `DataIDs`, `UserIDs`, `Tokens` and `MaxNow` are the only caps; when one is reached the call fails as it would in the code when the store or
the generator fails. Attempts are not capped by the model: the code's limit is. In
`SealedRepo` two Puts compete for the same object, and two rows may carry the same
locator (the case where the subquery of `getQuery` fails), while `Objects` keeps Puts to
one identifier: Puts of different objects share no row. A second payload tells the two
Puts apart. In `Server` two RPCs are enough for one that is lost or blocks and one that
goes on; `MaxTime` lets the token from before expire and use up its leeway, `MaxTokens`
and `MaxTime` stop the clock and the calls of Register, nothing else. Users, `Delete`,
`Get`, `Login` and `Logout` behave at this level like `List`, `Sync` and `Register`, so
`Asked` leaves them out. Symmetry is declared over the requests and the interchangeable
data in the runs without temporal properties.

Fairness. In `Keeper` and `Auth` it is weak fairness of `ServerStep(r)` for each
request: the goroutine of a request is runnable whenever its next step is enabled,
and each repository call comes back because its context has a deadline. In
`SealedRepo` it is weak fairness of each call and of each writer goroutine, for the
same reason; a Put that waits for another transaction waits for a call that is fair
itself. In `Server` it is weak fairness of the goroutines of `run`, Serve, Stop and
GracefulStop and of each handler; the timeout of Stop is what makes `Stop` always
enabled. Nothing is asked of the clients (a stream may stay open, a request may never
come), of who starts the server or sends the signal, of the clock, and of crashes.
`Responds` of `Keeper` therefore speaks of requests whose stream has been received.

## 4. What is proved

`KeeperProofs` proves, for all sets of requests, users, payloads, locators,
identifiers, batches and failures, under the assumptions named in `Keeper`
(`SentinelAssumption`: the sentinels are outside their sets; `BatchAssumption`;
`UserAssumption`: there is a user; `FailuresAssumption`):

- `TypeCorrect`: `Spec => []TypeOK`
- `RowsHaveObjects`: `Spec => []NoDangling`
- `ObjectsHaveRows`: `Spec => []NoOrphans`
- `ObjectsAreOwned`: `Spec => []Ownership`

all of them consequences of `Inductive`: `Spec => []IndInv`. None of the three
invariants is inductive by itself. Nothing is assumed of locators but that they are
made of the clients' identifiers, so `Ownership` has to carry the argument: until its
insert returns, the object of an AddSealed is there with its bytes, no row names it
and no other request works on it, so neither its compensation nor another Delete
tears an object from under a row. That it survives the next Put, at a locator that may
have been used before, needs `Puttable` and `NoDangling`: where there is no object there
is no row of an uncontested locator and no request that holds it. That Delete may
remove the object needs `Locals`: a request at `delobj` holds the locator of a row that
is gone, and by the last conjunct of `Ownership` no other row names it. `Written` says
that what the table and a Sync name was inserted. And `NoOrphans` needs `Calm`: while
nothing has failed, no locator is contested and no context has expired, so the
compensation works. `IndInv` is the conjunction of these with `TypeOK`.

`TypeNext` treats types once and for all actions. The other conjuncts are
preserved action by action: `QuietStep` covers every action that leaves the
stores and the holders of objects alone, and there is one lemma for each action,
or family of actions, that does not (`PutObjectStep`, `PutObjectFaultStep`,
`PutMetadataStep`, `PutMetadataFaultStep`, `CompensateStep`, `ReleaseStep`,
`TryAgainStep`, `DeleteMetadataStep`, `DeleteMetadataFaultStep`, `CrashStep`). `IndNext`
puts them together.

`KeeperAnswers` goes on from there, under the same assumptions:

- `DeliveriesAreStored`: `Spec => []SentIsStored`
- `AddsAreStored`: `Spec => []AddOKMeansStored`
- `DeletesAreUnique`: `Spec => []DeletedOnce`
- `BinaryNeverStored`: `Spec => []BinaryRefused`, no Add with a binary file is ever
  answered OK

from `AnswersInductive`: `Spec => [](IndInv /\ AnswerInv)`. The properties speak of
answers, which are given at the end of a request, so the invariant has to say what
holds on the way there. `Stored`: an Add has filed the items before the one it is at.
`Delivered`: what was sent under a row that is still there is the row's item; a message
keeps being right because a row never comes back once it is gone, and as long as it is
there `NoDangling` keeps its bytes. `Removed`: a Delete that has had its row has had it
for good. `RowTypes`: no row has the type the converter cannot translate back, because
the table refuses the converter's name for binary files; without it `SentIsStored`
would fail on the type.

The argument has two halves. `NextGrows` shows once, for all actions, that no step
rewrites a row or revives one that is gone (`Grows`), and `AloneAnswers` that under
`Grows` whatever is true of a slot the step does not touch stays true: this is where
the interleaving is dealt with. What remains for each action is its own slot, and
`AnswerStep` puts the two together. The uniqueness of Deletes falls out there: who wins
takes a row that was there, and the rows of the earlier winners were not.

`AuthProofs` proves, for all requests, logins, passwords, identifiers, tokens,
failures and *defects*, under the assumptions named in `Auth` (the failures and
defects are known ones, the lifetime of a token is positive, there is a login and a
password, the sentinels are outside their sets):

- `TypeCorrect`: `Spec => []TypeOK`
- `RevocationLasts`: `Spec => []RevokedForGood`
- `SessionsBelong`: `Spec => []SessionIsOwners`
- `RegisteredOnce`: `Spec => []OneRegistration`

from `Inductive`. `RevokedForGood` needs `Sessions`: a token that is being saved is
known to no client, so nobody can have revoked it, and no two requests save the same; a
retry of Save therefore never brings a revoked token back. `OneRegistration` follows
from the UNIQUE constraint (`UniqueLogins` of `AuthProofs`) only through the rows: two
registrations that are granting never stand for the same row (`Accounts`), each stands
for a row with its login (`Granted`).

`SealedRepoProofs` proves, for all calls, identifiers, locators, payloads, failures
and ways in, under the assumptions named in `SealedRepo` (sentinels outside their
sets, known failures and entrances):

- `TypeCorrect`: `Spec => []TypeOK`
- `NeverHalf`: `Spec => []Integrity`
- `PutStored`: `Spec => []PutOKMeansStored`
- `Refines`: `Spec => KeepsContract`

from `Inductive`. `Attempt` ties the state of a Put to its transaction and its reader: a
transaction that can be committed has inserted both rows, or neither after a commit
that failed. `Locks` says what transactions keep from each other: a blob that is not
committed keeps its row, a chunk keeps its place in the manifest, and no two
transactions hold the same one. With them a commit stores the two rows of an object
together where there was none, which is `Integrity`. `Piped` says what the reader of a
pipe can have got.

The refinement uses `Integrity` to see that the mapped `blob` is just the manifest
(`BlobIs`), and that an effective commit is one `Store`. The query of a Get is `Look`,
`io.ReadAll` returning is `Answer` (`Piped` says that it got what the query saw, or an
error), the start of a call is `Ask`, rows are `AddRow` and `DropRow`, the death of the
process is `Break`, and everything else stutters: the rest of a transaction, retries,
the goroutine and the pipe. `ObjectStore` states no fairness, so nothing about liveness
is part of this.

`ServerProofs` proves, for any slots, users, keys, tokens and failures and all bounds,
under `ServerAssumption` (bounds are numbers, sentinels are outside their sets, tokens
handed out before are tokens):

- `TypeCorrect`: `Spec => []TypeOK`
- `SafeStart`: `Spec => []ServesMigrated`
- `GracefulStops`: `Spec => []GracefulMeansAnswered`

from `Inductive`: `Spec => []IndInv`, where `IndInv` is `TypeOK` and two parts.
`Migrated` carries `ServesMigrated` through the start: what each phase without an
error has established, and that `version` and `applied` agree whenever the schema is
not dirty, which is why a start that finds the last version and no mark needs no
migration. `Drained` says that no RPC exists without a process, that none exists or
comes once done is signalled, and that an answer can be lost only with the process.
`NextTypes`, `NextMigrated` and `NextDrained` show the parts preserved, one step per
action.

The invariants `IndInv` and `AnswerInv` were checked with TLC on the instances of the
runs before they were proved.

Only model-checked: the liveness properties `Responds` (of `Keeper` and of `Auth`),
`CallsEnd` and `ShutdownEnds`, since fairness and ENABLED are outside the prover's
reach; and the six violations, which are behaviours TLC exhibits.

## 5. Plan

1. `Keeper` over the object-store interface, `Auth`, the first proofs. *Done.*
2. `ObjectStore`, and `SealedRepo` behind `StoreRouter` shown to implement it. *Done.*
3. `Server`: lifecycle, migrations, configuration, interceptor, and its proofs. *Done.*
4. The remaining safety properties of `Keeper`, `Auth` and `SealedRepo` proved, and the
   refinement of `ObjectStore`. *Done.*
5. An abstract specification of what the keeper promises its users (secrets that
   appear, are read and disappear at once), which `Keeper` implements as long as no
   write fails, checked and proved.

## 6. What is not modelled

- `UserRepository.Delete`: no code calls it, so no user is ever deleted, and the
  cascades from `users` never run.
- Cryptography and the text of PHC strings, tokens and UUIDs: values of these kinds
  are told apart, not spelled.
- Name, description and time of a secret: no step of the server depends on them.
- Objects of several chunks: the tables allow them, but AddSealed passes an object
  as one chunk and `SealedRepo.Put` numbers it 0.
- Address, log level and certificate directory: plain input, whose only effect is
  that `Listen` or `Creds` may fail. Logging and the query tracer.
- The agent: the repository holds its protocol and diagrams, not its code.
- Generated message types and client stubs: no logic of this program. The mocks and
  fixtures of the tests.
