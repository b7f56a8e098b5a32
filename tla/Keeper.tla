------------------------------- MODULE Keeper -------------------------------
(***************************************************************************)
(* The keeper: the five RPCs Add, Delete, Get, List and Sync (package v1)  *)
(* on top of the application service keeper.Service, which keeps every     *)
(* secret in two stores that share no transaction: the object store behind *)
(* the ObjectRepo interface and the metadata table "objects" behind        *)
(* MetadataRepo.                                                           *)
(*                                                                         *)
(* Every RPC runs in a goroutine of its own; a step of a request is one    *)
(* call of a repository, so requests interleave between any two calls.     *)
(* The write calls of MetadataRepo are wrapped in db.WithRetry under a     *)
(* context of RepoOperationTO seconds, and so is the Delete of ObjectRepo; *)
(* each attempt is a step.  A write that returns an error may have been    *)
(* applied all the same (the context expires, or the connection is lost,   *)
(* after the commit).                                                      *)
(***************************************************************************)
EXTENDS Naturals, Sequences, WithRetry

CONSTANTS
  Requests,    \* slots for RPCs that are served at the same time
  Users,       \* users the interceptor may have put into the context
  Payloads,    \* sealed, non-empty byte strings
  Locators,    \* locators of the object store: "pg://" and a UUID
  DataIDs,     \* identifiers gen_random_uuid() can generate
  Batches,     \* the sequences of items a client uploads with one Add
  Failures,    \* the calls that may fail for no reason of their own
  Empty,       \* the empty byte string
  NoLocator,   \* no locator yet, or an identifier that is no UUID
  NoID,        \* a request that names no object
  NoRow        \* an identifier that was not generated yet

(***************************************************************************)
(* model.DataType names, as FromProtoMetadata produces them from the enum  *)
(* of the wire format (note the leading blank of the binary type), and the *)
(* names the migration stores in the table data_types.                     *)
(***************************************************************************)
DataTypeName(t) ==
  CASE t = "AUTH"   -> "DataTypeAuthenticationCredentials"
    [] t = "CARD"   -> "DataTypeCard"
    [] t = "BINARY" -> " DataTypeBinary"

\* The way back, ToProtoMetadata: a name that is none of model's constants
\* (the table's name for binary files is one) becomes UNSPECIFIED.
ToProtoDataType(name) ==
  CASE name = "DataTypeAuthenticationCredentials" -> "AUTH"
    [] name = "DataTypeCard" -> "CARD"
    [] name = " DataTypeBinary" -> "BINARY"
    [] OTHER -> "UNSPECIFIED"

DataTypesTable ==
  {"DataTypeAuthenticationCredentials", "DataTypeCard", "DataTypeBinary"}

(***************************************************************************)
(* An item of an Add stream.  "MALFORMED" stands for an item without       *)
(* metadata, without payload, with an unknown data type or without sealed  *)
(* data: the handler answers all four alike.  The client chooses the       *)
(* identifier of the metadata, and the object store makes the locator of   *)
(* it; id is that locator, NoLocator for an identifier that is no UUID.    *)
(***************************************************************************)
Items == [id : Locators \cup {NoLocator},
          type : {"AUTH", "CARD", "BINARY", "MALFORMED"},
          sealed : Payloads \cup {Empty}]

RequestMessages ==
  [op : {"None", "Add", "Delete", "Get", "List", "Sync"}, user : Users,
   id : DataIDs \cup {NoID}, batch : Seq(Items),
   mode : {"NONE", "SHORT", "FULL"}]

\* A row of the table objects.  sealed is no column of it but history: the
\* bytes of the item the row was inserted for.
Rows == [user : Users, type : DataTypesTable, loc : Locators,
         sealed : Payloads]

ASSUME SentinelAssumption ==
  /\ Empty \notin Payloads
  /\ NoLocator \notin Locators
  /\ NoID \notin DataIDs
  /\ NoRow \notin Rows

ASSUME BatchAssumption == Batches \subseteq Seq(Items)

ASSUME UserAssumption == Users # {}

\* Calls of the repositories whose failure, and the crash that, Failures allows.
FailureKinds == {"PutObject", "PutMetadata", "DeleteObject", "DeleteMetadata",
                 "Read", "Crash"}

ASSUME FailuresAssumption == Failures \subseteq FailureKinds


VARIABLES
  \* the stores, which survive a crash of the server
  content,   \* content[l]: the bytes of the object at l, Empty without one
  born,      \* born[id]: the row inserted under id, NoRow before that
  alive,     \* identifiers whose row is in the table now
  \* the requests, which do not
  pc,        \* what each request does next
  rq,        \* the message each request serves
  loc,       \* the local variable loc of AddSealed, Delete and GetSealed
  tries,     \* the parameter counter of WithRetry
  live,      \* the context of the current repository call has not expired
  snap,      \* the rows a Sync works through
  added,     \* identifiers AddSealed has returned to the loop of Add
  \* what the clients have seen
  sent,      \* messages sent to the client of the current request
  resp,      \* status of the last answer of each slot
  \* history, for the properties only
  contested, \* locators a write of which took effect and was reported failed
  faulted    \* a write has failed for no reason of its own, or a crash

stores   == <<content, born, alive>>
callvars == <<loc, tries, live>>
history  == <<contested, faulted>>
vars     == <<stores, pc, rq, callvars, snap, added, sent, resp, history>>

Codes == {"None", "OK", "Internal", "InvalidArgument", "Unauthenticated",
          "Canceled", "SendError"}

States == {"idle", "recv", "item", "putmeta", "undo", "delmeta", "delobj",
           "getmeta", "getobj", "list", "synclist", "sync"}

Messages == [id : DataIDs, type : {"AUTH", "CARD", "BINARY", "UNSPECIFIED"},
             sealed : Payloads \cup {Empty}]

TypeOK ==
  /\ content \in [Locators -> Payloads \cup {Empty}]
  /\ born \in [DataIDs -> Rows \cup {NoRow}]
  /\ alive \subseteq DataIDs
  /\ pc \in [Requests -> States]
  /\ rq \in [Requests -> RequestMessages]
  /\ loc \in [Requests -> Locators \cup {NoLocator}]
  /\ tries \in [Requests -> 0 .. maxAttemptCount]
  /\ live \in [Requests -> BOOLEAN]
  /\ snap \in [Requests -> SUBSET DataIDs]
  /\ added \in [Requests -> Seq(DataIDs)]
  /\ sent \in [Requests -> SUBSET Messages]
  /\ resp \in [Requests -> Codes]
  /\ contested \subseteq Locators
  /\ faulted \in BOOLEAN

NoRequest == [op |-> "None", user |-> CHOOSE u \in Users : TRUE,
              id |-> NoID, batch |-> << >>, mode |-> "NONE"]

\* A freshly started server has no requests; the stores start empty.
Init ==
  /\ content = [l \in Locators |-> Empty]
  /\ born = [id \in DataIDs |-> NoRow]
  /\ alive = {}
  /\ pc = [r \in Requests |-> "idle"]
  /\ rq = [r \in Requests |-> NoRequest]
  /\ loc = [r \in Requests |-> NoLocator]
  /\ tries = [r \in Requests |-> 0]
  /\ live = [r \in Requests |-> TRUE]
  /\ snap = [r \in Requests |-> {}]
  /\ added = [r \in Requests |-> << >>]
  /\ sent = [r \in Requests |-> {}]
  /\ resp = [r \in Requests |-> "None"]
  /\ contested = {}
  /\ faulted = FALSE

-----------------------------------------------------------------------------
(***************************************************************************)
(* Helpers shared by the handlers.                                         *)
(***************************************************************************)

\* A handler starts to serve message m in an idle slot.
Begin(r, m, state) ==
  /\ pc[r] = "idle"
  /\ pc' = [pc EXCEPT ![r] = state]
  /\ rq' = [rq EXCEPT ![r] = m]
  /\ snap' = [snap EXCEPT ![r] = {}]
  /\ added' = [added EXCEPT ![r] = << >>]
  /\ sent' = [sent EXCEPT ![r] = {}]
  /\ resp' = [resp EXCEPT ![r] = "None"]
  /\ UNCHANGED <<stores, callvars, history>>

\* The handler returns with a status.
Return(r, code) ==
  /\ pc' = [pc EXCEPT ![r] = "idle"]
  /\ resp' = [resp EXCEPT ![r] = code]
  /\ loc' = [loc EXCEPT ![r] = NoLocator]
  /\ tries' = [tries EXCEPT ![r] = 0]
  /\ live' = [live EXCEPT ![r] = TRUE]

\* The answer is OK; the properties relate it to the message and the locals.
Succeed(r) == Return(r, "OK") /\ UNCHANGED <<rq, added>>

\* The answer is an error; the message and the locals are gone.
Fail(r, code) ==
  /\ Return(r, code)
  /\ rq' = [rq EXCEPT ![r] = NoRequest]
  /\ snap' = [snap EXCEPT ![r] = {}]
  /\ added' = [added EXCEPT ![r] = << >>]

\* The next repository call, under a new context, works on locator l.
Call(r, state, l) ==
  /\ pc' = [pc EXCEPT ![r] = state]
  /\ loc' = [loc EXCEPT ![r] = l]
  /\ tries' = [tries EXCEPT ![r] = 0]
  /\ live' = [live EXCEPT ![r] = TRUE]

\* WithRetry sleeps and makes the next attempt, in time or too late.
Retry(r) ==
  \E onTime \in BOOLEAN :
    /\ tries' = [tries EXCEPT ![r] = @ + 1]
    /\ live' = [live EXCEPT ![r] = onTime /\ InTime(tries[r] + 1)]
    /\ UNCHANGED <<pc, rq, loc, snap, added, resp>>

\* A failure that no property of the requests explains.
Fault(kind) == kind \in Failures /\ faulted' = TRUE

-----------------------------------------------------------------------------
(***************************************************************************)
(* The object store behind ObjectRepo.  Put stores an object at the        *)
(* locator of its identifier, if that is a UUID and no object is there:    *)
(* the chunks of a second one violate the primary key of chunk_manifest.   *)
(* Delete removes the object, and its locator is free again.               *)
(***************************************************************************)
objects == {l \in Locators : content[l] # Empty}

\* Mutant of Puttable: a second object overwrites the one at its locator.
Puttable_Overwrite(item) == item.id \in Locators

Puttable(item) == item.id \in Locators \ objects

StoreObject(l, sealed) == content' = [content EXCEPT ![l] = sealed]

RemoveObject(l) == content' = [content EXCEPT ![l] = Empty]

\* The bytes a Get of l streams: none, and no error, when l is absent (the
\* query behind SealedRepo.Get then has no rows).
ReadObject(l) == content[l]

(***************************************************************************)
(* The table objects.  PutMetadata resolves the type name by a subquery on *)
(* data_types; a name that is not there violates a NOT NULL constraint.    *)
(***************************************************************************)
FreshIDs == {id \in DataIDs : born[id] = NoRow}

InsertRow(id, row) ==
  /\ born' = [born EXCEPT ![id] = row]
  /\ alive' = alive \cup {id}

DeleteRow(id) == alive' = alive \ {id}

RowsOf(u) == {id \in alive : born[id].user = u}

-----------------------------------------------------------------------------
(***************************************************************************)
(* Add: receive the whole stream, then AddSealed item by item.             *)
(***************************************************************************)
StartAdd(r) ==
  \E u \in Users, b \in Batches :
    Begin(r, [op |-> "Add", user |-> u, id |-> NoID, batch |-> b,
              mode |-> "NONE"], "recv")

\* Mutant of HasItem: the loop over the received items ends one item early.
HasItem_OffByOne(r) == Len(added[r]) + 1 < Len(rq[r].batch)

HasItem(r) == Len(added[r]) < Len(rq[r].batch)

Item(r) == rq[r].batch[Len(added[r]) + 1]

\* Recv reports io.EOF: the client has sent the whole batch.
RecvEOF(r) ==
  /\ pc[r] = "recv"
  /\ pc' = [pc EXCEPT ![r] = "item"]
  /\ UNCHANGED <<stores, rq, callvars, snap, added, sent, resp, history>>

\* Mutant of RecvBroken: the error of Recv is returned as it is.
RecvBroken_RawError(r) ==
  /\ pc[r] = "recv"
  /\ Fail(r, "Unknown")
  /\ UNCHANGED <<stores, sent, history>>

\* Recv fails: the client went away, or the stream broke.
RecvBroken(r) ==
  /\ pc[r] = "recv"
  /\ \E code \in {"Canceled", "InvalidArgument"} : Fail(r, code)
  /\ UNCHANGED <<stores, sent, history>>

\* Every item is stored: SendAndClose, whose error is the answer as it is.
AllAdded(r) ==
  /\ pc[r] = "item"
  /\ ~ HasItem(r)
  /\ \/ Succeed(r) /\ UNCHANGED snap
     \/ Fail(r, "SendError")
  /\ UNCHANGED <<stores, sent, history>>

\* The handler, or AddSealed itself, refuses the item; those before it stay.
RejectItem(r) ==
  /\ pc[r] = "item"
  /\ HasItem(r)
  /\ \/ /\ Item(r).type = "MALFORMED"
        /\ Fail(r, "InvalidArgument")
     \/ /\ Item(r).type # "MALFORMED"
        /\ Item(r).sealed = Empty
        /\ Fail(r, "Internal")
  /\ UNCHANGED <<stores, sent, history>>

Acceptable(r) ==
  /\ pc[r] = "item"
  /\ HasItem(r)
  /\ Item(r).type # "MALFORMED"
  /\ Item(r).sealed # Empty

\* AddSealed: objectRepo.Put.
PutObject(r) ==
  /\ Acceptable(r)
  /\ Puttable(Item(r))
  /\ StoreObject(Item(r).id, Item(r).sealed)
  /\ Call(r, "putmeta", Item(r).id)
  /\ UNCHANGED <<born, alive, rq, snap, added, sent, resp, history>>

\* objectRepo.Put refuses the identifier: no UUID, or its object is there.
PutObjectRefused(r) ==
  /\ Acceptable(r)
  /\ ~ Puttable(Item(r))
  /\ Fail(r, "Internal")
  /\ UNCHANGED <<stores, sent, history>>

\* objectRepo.Put fails, after or before the object was written.
PutObjectFault(r) ==
  /\ Acceptable(r)
  /\ Puttable(Item(r))
  /\ Fault("PutObject")
  /\ StoreObject(Item(r).id, Item(r).sealed) \/ UNCHANGED content
  /\ Fail(r, "Internal")
  /\ UNCHANGED <<born, alive, sent, contested>>

NewRow(r) == [user |-> rq[r].user, type |-> DataTypeName(Item(r).type),
              loc |-> loc[r], sealed |-> Item(r).sealed]

Insertable(r) == DataTypeName(Item(r).type) \in DataTypesTable

\* AddSealed: metadataRepo.Put succeeds and the loop goes on.
PutMetadata(r) ==
  /\ pc[r] = "putmeta"
  /\ live[r]
  /\ Insertable(r)
  /\ \E id \in FreshIDs :
       /\ InsertRow(id, NewRow(r))
       /\ added' = [added EXCEPT ![r] = Append(@, id)]
  /\ Call(r, "item", NoLocator)
  /\ UNCHANGED <<content, rq, snap, sent, resp, history>>

\* The compensation of AddSealed runs under the context of metadataRepo.Put:
\* the time the retries have slept (tries) stays used up.
Compensate(r) ==
  /\ pc' = [pc EXCEPT ![r] = "undo"]
  /\ UNCHANGED <<loc, tries>>

(***************************************************************************)
(* metadataRepo.Put fails because the row violates a constraint (or the    *)
(* bound DataIDs of the model is reached).                                 *)
(***************************************************************************)
PutMetadataRefused(r) ==
  /\ pc[r] = "putmeta"
  /\ live[r]
  /\ ~ Insertable(r) \/ FreshIDs = {}
  /\ Compensate(r)
  /\ UNCHANGED <<stores, rq, live, snap, added, sent, resp, history>>

\* The row may have been inserted although the attempt is reported failed.
InsertUnnoticed(r) ==
  \/ UNCHANGED <<born, alive, contested>>
  \/ /\ Insertable(r)
     /\ \E id \in FreshIDs : InsertRow(id, NewRow(r))
     /\ contested' = contested \cup {loc[r]}

\* An attempt of metadataRepo.Put fails; WithRetry tries again or gives up.
PutMetadataFault(r) ==
  /\ pc[r] = "putmeta"
  /\ live[r]
  /\ Fault("PutMetadata")
  /\ InsertUnnoticed(r)
  /\ \E retryable \in BOOLEAN :
       \/ MayRetry(tries[r], retryable) /\ Retry(r)
       \/ /\ ~ MayRetry(tries[r], retryable)
          /\ Compensate(r)
          /\ \E onTime \in BOOLEAN : live' = [live EXCEPT ![r] = onTime]
  /\ UNCHANGED <<content, rq, snap, added, sent, resp>>

\* Mutant of PutMetadataExpired: WithRetry never gives up an expired context.
PutMetadataExpired_Forever(r) ==
  /\ pc[r] = "putmeta"
  /\ ~ live[r]
  /\ UNCHANGED vars

\* An attempt under an expired context fails at once and is not retried.
PutMetadataExpired(r) ==
  /\ pc[r] = "putmeta"
  /\ ~ live[r]
  /\ Compensate(r)
  /\ UNCHANGED <<stores, rq, live, snap, added, sent, resp, history>>

\* Mutant of Undo: AddSealed returns the error without its compensation.
Undo_Skipped(r) ==
  /\ pc[r] = "undo"
  /\ live[r]
  /\ Fail(r, "Internal")
  /\ UNCHANGED <<stores, sent, history>>

\* AddSealed after the failure: objectRepo.Delete(ctx2, loc), then Internal.
Undo(r) ==
  /\ pc[r] = "undo"
  /\ live[r]
  /\ RemoveObject(loc[r])
  /\ Fail(r, "Internal")
  /\ UNCHANGED <<born, alive, sent, history>>

(***************************************************************************)
(* An attempt of objectRepo.Delete fails, and the object may be gone all   *)
(* the same; WithRetry tries again, whoever stored an object there in the  *)
(* meantime, or the request is answered Internal.                          *)
(***************************************************************************)
RemovalFails(r) ==
  /\ Fault("DeleteObject")
  /\ \E removed, retryable \in BOOLEAN :
       /\ content' = IF removed THEN [content EXCEPT ![loc[r]] = Empty]
                     ELSE content
       /\ \/ /\ MayRetry(tries[r], retryable)
             /\ Retry(r)
             /\ contested' = IF removed THEN contested \cup {loc[r]}
                             ELSE contested
          \/ /\ ~ MayRetry(tries[r], retryable)
             /\ Fail(r, "Internal")
             /\ UNCHANGED contested
  /\ UNCHANGED <<born, alive, sent>>

UndoFault(r) ==
  /\ pc[r] = "undo"
  /\ live[r]
  /\ RemovalFails(r)

\* The shared context has expired: the object store does nothing.
UndoExpired(r) ==
  /\ pc[r] = "undo"
  /\ ~ live[r]
  /\ Fail(r, "Internal")
  /\ UNCHANGED <<stores, sent, history>>

-----------------------------------------------------------------------------
(***************************************************************************)
(* Delete: the row first, then the object under a context of its own.      *)
(***************************************************************************)
StartDelete(r) ==
  \E u \in Users, id \in DataIDs \cup {NoID} :
    Begin(r, [op |-> "Delete", user |-> u, id |-> id, batch |-> << >>,
              mode |-> "NONE"], "delmeta")

\* Mutant of DeleteMetadata: the locator is looked up, the row is not deleted.
DeleteMetadata_LookupOnly(r) ==
  /\ pc[r] = "delmeta"
  /\ live[r]
  /\ rq[r].id \in alive
  /\ Call(r, "delobj", born[rq[r].id].loc)
  /\ UNCHANGED <<stores, rq, snap, added, sent, resp, history>>

\* Mutant of DeleteMetadata: deleting a row that is gone succeeds again.
DeleteMetadata_Idempotent(r) ==
  /\ pc[r] = "delmeta"
  /\ live[r]
  /\ rq[r].id \in {id \in DataIDs : born[id] # NoRow}
  /\ DeleteRow(rq[r].id)
  /\ Call(r, "delobj", born[rq[r].id].loc)
  /\ UNCHANGED <<content, born, rq, snap, added, sent, resp, history>>

DeleteMetadata(r) ==
  /\ pc[r] = "delmeta"
  /\ live[r]
  /\ rq[r].id \in alive
  /\ DeleteRow(rq[r].id)
  /\ Call(r, "delobj", born[rq[r].id].loc)
  /\ UNCHANGED <<content, born, rq, snap, added, sent, resp, history>>

\* No such row (pgx.ErrNoRows), an empty identifier, or an expired context.
DeleteMetadataRefused(r) ==
  /\ pc[r] = "delmeta"
  /\ rq[r].id \notin alive \/ ~ live[r]
  /\ Fail(r, "Internal")
  /\ UNCHANGED <<stores, sent, history>>

\* An attempt fails, and the row may be gone all the same.
DeleteMetadataFault(r) ==
  /\ pc[r] = "delmeta"
  /\ live[r]
  /\ rq[r].id # NoID
  /\ Fault("DeleteMetadata")
  /\ DeleteRow(rq[r].id) \/ UNCHANGED alive
  /\ \E retryable \in BOOLEAN :
       \/ MayRetry(tries[r], retryable) /\ Retry(r)
       \/ ~ MayRetry(tries[r], retryable) /\ Fail(r, "Internal")
  /\ UNCHANGED <<content, born, sent, contested>>

DeleteObject(r) ==
  /\ pc[r] = "delobj"
  /\ live[r]
  /\ RemoveObject(loc[r])
  /\ Succeed(r)
  /\ UNCHANGED <<born, alive, snap, sent, history>>

DeleteObjectFault(r) ==
  /\ pc[r] = "delobj"
  /\ live[r]
  /\ RemovalFails(r)

\* The retries have used up the context: the object stays.
DeleteObjectExpired(r) ==
  /\ pc[r] = "delobj"
  /\ ~ live[r]
  /\ Fail(r, "Internal")
  /\ UNCHANGED <<stores, sent, history>>

-----------------------------------------------------------------------------
(***************************************************************************)
(* Get: the row, then the object it names, sent as one message.            *)
(***************************************************************************)
StartGet(r) ==
  \E u \in Users, id \in DataIDs \cup {NoID} :
    Begin(r, [op |-> "Get", user |-> u, id |-> id, batch |-> << >>,
              mode |-> "NONE"], "getmeta")

\* The message for the row of id with the bytes read at locator l.
Message(id, l) == [id |-> id, type |-> ToProtoDataType(born[id].type),
                   sealed |-> ReadObject(l)]

GetMetadata(r) ==
  /\ pc[r] = "getmeta"
  /\ rq[r].id \in alive
  /\ Call(r, "getobj", born[rq[r].id].loc)
  /\ UNCHANGED <<stores, rq, snap, added, sent, resp, history>>

GetMetadataRefused(r) ==
  /\ pc[r] = "getmeta"
  /\ rq[r].id \notin alive
  /\ Fail(r, "Internal")
  /\ UNCHANGED <<stores, sent, history>>

\* Mutant of GetObject: loc is a field of the service, shared by the requests.
GetObject_SharedLocator(r) ==
  /\ pc[r] = "getobj"
  /\ \E q \in Requests :
       /\ loc[q] # NoLocator
       /\ sent' = [sent EXCEPT ![r] = {Message(rq[r].id, loc[q])}]
  /\ Succeed(r)
  /\ UNCHANGED <<stores, snap, history>>

GetObject(r) ==
  /\ pc[r] = "getobj"
  /\ sent' = [sent EXCEPT ![r] = {Message(rq[r].id, loc[r])}]
  /\ Succeed(r)
  /\ UNCHANGED <<stores, snap, history>>

-----------------------------------------------------------------------------
(***************************************************************************)
(* List and Sync: one read of the user's rows; Sync then reads and sends   *)
(* the objects one by one while other requests go on.                      *)
(***************************************************************************)
StartList(r) ==
  \E u \in Users :
    Begin(r, [op |-> "List", user |-> u, id |-> NoID, batch |-> << >>,
              mode |-> "NONE"], "list")

StartSync(r) ==
  \E u \in Users, m \in {"SHORT", "FULL"} :
    Begin(r, [op |-> "Sync", user |-> u, id |-> NoID, batch |-> << >>,
              mode |-> m], "synclist")

List(r) ==
  /\ pc[r] = "list"
  /\ snap' = [snap EXCEPT ![r] = RowsOf(rq[r].user)]
  /\ Succeed(r)
  /\ UNCHANGED <<stores, sent, history>>

SyncList(r) ==
  /\ pc[r] = "synclist"
  /\ snap' = [snap EXCEPT ![r] = RowsOf(rq[r].user)]
  /\ Call(r, "sync", NoLocator)
  /\ UNCHANGED <<stores, rq, added, sent, resp, history>>

SentIDs(r) == {m.id : m \in sent[r]}

SyncNext(r) ==
  /\ pc[r] = "sync"
  /\ rq[r].mode = "SHORT"
  /\ \E id \in snap[r] \ SentIDs(r) :
       sent' = [sent EXCEPT ![r] = @ \cup {Message(id, born[id].loc)}]
  /\ UNCHANGED <<stores, pc, rq, callvars, snap, added, resp, history>>

\* The loop of the full mode fails on its first row: not implemented.
SyncFull(r) ==
  /\ pc[r] = "sync"
  /\ rq[r].mode = "FULL"
  /\ snap[r] # {}
  /\ Fail(r, "Internal")
  /\ UNCHANGED <<stores, sent, history>>

SyncDone(r) ==
  /\ pc[r] = "sync"
  /\ snap[r] = SentIDs(r)
  /\ Succeed(r)
  /\ UNCHANGED <<stores, snap, sent, history>>

\* A read of a repository or a Send fails, or the context is done.
ReadFault(r) ==
  /\ "Read" \in Failures
  /\ pc[r] \in {"getmeta", "getobj", "list", "synclist", "sync"}
  /\ Fail(r, "Internal")
  /\ UNCHANGED <<stores, sent, history>>

\* Early returns: no user in the context, no metadata, unknown sync mode, and
\* Internal for a List with an empty user.
Refuse(r) ==
  \E code \in {"Unauthenticated", "InvalidArgument", "Internal"} :
    /\ pc[r] = "idle"
    /\ sent' = [sent EXCEPT ![r] = {}]
    /\ Fail(r, code)
    /\ UNCHANGED <<stores, history>>

\* The server process dies; the database survives.
Crash ==
  /\ Fault("Crash")
  /\ pc' = [r \in Requests |-> "idle"]
  /\ rq' = [r \in Requests |-> NoRequest]
  /\ loc' = [r \in Requests |-> NoLocator]
  /\ tries' = [r \in Requests |-> 0]
  /\ live' = [r \in Requests |-> TRUE]
  /\ snap' = [r \in Requests |-> {}]
  /\ added' = [r \in Requests |-> << >>]
  /\ sent' = [r \in Requests |-> {}]
  /\ resp' = [r \in Requests |-> "None"]
  /\ UNCHANGED <<stores, contested>>

-----------------------------------------------------------------------------
\* What the client does: it opens streams and sends, or goes away.
ClientStep(r) ==
  \/ StartAdd(r) \/ StartDelete(r) \/ StartGet(r) \/ StartList(r)
  \/ StartSync(r) \/ Refuse(r) \/ RecvEOF(r) \/ RecvBroken(r)

\* What the goroutine of a request does by itself.
AddStep(r) ==
  \/ AllAdded(r) \/ RejectItem(r)
  \/ PutObject(r) \/ PutObjectRefused(r) \/ PutObjectFault(r)
  \/ PutMetadata(r) \/ PutMetadataRefused(r) \/ PutMetadataFault(r)
  \/ PutMetadataExpired(r)
  \/ Undo(r) \/ UndoFault(r) \/ UndoExpired(r)

DeleteStep(r) ==
  \/ DeleteMetadata(r) \/ DeleteMetadataRefused(r) \/ DeleteMetadataFault(r)
  \/ DeleteObject(r) \/ DeleteObjectFault(r) \/ DeleteObjectExpired(r)

ReadStep(r) ==
  \/ GetMetadata(r) \/ GetMetadataRefused(r) \/ GetObject(r)
  \/ List(r) \/ SyncList(r) \/ SyncNext(r) \/ SyncFull(r) \/ SyncDone(r)
  \/ ReadFault(r)

ServerStep(r) == AddStep(r) \/ DeleteStep(r) \/ ReadStep(r)

Next == (\E r \in Requests : ClientStep(r) \/ ServerStep(r)) \/ Crash

Spec == Init /\ [][Next]_vars

\* Every repository call returns (its context has a deadline), and a runnable
\* goroutine runs: each request keeps making steps.  Clients owe nothing.
FairSpec == Spec /\ \A r \in Requests : WF_vars(ServerStep(r))

-----------------------------------------------------------------------------
(***************************************************************************)
(* Properties.                                                             *)
(***************************************************************************)

\* Every row in the table names an object that is there and holds the bytes of
\* the row's item: Delete removes the row before the object, AddSealed inserts
\* it after, and an identifier the client uses again never lands on an object
\* that has a row.  The exception is a locator of which a write took effect
\* and was reported failed.
NoDangling ==
  \A id \in alive :
    \/ content[born[id].loc] = born[id].sealed
    \/ born[id].loc \in contested

\* Requests that still owe the object at their loc a row or its removal.
Holding(r) == pc[r] \in {"putmeta", "undo", "delobj"}

\* Requests whose object has no row that AddSealed knows of.
Adding(r) == pc[r] \in {"putmeta", "undo"}

\* The object request r works on is there, as r stored it if it did, and
\* neither a row nor another request has a claim on it.
SoleClaim(r) ==
  /\ loc[r] \in objects
  /\ Adding(r) => content[loc[r]] = Item(r).sealed
  /\ \A id \in alive : born[id].loc # loc[r]
  /\ \A q \in Requests : (q # r /\ Holding(q)) => loc[q] # loc[r]

\* Identifiers come from the clients and are used again, yet an object has one
\* claim at a time, a row or a request under way past its first store: the
\* object of a request is present, has no row and no other request works on
\* it, so a compensation or a Delete never removes what another Add stored.
\* Only a write that took effect and was reported failed can break this.
Ownership ==
  /\ \A r \in Requests :
       (Holding(r) /\ loc[r] \notin contested) => SoleClaim(r)
  /\ \A i, j \in alive :
       (i # j /\ born[i].loc = born[j].loc) => born[i].loc \in contested

\* As long as no write has failed and no crash happened, an object without a
\* row belongs to a request under way: whatever the interleaving, and whatever
\* the items refused, AddSealed and Delete leave no orphan behind.
NoOrphans ==
  ~ faulted =>
    \A l \in objects :
      \/ \E id \in alive : born[id].loc = l
      \/ \E r \in Requests : Holding(r) /\ loc[r] = l

\* What Get and Sync deliver under an identifier whose row is still there is
\* what was stored under it, with the type the client sent, although they read
\* the row and the object in two steps and Adds and Deletes go on in between.
\* GetReturnsObject below is about the rows deleted meanwhile.
SentIsStored ==
  \A r \in Requests : \A m \in sent[r] :
    /\ born[m.id] # NoRow
    /\ m.type # "UNSPECIFIED" /\ DataTypeName(m.type) = born[m.id].type
    /\ (m.id \in alive /\ born[m.id].loc \notin contested) =>
         m.sealed = born[m.id].sealed

\* An Add answered OK has stored every item of its stream, in order, for its
\* user, with the item's type, under identifiers of their own; and as long as
\* a row is there its object holds the item's bytes.
AddOKMeansStored ==
  \A r \in Requests :
    (rq[r].op = "Add" /\ resp[r] = "OK") =>
      /\ Len(added[r]) = Len(rq[r].batch)
      /\ \A i \in 1 .. Len(added[r]) :
           LET row == born[added[r][i]]
               item == rq[r].batch[i]
           IN /\ row # NoRow
              /\ row.user = rq[r].user
              /\ row.type = DataTypeName(item.type)
              /\ (added[r][i] \in alive /\ row.loc \notin contested) =>
                   content[row.loc] = item.sealed
              /\ \A j \in 1 .. (i - 1) : added[r][j] # added[r][i]

\* Of several Deletes of one identifier at most one is under way past its row
\* or has been answered OK: DELETE ... RETURNING hands the locator out once.
DeletedOnce ==
  \A r, q \in Requests :
    LET Won(s) == rq[s].op = "Delete" /\ (pc[s] = "delobj" \/ resp[s] = "OK")
    IN (r # q /\ Won(r) /\ Won(q)) => rq[r].id # rq[q].id

\* Every request whose stream has been received is answered, or dies in a
\* crash: retries and compensations end, the loops of Add and Sync end.
Responds ==
  \A r \in Requests :
    (pc[r] \notin {"idle", "recv"}) ~> (pc[r] = "idle")

(***************************************************************************)
(* What makes the invariants on the stores inductive.                      *)
(***************************************************************************)

\* The table holds rows that were inserted, and a Sync works through such.
Written ==
  /\ \A id \in alive : born[id] # NoRow
  /\ \A r \in Requests : \A id \in snap[r] : born[id] # NoRow

\* Where a request stands determines what its local variables hold.
LocalsOf(r) ==
  /\ Adding(r) =>
       /\ loc[r] \in Locators
       /\ HasItem(r)
       /\ Item(r).type # "MALFORMED"
       /\ Item(r).sealed # Empty
  /\ pc[r] = "delobj" =>
       /\ loc[r] \in Locators
       /\ rq[r].id \in DataIDs \ alive
       /\ born[rq[r].id] # NoRow
  /\ pc[r] = "getobj" =>
       /\ rq[r].id \in DataIDs
       /\ born[rq[r].id] # NoRow
       /\ loc[r] = born[rq[r].id].loc

Locals == \A r \in Requests : LocalsOf(r)

\* As long as nothing fails no call is in doubt and no context expires.
Calm ==
  ~ faulted =>
    /\ contested = {}
    /\ \A r \in Requests : Holding(r) => live[r]

IndInv ==
  /\ TypeOK
  /\ Written
  /\ Locals
  /\ Calm
  /\ Ownership
  /\ NoDangling
  /\ NoOrphans

-----------------------------------------------------------------------------
(***************************************************************************)
(* Claims of comments and of the protocol files that the code departs from *)
(***************************************************************************)

\* The comment of AddSealed: on an error the object is deleted from ObjectRepo.
\* The object deletion of AddSealed reuses the context metadataRepo.Put used up.
FailedAddLeavesNoObject ==
  \A l \in objects :
    \/ \E id \in alive : born[id].loc = l
    \/ \E r \in Requests : Holding(r) /\ loc[r] = l

\* keeper.proto: Get returns the whole object.  GetSealed reads the row, then
\* the object, and a Delete in between makes it answer OK without bytes, or
\* with those of the object that has taken the locator meanwhile.
GetReturnsObject ==
  \A r \in Requests :
    (rq[r].op = "Get" /\ resp[r] = "OK") =>
      \A m \in sent[r] : m.sealed = born[m.id].sealed

=============================================================================
