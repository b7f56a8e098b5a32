----------------------------- MODULE SealedRepo -----------------------------
(***************************************************************************)
(* db.SealedRepo, the object store on PostgreSQL, behind StoreRouter.      *)
(*                                                                         *)
(* Put runs one transaction per attempt of WithRetry: a blob, its manifest *)
(* entry, commit.  Every attempt reads from the same io.Reader.  Get       *)
(* starts a goroutine that feeds the rows of one query into an io.Pipe,    *)
(* and the caller (getSealedHelper) reads the pipe to its end.  Delete     *)
(* runs a query PostgreSQL rejects.  MetadataRepository, the other writer  *)
(* of these tables, inserts and deletes rows of objects meanwhile.         *)
(*                                                                         *)
(* A blob is inserted with exactly one manifest entry, chunk 0 (AddSealed  *)
(* passes the whole object as one chunk), and is never looked up by its    *)
(* own identifier: a blob is its object and its bytes.                     *)
(***************************************************************************)
EXTENDS WithRetry

CONSTANTS
  Calls,     \* slots for calls that are under way at the same time
  IDs,       \* identifiers of rows of objects
  Payloads,  \* sealed, non-empty byte strings
  Objects,   \* the identifiers clients put into metadata: Put's, and the locators'
  Via,       \* the entrances in use: the StoreRouter, the SealedRepo itself
  PutFirst,  \* rows are inserted only under locators Put returned (AddSealed)
  Failures,  \* the calls that may fail for no reason of their own
  Empty,     \* no bytes
  NoRow,     \* an identifier that was not generated yet
  Gone,      \* an identifier whose row was deleted
  NoID,      \* metadata without identifier
  NoLocator

\* "pg://" and the identifier Put was given.
Locator(id) == <<"pg", id>>

Locators == {Locator(id) : id \in Objects}

FailureKinds == {"Begin", "Query", "Commit", "Read", "Crash"}

ASSUME StoreFailuresAssumption == Failures \subseteq FailureKinds
ASSUME StoreSentinelAssumption ==
  /\ Empty \notin Payloads
  /\ NoRow \notin Locators \cup {Gone}
  /\ Gone \notin Locators
  /\ NoID \notin IDs
  /\ NoLocator \notin Locators
  /\ {"Error", "Nothing"} \cap (Payloads \cup {Empty}) = {}
ASSUME EntranceAssumption == Via \subseteq {"router", "repo"} /\ PutFirst \in BOOLEAN
ASSUME ObjectsAssumption == Objects \subseteq IDs

VARIABLES
  \* the database
  objects,   \* objects[id]: the storage_locator of the row
  blobs,     \* secret_blobs
  manifest,  \* chunk_manifest: the bytes of chunk 0 of each object
  \* the calls
  pc,        \* what each call does next
  rq,        \* its arguments
  tries,     \* the parameter counter of WithRetry
  live,      \* the context of the call has not expired
  drained,   \* the reader of a Put has been read
  tx,        \* the transaction of the current attempt
  \* the goroutine of a Get and its pipe
  writer,    \* what the goroutine does next
  seen,      \* what its query found
  rowsErr,   \* rows.Err() is not nil
  closed,    \* how the pipe was closed
  \* the answers
  got,       \* bytes io.ReadAll has read
  resp,      \* what the last call of the slot returned
  \* history, for the properties only
  spoiled    \* an attempt of this Put failed after it had read the reader

tables   == <<objects, blobs, manifest>>
pipe     == <<writer, seen, rowsErr, closed, got>>
callvars == <<rq, tries, live, drained, tx>>
vars     == <<tables, pc, callvars, pipe, resp, spoiled>>

NoTx == [st |-> "none", blob |-> FALSE, chunk |-> FALSE]

NoCall == [op |-> "None", id |-> NoID, loc |-> NoLocator, sealed |-> Empty]

TypeOK ==
  /\ objects \in [IDs -> Locators \cup {NoRow, Gone}]
  /\ blobs \subseteq [obj : IDs, sealed : Payloads]
  /\ manifest \in [IDs -> Payloads \cup {Empty}]
  /\ pc \in [Calls -> {"idle", "begin", "loop", "manifest", "reading", "delete"}]
  /\ rq \in [Calls -> [op : {"None", "Put", "Get", "Delete"},
                       id : IDs \cup {NoID}, loc : Locators \cup {NoLocator},
                       sealed : Payloads \cup {Empty}]]
  /\ tries \in [Calls -> 0 .. maxAttemptCount]
  /\ live \in [Calls -> BOOLEAN]
  /\ drained \in [Calls -> BOOLEAN]
  /\ tx \in [Calls -> [st : {"none", "open", "aborted"},
                       blob : BOOLEAN, chunk : BOOLEAN]]
  /\ writer \in [Calls -> {"done", "query", "row", "end"}]
  /\ seen \in [Calls -> Payloads \cup {Empty, "Error", "Nothing"}]
  /\ rowsErr \in [Calls -> BOOLEAN]
  /\ closed \in [Calls -> {"open", "EOF", "Error"}]
  /\ got \in [Calls -> Payloads \cup {Empty}]
  /\ resp \in [Calls -> {"None", "OK", "Error"}]
  /\ spoiled \in [Calls -> BOOLEAN]

\* Empty tables, and a process without calls.
Init ==
  /\ objects = [id \in IDs |-> NoRow]
  /\ blobs = {}
  /\ manifest = [id \in IDs |-> Empty]
  /\ pc = [c \in Calls |-> "idle"]
  /\ rq = [c \in Calls |-> NoCall]
  /\ tries = [c \in Calls |-> 0]
  /\ live = [c \in Calls |-> TRUE]
  /\ drained = [c \in Calls |-> FALSE]
  /\ tx = [c \in Calls |-> NoTx]
  /\ writer = [c \in Calls |-> "done"]
  /\ seen = [c \in Calls |-> "Nothing"]
  /\ rowsErr = [c \in Calls |-> FALSE]
  /\ closed = [c \in Calls |-> "open"]
  /\ got = [c \in Calls |-> Empty]
  /\ resp = [c \in Calls |-> "None"]
  /\ spoiled = [c \in Calls |-> FALSE]

-----------------------------------------------------------------------------
(***************************************************************************)
(* Helpers.                                                                *)
(***************************************************************************)

\* A call begins in a slot whose goroutine, if it had one, is done.
Start(c, call, state, goroutine) ==
  /\ pc[c] = "idle"
  /\ writer[c] = "done"
  /\ pc' = [pc EXCEPT ![c] = state]
  /\ rq' = [rq EXCEPT ![c] = call]
  /\ writer' = [writer EXCEPT ![c] = goroutine]
  /\ seen' = [seen EXCEPT ![c] = "Nothing"]
  /\ rowsErr' = [rowsErr EXCEPT ![c] = FALSE]
  /\ closed' = [closed EXCEPT ![c] = "open"]
  /\ got' = [got EXCEPT ![c] = Empty]
  /\ resp' = [resp EXCEPT ![c] = "None"]
  /\ spoiled' = [spoiled EXCEPT ![c] = FALSE]
  /\ UNCHANGED <<tables, tries, live, drained, tx>>

Finish(c, result) ==
  /\ pc' = [pc EXCEPT ![c] = "idle"]
  /\ resp' = [resp EXCEPT ![c] = result]
  /\ tx' = [tx EXCEPT ![c] = NoTx]
  /\ tries' = [tries EXCEPT ![c] = 0]
  /\ live' = [live EXCEPT ![c] = TRUE]
  /\ drained' = [drained EXCEPT ![c] = FALSE]
  /\ rq' = [rq EXCEPT ![c].loc = NoLocator]

\* A failed attempt: WithRetry makes the next one, in time or too late, or
\* returns the error.  The deferred Rollback has ended the transaction.
RetryOrFail(c) ==
  \E retryable \in BOOLEAN :
    \/ /\ MayRetry(tries[c], retryable)
       /\ pc' = [pc EXCEPT ![c] = "begin"]
       /\ tries' = [tries EXCEPT ![c] = @ + 1]
       /\ \E onTime \in BOOLEAN :
            live' = [live EXCEPT ![c] = onTime /\ InTime(tries[c] + 1)]
       /\ tx' = [tx EXCEPT ![c] = NoTx]
       /\ UNCHANGED <<rq, drained, resp>>
    \/ ~ MayRetry(tries[c], retryable) /\ Finish(c, "Error")

-----------------------------------------------------------------------------
(***************************************************************************)
(* StoreRouter.  The storages by type are the ones setupRepos passes; the  *)
(* map by prefix is never filled, so a locator with a known prefix picks a *)
(* nil repository, and calling it ends the process.  Any other locator, as *)
(* the empty one, is answered with an error.                               *)
(***************************************************************************)
ByType == {"DataTypeAuthenticationCredentials", "DataTypeCard", " DataTypeBinary"}

DataTypes == ByType \cup {"DataTypeUnspecified"}

KnownPrefixes == {"s3", "pg"}

ByLocatorPrefix == {}

Prefix(l) == IF l = NoLocator THEN "" ELSE l[1]

\* Put through the router: the storage of the type, or an error.
StartPut(c) ==
  \E t \in DataTypes, id \in Objects \cup {NoID}, p \in Payloads :
    /\ t \in ByType
    /\ Start(c, [NoCall EXCEPT !.op = "Put", !.id = id, !.sealed = p],
             "begin", "done")

\* No storage was picked: the error is returned, and no call was made.
Unrouted(c) ==
  /\ "router" \in Via
  /\ pc[c] = "idle"
  /\ writer[c] = "done"
  /\ rq' = [rq EXCEPT ![c] = NoCall]
  /\ resp' = [resp EXCEPT ![c] = "Error"]
  /\ UNCHANGED <<tables, pc, tries, live, drained, tx, pipe, spoiled>>

PutUnrouted(c) == Unrouted(c) /\ \E t \in DataTypes : t \notin ByType

LocatorUnrouted(c) ==
  Unrouted(c) /\ \E l \in Locators \cup {NoLocator} : Prefix(l) \notin KnownPrefixes

\* Get and Delete of the repository itself, or of a router that finds it.
Reachable(l) == "repo" \in Via \/ ("router" \in Via /\ Prefix(l) \in ByLocatorPrefix)

StartGet(c) ==
  \E l \in Locators :
    /\ Reachable(l)
    /\ Start(c, [NoCall EXCEPT !.op = "Get", !.loc = l], "reading", "query")

StartDelete(c) ==
  \E l \in Locators :
    /\ Reachable(l)
    /\ Start(c, [NoCall EXCEPT !.op = "Delete", !.loc = l], "delete", "done")

\* The process dies: open transactions roll back, the tables stay.
Die ==
  /\ pc' = [c \in Calls |-> "idle"]
  /\ rq' = [c \in Calls |-> NoCall]
  /\ tries' = [c \in Calls |-> 0]
  /\ live' = [c \in Calls |-> TRUE]
  /\ drained' = [c \in Calls |-> FALSE]
  /\ tx' = [c \in Calls |-> NoTx]
  /\ writer' = [c \in Calls |-> "done"]
  /\ seen' = [c \in Calls |-> "Nothing"]
  /\ rowsErr' = [c \in Calls |-> FALSE]
  /\ closed' = [c \in Calls |-> "open"]
  /\ got' = [c \in Calls |-> Empty]
  /\ resp' = [c \in Calls |-> "None"]
  /\ spoiled' = [c \in Calls |-> FALSE]
  /\ UNCHANGED tables

RouterPanic(c) ==
  /\ "router" \in Via
  /\ pc[c] = "idle"
  /\ \E l \in Locators : Prefix(l) \in KnownPrefixes \ ByLocatorPrefix
  /\ Die

Crash == "Crash" \in Failures /\ Die

-----------------------------------------------------------------------------
(***************************************************************************)
(* Put, one attempt: Begin, the loop around putHelper, Commit.             *)
(***************************************************************************)
BeginTx(c) ==
  /\ pc[c] = "begin"
  /\ live[c]
  /\ rq[c].id # NoID
  /\ tx' = [tx EXCEPT ![c].st = "open"]
  /\ pc' = [pc EXCEPT ![c] = "loop"]
  /\ UNCHANGED <<tables, rq, tries, live, drained, pipe, resp, spoiled>>

\* Begin under an expired context, or ToPgUUID of no identifier.
PutRefused(c) ==
  /\ pc[c] = "begin"
  /\ ~ live[c] \/ rq[c].id = NoID
  /\ Finish(c, "Error")
  /\ UNCHANGED <<tables, pipe, spoiled>>

BeginFault(c) ==
  /\ pc[c] = "begin"
  /\ live[c]
  /\ "Begin" \in Failures
  /\ RetryOrFail(c)
  /\ UNCHANGED <<tables, pipe, spoiled>>

\* A statement of the transaction fails; putHelper's error is dropped.
Abort(c) ==
  /\ tx' = [tx EXCEPT ![c].st = "aborted"]
  /\ pc' = [pc EXCEPT ![c] = "loop"]

Blob(c) == [obj |-> rq[c].id, sealed |-> rq[c].sealed]

\* Mutant of InsertBlob: the queries run on the pool, not in the transaction.
InsertBlob_NoTx(c) ==
  /\ pc[c] = "loop"
  /\ ~ drained[c]
  /\ drained' = [drained EXCEPT ![c] = TRUE]
  /\ \/ /\ objects[rq[c].id] \in Locators
        /\ blobs' = blobs \cup {Blob(c)}
        /\ tx' = [tx EXCEPT ![c].blob = TRUE]
        /\ pc' = [pc EXCEPT ![c] = "manifest"]
     \/ /\ objects[rq[c].id] \notin Locators
        /\ Abort(c)
        /\ UNCHANGED blobs
  /\ UNCHANGED <<objects, manifest, rq, tries, live, pipe, resp, spoiled>>

\* putHelper reads the whole object (the hash agrees) and inserts the blob; the
\* foreign key to objects must find the row, and locks it against deletion.
InsertBlob(c) ==
  /\ pc[c] = "loop"
  /\ ~ drained[c]
  /\ drained' = [drained EXCEPT ![c] = TRUE]
  /\ \/ /\ objects[rq[c].id] \in Locators
        /\ tx' = [tx EXCEPT ![c].blob = TRUE]
        /\ pc' = [pc EXCEPT ![c] = "manifest"]
     \/ objects[rq[c].id] \notin Locators /\ Abort(c)
  /\ UNCHANGED <<tables, rq, tries, live, pipe, resp, spoiled>>

\* A transaction that has inserted chunk 0 of the same object is still open:
\* the insert waits for it on the primary key.
ChunkLocked(c) ==
  \E d \in Calls \ {c} :
    tx[d].st = "open" /\ tx[d].chunk /\ rq[d].id = rq[c].id

PutManifest(c) ==
  /\ pc[c] = "manifest"
  /\ ~ ChunkLocked(c)
  /\ \/ /\ manifest[rq[c].id] = Empty
        /\ tx' = [tx EXCEPT ![c].chunk = TRUE]
        /\ pc' = [pc EXCEPT ![c] = "loop"]
     \/ manifest[rq[c].id] # Empty /\ Abort(c)
  /\ UNCHANGED <<tables, rq, tries, live, drained, pipe, resp, spoiled>>

\* An insert fails: the connection is lost, or the context expires.
InsertFault(c) ==
  /\ \/ pc[c] = "loop" /\ ~ drained[c]
     \/ pc[c] = "manifest"
  /\ "Query" \in Failures
  /\ drained' = [drained EXCEPT ![c] = TRUE]
  /\ Abort(c)
  /\ UNCHANGED <<tables, rq, tries, live, pipe, resp, spoiled>>

\* The reader is at its end (io.EOF): the loop is over.
AtEOF(c) == pc[c] = "loop" /\ drained[c]

\* The effects of the transaction of c on the tables.
Apply(c) ==
  /\ blobs' = IF tx[c].blob THEN blobs \cup {Blob(c)} ELSE blobs
  /\ manifest' = IF tx[c].chunk
                 THEN [manifest EXCEPT ![rq[c].id] = rq[c].sealed]
                 ELSE manifest

Commit(c) ==
  /\ AtEOF(c)
  /\ tx[c].st = "open"
  /\ Apply(c)
  /\ Finish(c, "OK")
  /\ UNCHANGED <<objects, pipe, spoiled>>

\* Mutant of CommitAborted: the error of Commit is dropped like putHelper's.
CommitAborted_Ignored(c) ==
  /\ AtEOF(c)
  /\ tx[c].st = "aborted"
  /\ Finish(c, "OK")
  /\ UNCHANGED <<tables, pipe, spoiled>>

\* Commit of an aborted transaction is an error WithRetry does not retry.
CommitAborted(c) ==
  /\ AtEOF(c)
  /\ tx[c].st = "aborted"
  /\ Finish(c, "Error")
  /\ UNCHANGED <<tables, pipe, spoiled>>

\* Commit fails, perhaps after it took effect; another attempt finds the
\* reader at its end.
CommitFault(c) ==
  /\ AtEOF(c)
  /\ tx[c].st = "open"
  /\ "Commit" \in Failures
  /\ Apply(c) \/ UNCHANGED <<blobs, manifest>>
  /\ RetryOrFail(c)
  /\ spoiled' = [spoiled EXCEPT ![c] = TRUE]
  /\ UNCHANGED <<objects, pipe>>

-----------------------------------------------------------------------------
(***************************************************************************)
(* Get: the goroutine writes, io.ReadAll reads.  A pipe keeps the first of *)
(* several closes.                                                         *)
(***************************************************************************)
Chunk(id) ==
  IF [obj |-> id, sealed |-> manifest[id]] \in blobs THEN manifest[id] ELSE Empty

Named(l) == {id \in IDs : objects[id] = l}

\* The result of getQuery: no row, one, or the error of a subquery that yields
\* several identifiers.
Found(l) ==
  IF Named(l) = {} THEN Empty
  ELSE IF \E id \in IDs : Named(l) = {id}
       THEN Chunk(CHOOSE id \in IDs : Named(l) = {id})
       ELSE "Error"

Query(c) ==
  /\ writer[c] = "query"
  /\ seen' = [seen EXCEPT ![c] = Found(rq[c].loc)]
  /\ rowsErr' = [rowsErr EXCEPT ![c] = (Found(rq[c].loc) = "Error")]
  /\ writer' = [writer EXCEPT ![c] =
                  IF Found(rq[c].loc) \in Payloads THEN "row" ELSE "end"]
  /\ UNCHANGED <<tables, pc, callvars, closed, got, resp, spoiled>>

\* Write hands the row to the reader.
Write(c) ==
  /\ writer[c] = "row"
  /\ got' = [got EXCEPT ![c] = seen[c]]
  /\ writer' = [writer EXCEPT ![c] = "end"]
  /\ UNCHANGED <<tables, pc, callvars, seen, rowsErr, closed, resp, spoiled>>

\* The query, Scan or the connection fails, noticed at once (CloseWithError)
\* or by rows.Err() after the loop.
ReadFault(c) ==
  /\ writer[c] # "done"
  /\ closed[c] = "open"
  /\ ~ rowsErr[c]
  /\ "Read" \in Failures
  /\ rowsErr' = [rowsErr EXCEPT ![c] = TRUE]
  /\ \/ UNCHANGED closed
     \/ writer[c] # "end" /\ closed' = [closed EXCEPT ![c] = "Error"]
  /\ writer' = [writer EXCEPT ![c] = "end"]
  /\ UNCHANGED <<tables, pc, callvars, seen, got, resp, spoiled>>

\* Mutant of CloseWriter: the pipe is closed only when there was an error.
CloseWriter_OnlyErrors(c) ==
  /\ writer[c] = "end"
  /\ closed' = [closed EXCEPT ![c] = IF rowsErr[c] THEN "Error" ELSE @]
  /\ writer' = [writer EXCEPT ![c] = "done"]
  /\ rowsErr' = [rowsErr EXCEPT ![c] = FALSE]
  /\ UNCHANGED <<tables, pc, callvars, seen, got, resp, spoiled>>

\* Mutant of CloseWriter: rows.Err() is not looked at.
CloseWriter_NoRowsErr(c) ==
  /\ writer[c] = "end"
  /\ closed' = [closed EXCEPT ![c] = IF @ = "open" THEN "EOF" ELSE @]
  /\ writer' = [writer EXCEPT ![c] = "done"]
  /\ rowsErr' = [rowsErr EXCEPT ![c] = FALSE]
  /\ UNCHANGED <<tables, pc, callvars, seen, got, resp, spoiled>>

\* After the loop: rows.Err(), then the deferred Close.
CloseWriter(c) ==
  /\ writer[c] = "end"
  /\ closed' = [closed EXCEPT ![c] = IF @ # "open" THEN @
                                     ELSE IF rowsErr[c] THEN "Error" ELSE "EOF"]
  /\ writer' = [writer EXCEPT ![c] = "done"]
  /\ rowsErr' = [rowsErr EXCEPT ![c] = FALSE]
  /\ UNCHANGED <<tables, pc, callvars, seen, got, resp, spoiled>>

\* io.ReadAll of getSealedHelper returns; nobody looks at the pipe any more.
ReadAll(c) ==
  /\ pc[c] = "reading"
  /\ closed[c] # "open"
  /\ Finish(c, IF closed[c] = "EOF" THEN "OK" ELSE "Error")
  /\ seen' = [seen EXCEPT ![c] = "Nothing"]
  /\ closed' = [closed EXCEPT ![c] = "open"]
  /\ UNCHANGED <<tables, writer, rowsErr, got, spoiled>>

\* What PostgreSQL makes of the query: it names a table (cm) that its FROM
\* clause has not, which is an error and no reason to retry.
deleteObject == "Error"

\* Mutant of DeleteObject: the error of PostgreSQL is returned as it is.
DeleteObject_RawError(c) ==
  /\ pc[c] = "delete"
  /\ Finish(c, "42P01")
  /\ UNCHANGED <<tables, pipe, spoiled>>

DeleteObject(c) ==
  /\ pc[c] = "delete"
  /\ Finish(c, deleteObject)
  /\ UNCHANGED <<tables, pipe, spoiled>>

-----------------------------------------------------------------------------
(***************************************************************************)
(* MetadataRepository: a row with an identifier of its own and the locator *)
(* it is given; its deletion takes blob and chunk with it, and waits for   *)
(* the transactions that have locked the row.                              *)
(***************************************************************************)
InsertRow(id) ==
  /\ objects[id] = NoRow
  /\ \E l \in Locators :
       /\ PutFirst => \E c \in Calls : /\ rq[c].op = "Put" /\ resp[c] = "OK"
                                      /\ Locator(rq[c].id) = l
       /\ objects' = [objects EXCEPT ![id] = l]
  /\ UNCHANGED <<blobs, manifest, pc, callvars, pipe, resp, spoiled>>

RowLocked(id) ==
  \E c \in Calls : tx[c].st = "open" /\ tx[c].blob /\ rq[c].id = id

DeleteRow(id) ==
  /\ objects[id] \in Locators
  /\ ~ RowLocked(id)
  /\ objects' = [objects EXCEPT ![id] = Gone]
  /\ blobs' = {b \in blobs : b.obj # id}
  /\ manifest' = [manifest EXCEPT ![id] = Empty]
  /\ UNCHANGED <<pc, callvars, pipe, resp, spoiled>>

-----------------------------------------------------------------------------
PutStep(c) ==
  \/ BeginTx(c) \/ PutRefused(c) \/ BeginFault(c)
  \/ InsertBlob(c) \/ PutManifest(c) \/ InsertFault(c)
  \/ Commit(c) \/ CommitAborted(c) \/ CommitFault(c)

WriterStep(c) == Query(c) \/ Write(c) \/ ReadFault(c) \/ CloseWriter(c)

CallStep(c) == PutStep(c) \/ ReadAll(c) \/ DeleteObject(c)

StartStep(c) ==
  \/ StartPut(c) \/ PutUnrouted(c) \/ StartGet(c) \/ StartDelete(c)
  \/ LocatorUnrouted(c) \/ RouterPanic(c)

Next ==
  \/ \E c \in Calls : StartStep(c) \/ CallStep(c) \/ WriterStep(c)
  \/ \E id \in IDs : InsertRow(id) \/ DeleteRow(id)
  \/ Crash

Spec == Init /\ [][Next]_vars

\* A statement returns or its context ends it, and a runnable goroutine runs:
\* each call and each writer keeps making steps.  Nobody has to make calls.
FairSpec ==
  /\ Spec
  /\ \A c \in Calls : WF_vars(CallStep(c)) /\ WF_vars(WriterStep(c))

-----------------------------------------------------------------------------
(***************************************************************************)
(* Properties.                                                             *)
(***************************************************************************)

\* The tables never hold half an object: every blob is the chunk of its object,
\* every chunk has its blob, and both have their row.  Puts of one object race,
\* fail between their inserts, are retried and die with the process.
Integrity ==
  /\ \A b \in blobs : objects[b.obj] \in Locators /\ manifest[b.obj] = b.sealed
  /\ \A id \in IDs :
       manifest[id] # Empty => [obj |-> id, sealed |-> manifest[id]] \in blobs

\* A Put that returned a locator has stored its bytes, or the object's row was
\* deleted meanwhile.  The exception is a Put one of whose attempts failed to
\* commit: the attempts after it find the reader drained, commit nothing and
\* report success.
PutOKMeansStored ==
  \A c \in Calls :
    (rq[c].op = "Put" /\ resp[c] = "OK" /\ ~ spoiled[c]) =>
      manifest[rq[c].id] = rq[c].sealed \/ objects[rq[c].id] = Gone

(***************************************************************************)
(* The contract of ObjectStore.  A Get is under way for its caller until   *)
(* io.ReadAll has returned.                                                *)
(***************************************************************************)
IsGet(c) == rq[c].op = "Get"

Contract == INSTANCE ObjectStore WITH
  row       <- objects,
  blob      <- [id \in IDs |-> Chunk(id)],
  want      <- [c \in Calls |-> IF pc[c] = "reading" THEN rq[c].loc ELSE NoLocator],
  answer    <- [c \in Calls |-> IF ~ IsGet(c) \/ resp[c] = "None" THEN "Nothing"
                                ELSE IF resp[c] = "OK" THEN got[c] ELSE "Error"],
  Nothing   <- "Nothing",
  Error     <- "Error"

\* The repository implements the contract: whatever interleaves and fails, the
\* bytes of an object appear whole and once, and a Get delivers what its query
\* saw or an error, never the beginning of an object that broke off.
KeepsContract == Contract!Spec

\* Every call returns, and the goroutine of every Get ends: the deferred Close
\* ends the reader, the reader's end frees the writer, waiting for another
\* transaction ends with it.
CallsEnd ==
  \A c \in Calls :
    (pc[c] # "idle" \/ writer[c] # "done") ~> (pc[c] = "idle" /\ writer[c] = "done")

-----------------------------------------------------------------------------
(***************************************************************************)
(* A claim the code departs from.                                          *)
(***************************************************************************)

\* The comment of ObjectRepo.Put: it stores the object and returns its locator.
\* Where nothing fails, a Put under an identifier that holds no object, and that
\* no other Put is at, does not return an error.
PutStores ==
  \A c \in Calls :
    (/\ rq[c].op = "Put"
     /\ rq[c].id # NoID
     /\ manifest[rq[c].id] = Empty
     /\ \A d \in Calls \ {c} : rq[d].id # rq[c].id) => resp[c] # "Error"
=============================================================================
