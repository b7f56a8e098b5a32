-------------------------- MODULE SealedRepoProofs --------------------------
(***************************************************************************)
(* Proofs about SealedRepo, for any number of calls, rows, payloads and    *)
(* failures, any entrance and any order of Put and row: the tables stay    *)
(* whole, a Put answered OK has stored its bytes, and the repository       *)
(* implements the contract of ObjectStore.                                 *)
(***************************************************************************)
EXTENDS SealedRepo, TLAPS

(***************************************************************************)
(* Types, in the parts the actions leave alone together.                   *)
(***************************************************************************)
Rows == Locators \cup {NoRow, Gone}

Blobs == [obj : IDs, sealed : Payloads]

Steps == {"idle", "begin", "loop", "manifest", "reading", "delete"}

Arguments ==
  [op : {"None", "Put", "Get", "Delete"}, id : IDs \cup {NoID},
   loc : Locators \cup {NoLocator}, sealed : Payloads \cup {Empty}]

Transactions ==
  [st : {"none", "open", "aborted"}, blob : BOOLEAN, chunk : BOOLEAN]

Seen == Payloads \cup {Empty, "Error", "Nothing"}

TableTypes ==
  /\ objects \in [IDs -> Rows]
  /\ blobs \subseteq Blobs
  /\ manifest \in [IDs -> Payloads \cup {Empty}]

CallTypes ==
  /\ pc \in [Calls -> Steps]
  /\ rq \in [Calls -> Arguments]
  /\ tries \in [Calls -> 0 .. maxAttemptCount]
  /\ live \in [Calls -> BOOLEAN]
  /\ drained \in [Calls -> BOOLEAN]
  /\ tx \in [Calls -> Transactions]
  /\ resp \in [Calls -> {"None", "OK", "Error"}]

PipeTypes ==
  /\ writer \in [Calls -> {"done", "query", "row", "end"}]
  /\ seen \in [Calls -> Seen]
  /\ rowsErr \in [Calls -> BOOLEAN]
  /\ closed \in [Calls -> {"open", "EOF", "Error"}]
  /\ got \in [Calls -> Payloads \cup {Empty}]

HistoryTypes == spoiled \in [Calls -> BOOLEAN]

\* TypeOK is the conjunction of its parts.
LEMMA Parts == TypeOK <=> TableTypes /\ CallTypes /\ PipeTypes /\ HistoryTypes
BY DEF TypeOK, TableTypes, CallTypes, PipeTypes, HistoryTypes, Rows, Blobs, Steps,
       Arguments, Transactions, Seen

\* TypeOK is the conjunction of its parts, after a step too.
LEMMA PartsNext ==
  TypeOK' <=> TableTypes' /\ CallTypes' /\ PipeTypes' /\ HistoryTypes'
BY DEF TypeOK, TableTypes, CallTypes, PipeTypes, HistoryTypes, Rows, Blobs, Steps,
       Arguments, Transactions, Seen

-----------------------------------------------------------------------------
(***************************************************************************)
(* The inductive invariant.  What one call holds, what the pipe of one Get *)
(* holds, and what the transactions keep away from each other.             *)
(***************************************************************************)

\* Each state of a call, with its transaction and its reader.  A reader that is
\* at its end in a new attempt was drained by an attempt that failed to commit;
\* a transaction that can be committed has inserted both rows or, then, none.
Attempt(c) ==
  \/ pc[c] \in {"idle", "reading", "delete"} /\ tx[c] = NoTx /\ ~ drained[c]
  \/ pc[c] = "begin" /\ tx[c] = NoTx /\ (drained[c] => spoiled[c])
  \/ /\ pc[c] = "loop" /\ ~ drained[c]
     /\ tx[c].st = "open" /\ ~ tx[c].blob /\ ~ tx[c].chunk
  \/ pc[c] = "manifest" /\ drained[c] /\ tx[c].st = "open" /\ tx[c].blob /\ ~ tx[c].chunk
  \/ /\ pc[c] = "loop" /\ drained[c] /\ tx[c].st = "open"
     /\ \/ tx[c].blob /\ tx[c].chunk
        \/ ~ tx[c].blob /\ ~ tx[c].chunk /\ spoiled[c]
  \/ pc[c] = "loop" /\ drained[c] /\ tx[c].st = "aborted"

\* What a call under way was called with, and that it is not answered yet.
Caller(c) ==
  /\ pc[c] \in {"begin", "loop", "manifest"} =>
       rq[c].op = "Put" /\ rq[c].sealed \in Payloads
  /\ pc[c] \in {"loop", "manifest"} => rq[c].id \in IDs
  /\ rq[c].op = "Put" /\ resp[c] = "OK" => rq[c].id \in IDs /\ rq[c].sealed \in Payloads
  /\ pc[c] = "reading" => rq[c].op = "Get" /\ rq[c].loc \in Locators
  /\ pc[c] = "delete" => rq[c].op = "Delete"
  /\ pc[c] # "idle" => resp[c] = "None"

\* The pipe: until it is closed without an error, what its reader has got is
\* either nothing yet or all that the query saw.
Piped(c) ==
  /\ pc[c] # "reading" => seen[c] = "Nothing"
  /\ writer[c] \in {"query", "row"} =>
       pc[c] = "reading" /\ closed[c] = "open" /\ ~ rowsErr[c] /\ got[c] = Empty
  /\ writer[c] = "query" => seen[c] = "Nothing"
  /\ writer[c] = "row" => seen[c] \in Payloads
  /\ writer[c] = "end" /\ closed[c] = "open" /\ ~ rowsErr[c] =>
       pc[c] = "reading" /\ seen[c] = got[c]
  /\ writer[c] = "end" /\ closed[c] = "Error" => rowsErr[c]
  /\ closed[c] = "EOF" => writer[c] = "done" /\ pc[c] = "reading" /\ seen[c] = got[c]

Local(c) == Attempt(c) /\ Caller(c) /\ Piped(c)

Open(c) == tx[c].st = "open"

\* A blob that is not committed yet keeps its row, a chunk keeps its place in
\* the manifest, and no two transactions hold the same one.
Locks ==
  /\ \A c \in Calls : Open(c) /\ tx[c].blob => objects[rq[c].id] \in Locators
  /\ \A c \in Calls : Open(c) /\ tx[c].chunk => manifest[rq[c].id] = Empty
  /\ \A c, d \in Calls :
       c # d /\ Open(c) /\ tx[c].chunk /\ Open(d) /\ tx[d].chunk => rq[c].id # rq[d].id

IndInv ==
  /\ TypeOK
  /\ \A c \in Calls : Local(c)
  /\ Locks
  /\ Integrity
  /\ PutOKMeansStored

-----------------------------------------------------------------------------
(***************************************************************************)
(* What the helpers of the actions do to the types.                        *)
(***************************************************************************)

\* The arguments of a slot nobody has called are well typed.
LEMMA NoCallType == NoCall \in Arguments
BY DEF NoCall, Arguments

\* So is the absence of a transaction.
LEMMA NoTxType == NoTx \in Transactions
BY DEF NoTx, Transactions

\* A call that starts leaves well-typed variables behind.
LEMMA StartTypes ==
  ASSUME TypeOK, NEW c \in Calls, NEW call \in Arguments, NEW state \in Steps,
         NEW goroutine \in {"done", "query"}, Start(c, call, state, goroutine)
  PROVE  TypeOK'
<1>0. TableTypes /\ CallTypes /\ PipeTypes /\ HistoryTypes
  BY Parts
<1>1. TableTypes' /\ HistoryTypes'
  BY <1>0 DEF Start, tables, TableTypes, HistoryTypes
<1>2. CallTypes'
  BY <1>0 DEF Start, CallTypes
<1>3. PipeTypes'
  BY <1>0 DEF Start, PipeTypes, Seen
<1> QED
  BY <1>1, <1>2, <1>3, PartsNext

\* So does a call that returns.
LEMMA FinishTypes ==
  ASSUME TypeOK, NEW c \in Calls, NEW result \in {"OK", "Error"}, Finish(c, result)
  PROVE  CallTypes'
<1>0. CallTypes
  BY Parts
<1>1. rq[c] \in Arguments
  BY <1>0 DEF CallTypes
<1>2. [rq[c] EXCEPT !.loc = NoLocator] \in Arguments
  BY <1>1 DEF Arguments
<1>3. rq' \in [Calls -> Arguments]
  BY <1>0, <1>2 DEF Finish, CallTypes
<1>4. tries' \in [Calls -> 0 .. maxAttemptCount]
  BY <1>0 DEF Finish, CallTypes, maxAttemptCount
<1> QED
  BY <1>0, <1>3, <1>4, NoTxType DEF Finish, CallTypes, Steps

\* And one that is retried, whose counter stays within WithRetry's limit.
LEMMA RetryTypes ==
  ASSUME TypeOK, NEW c \in Calls, RetryOrFail(c)
  PROVE  CallTypes'
<1>0. CallTypes
  BY Parts
<1>1. CASE Finish(c, "Error")
  BY <1>1, FinishTypes
<1>2. CASE ~ Finish(c, "Error")
  <2>1. PICK retryable \in BOOLEAN :
          /\ MayRetry(tries[c], retryable)
          /\ pc' = [pc EXCEPT ![c] = "begin"]
          /\ tries' = [tries EXCEPT ![c] = @ + 1]
          /\ \E onTime \in BOOLEAN :
               live' = [live EXCEPT ![c] = onTime /\ InTime(tries[c] + 1)]
          /\ tx' = [tx EXCEPT ![c] = NoTx]
          /\ UNCHANGED <<rq, drained, resp>>
    BY <1>2 DEF RetryOrFail
  <2>2. tries[c] \in 0 .. maxAttemptCount /\ tries[c] < maxAttemptCount
    BY <1>0, <2>1 DEF CallTypes, MayRetry
  <2>3. tries[c] + 1 \in 0 .. maxAttemptCount
    BY <2>2 DEF maxAttemptCount
  <2>4. tries' \in [Calls -> 0 .. maxAttemptCount]
    BY <1>0, <2>1, <2>3 DEF CallTypes
  <2>5. live' \in [Calls -> BOOLEAN]
    BY <1>0, <2>1 DEF CallTypes
  <2> QED
    BY <1>0, <2>1, <2>4, <2>5, NoTxType DEF CallTypes, Steps
<1> QED
  BY <1>1, <1>2

(***************************************************************************)
(* A step of one call leaves the others alone.                             *)
(***************************************************************************)
Alone(d) ==
  /\ pc'[d] = pc[d] /\ rq'[d] = rq[d] /\ drained'[d] = drained[d] /\ tx'[d] = tx[d]
  /\ writer'[d] = writer[d] /\ seen'[d] = seen[d] /\ rowsErr'[d] = rowsErr[d]
  /\ closed'[d] = closed[d] /\ got'[d] = got[d]
  /\ resp'[d] = resp[d] /\ spoiled'[d] = spoiled[d]

Others(c) == \A d \in Calls \ {c} : Alone(d)

\* A call that another one's step leaves alone keeps what it holds.
LEMMA AloneLocal ==
  ASSUME NEW d \in Calls, Local(d), Alone(d)
  PROVE  Local(d)'
<1>1. Attempt(d)'
  BY DEF Local, Alone, Attempt
<1>2. Caller(d)'
  BY DEF Local, Alone, Caller
<1>3. Piped(d)'
  BY DEF Local, Alone, Piped
<1> QED
  BY <1>1, <1>2, <1>3 DEF Local

\* The transaction of c holds no more than before.
Releases(c) ==
  Open(c)' => /\ rq'[c].id = rq[c].id
              /\ tx'[c].blob => Open(c) /\ tx[c].blob
              /\ tx'[c].chunk => Open(c) /\ tx[c].chunk

\* The Put of c is not one that has just been answered OK.
NotAnswered(c) ==
  rq'[c].op = "Put" /\ resp'[c] = "OK" /\ ~ spoiled'[c] =>
    /\ rq[c].op = "Put" /\ resp[c] = "OK" /\ ~ spoiled[c]
    /\ rq'[c].id = rq[c].id /\ rq'[c].sealed = rq[c].sealed

\* Steps that leave the tables alone and let the locks hold.
LEMMA LockStep ==
  ASSUME IndInv, NEW c \in Calls, UNCHANGED tables, Others(c), TypeOK', Local(c)',
         Locks', NotAnswered(c)
  PROVE  IndInv'
<1>1. \A d \in Calls : Local(d)'
  BY AloneLocal DEF IndInv, Others
<1>2. UNCHANGED <<objects, blobs, manifest>>
  BY DEF tables
<1>3. Integrity'
  BY <1>2 DEF IndInv, Integrity
<1>4. PutOKMeansStored'
  <2> SUFFICES ASSUME NEW d \in Calls,
                      rq'[d].op = "Put" /\ resp'[d] = "OK" /\ ~ spoiled'[d]
               PROVE  manifest'[rq'[d].id] = rq'[d].sealed \/ objects'[rq'[d].id] = Gone
    BY DEF PutOKMeansStored
  <2>1. /\ rq[d].op = "Put" /\ resp[d] = "OK" /\ ~ spoiled[d]
        /\ rq'[d].id = rq[d].id /\ rq'[d].sealed = rq[d].sealed
    BY DEF Others, Alone, NotAnswered
  <2> QED
    BY <1>2, <2>1 DEF IndInv, PutOKMeansStored
<1> QED
  BY <1>1, <1>3, <1>4 DEF IndInv

\* Steps that lock nothing new.
LEMMA QuietStep ==
  ASSUME IndInv, NEW c \in Calls, UNCHANGED tables, Others(c), TypeOK', Local(c)',
         Releases(c), NotAnswered(c)
  PROVE  IndInv'
<1>1. \A d \in Calls : /\ Open(d)' => rq'[d].id = rq[d].id
                       /\ Open(d)' /\ tx'[d].blob => Open(d) /\ tx[d].blob
                       /\ Open(d)' /\ tx'[d].chunk => Open(d) /\ tx[d].chunk
  BY DEF Others, Alone, Releases, Open
<1>2. UNCHANGED <<objects, manifest>>
  BY DEF tables
<1>3. \A d \in Calls : (Open(d) /\ tx[d].blob)' => objects'[rq'[d].id] \in Locators
  BY <1>1, <1>2 DEF IndInv, Locks
<1>4. \A d \in Calls : (Open(d) /\ tx[d].chunk)' => manifest'[rq'[d].id] = Empty
  BY <1>1, <1>2 DEF IndInv, Locks
<1>5. \A d, e \in Calls :
        d # e /\ (Open(d) /\ tx[d].chunk /\ Open(e) /\ tx[e].chunk)'
          => rq'[d].id # rq'[e].id
  BY <1>1 DEF IndInv, Locks
<1>6. Locks'
  BY <1>3, <1>4, <1>5 DEF Locks
<1> QED
  BY <1>6, LockStep

-----------------------------------------------------------------------------
(***************************************************************************)
(* The actions, one after the other.                                       *)
(***************************************************************************)

\* A call begins: nothing is left in its slot of the call before.
LEMMA StartInd ==
  ASSUME IndInv, NEW c \in Calls, NEW call \in Arguments,
         NEW state \in {"begin", "reading", "delete"}, NEW goroutine,
         Start(c, call, state, goroutine),
         goroutine = IF state = "reading" THEN "query" ELSE "done",
         state = "begin" => call.op = "Put" /\ call.sealed \in Payloads,
         state = "reading" => call.op = "Get" /\ call.loc \in Locators,
         state = "delete" => call.op = "Delete"
  PROVE  IndInv'
<1>0. CallTypes /\ PipeTypes /\ HistoryTypes /\ TypeOK
  BY Parts DEF IndInv
<1>1. TypeOK'
  BY <1>0, StartTypes DEF Steps
<1>2. Others(c) /\ UNCHANGED tables
  BY <1>0 DEF Start, Others, Alone, CallTypes, PipeTypes, HistoryTypes
<1>3. /\ pc[c] = "idle" /\ pc'[c] = state /\ rq'[c] = call /\ writer'[c] = goroutine
      /\ seen'[c] = "Nothing" /\ rowsErr'[c] = FALSE /\ closed'[c] = "open"
      /\ got'[c] = Empty /\ resp'[c] = "None" /\ spoiled'[c] = FALSE
      /\ UNCHANGED <<drained, tx>>
  BY <1>0 DEF Start, CallTypes, PipeTypes, HistoryTypes
<1>4. tx[c] = NoTx /\ ~ drained[c]
  BY <1>3 DEF IndInv, Local, Attempt
<1>5. Attempt(c)'
  BY <1>3, <1>4 DEF Attempt
<1>6. Caller(c)'
  BY <1>3 DEF Caller
<1>7. Piped(c)'
  BY <1>3 DEF Piped
<1>8. Releases(c) /\ NotAnswered(c)
  BY <1>3, <1>4 DEF Releases, NotAnswered, Open, NoTx
<1> QED
  BY <1>1, <1>2, <1>5, <1>6, <1>7, <1>8, QuietStep DEF Local

\* Calls start with no transaction, an unread reader and an open pipe.
LEMMA StartStepInd ==
  ASSUME IndInv, NEW c \in Calls,
         StartPut(c) \/ Unrouted(c) \/ StartGet(c) \/ StartDelete(c)
  PROVE  IndInv'
<1>1. CASE StartPut(c)
  <2>1. PICK id \in Objects \cup {NoID}, p \in Payloads :
          Start(c, [NoCall EXCEPT !.op = "Put", !.id = id, !.sealed = p], "begin", "done")
    BY <1>1 DEF StartPut
  <2> DEFINE call == [NoCall EXCEPT !.op = "Put", !.id = id, !.sealed = p]
  <2>2. call \in Arguments /\ call.op = "Put" /\ call.sealed \in Payloads
    BY ObjectsAssumption DEF NoCall, Arguments
  <2>3. Start(c, call, "begin", "done")
    BY <2>1
  <2> HIDE DEF call
  <2> QED
    BY <2>2, <2>3, StartInd
<1>2. CASE StartGet(c)
  <2>1. PICK l \in Locators :
          Start(c, [NoCall EXCEPT !.op = "Get", !.loc = l], "reading", "query")
    BY <1>2 DEF StartGet
  <2> DEFINE call == [NoCall EXCEPT !.op = "Get", !.loc = l]
  <2>2. call \in Arguments /\ call.op = "Get" /\ call.loc \in Locators
    BY DEF NoCall, Arguments
  <2>3. Start(c, call, "reading", "query")
    BY <2>1
  <2> HIDE DEF call
  <2> QED
    BY <2>2, <2>3, StartInd
<1>3. CASE StartDelete(c)
  <2>1. PICK l \in Locators :
          Start(c, [NoCall EXCEPT !.op = "Delete", !.loc = l], "delete", "done")
    BY <1>3 DEF StartDelete
  <2> DEFINE call == [NoCall EXCEPT !.op = "Delete", !.loc = l]
  <2>2. call \in Arguments /\ call.op = "Delete"
    BY DEF NoCall, Arguments
  <2>3. Start(c, call, "delete", "done")
    BY <2>1
  <2> HIDE DEF call
  <2> QED
    BY <2>2, <2>3, StartInd
<1>4. CASE Unrouted(c)
  <2>0. TableTypes /\ CallTypes /\ PipeTypes /\ HistoryTypes
    BY Parts DEF IndInv
  <2>1. UNCHANGED <<tables, pc, tries, live, drained, tx, pipe, spoiled>>
    BY <1>4 DEF Unrouted
  <2>2. rq'[c] = NoCall /\ resp'[c] = "Error" /\ pc[c] = "idle"
    BY <1>4, <2>0 DEF Unrouted, CallTypes
  <2>3. CallTypes'
    BY <1>4, <2>0, <2>1, NoCallType DEF Unrouted, CallTypes
  <2>4. TypeOK'
    BY <2>0, <2>1, <2>3, PartsNext DEF tables, pipe, TableTypes, PipeTypes, HistoryTypes
  <2>5. Others(c)
    BY <1>4, <2>0, <2>1 DEF Unrouted, Others, Alone, CallTypes, pipe
  <2>6. Attempt(c)'
    BY <2>1 DEF IndInv, Local, Attempt
  <2>7. Caller(c)'
    BY <2>1, <2>2 DEF IndInv, Local, Caller, NoCall
  <2>8. Piped(c)'
    BY <2>1 DEF IndInv, Local, Piped, pipe
  <2>9. Releases(c) /\ NotAnswered(c)
    <3>1. tx[c] = NoTx
      BY <2>2 DEF IndInv, Local, Attempt
    <3> QED
      BY <2>1, <2>2, <3>1 DEF Releases, NotAnswered, Open, NoTx
  <2> QED
    BY <2>1, <2>4, <2>5, <2>6, <2>7, <2>8, <2>9, QuietStep DEF Local
<1> QED
  BY <1>1, <1>2, <1>3, <1>4

\* The end of a call as it leaves its slot.
LEMMA FinishLocal ==
  ASSUME IndInv, NEW c \in Calls, NEW result \in {"OK", "Error"}, Finish(c, result)
  PROVE  /\ pc'[c] = "idle" /\ resp'[c] = result /\ tx'[c] = NoTx /\ ~ drained'[c]
         /\ rq'[c] = [rq[c] EXCEPT !.loc = NoLocator]
         /\ rq'[c].op = rq[c].op /\ rq'[c].id = rq[c].id
         /\ rq'[c].sealed = rq[c].sealed
         /\ \A d \in Calls \ {c} :
              /\ pc'[d] = pc[d] /\ resp'[d] = resp[d] /\ tx'[d] = tx[d]
              /\ drained'[d] = drained[d] /\ rq'[d] = rq[d]
<1>1. CallTypes
  BY Parts DEF IndInv
<1>2. rq[c] \in Arguments
  BY <1>1 DEF CallTypes
<1>3. rq'[c] = [rq[c] EXCEPT !.loc = NoLocator]
  BY <1>1 DEF Finish, CallTypes
<1>4. rq'[c].op = rq[c].op /\ rq'[c].id = rq[c].id /\ rq'[c].sealed = rq[c].sealed
  BY <1>2, <1>3 DEF Arguments
<1> QED
  BY <1>1, <1>3, <1>4 DEF Finish, CallTypes

\* A call that ends without success, or is no Put.
LEMMA FinishInd ==
  ASSUME IndInv, NEW c \in Calls, NEW result \in {"OK", "Error"}, Finish(c, result),
         UNCHANGED <<tables, spoiled>>, PipeTypes', Piped(c)',
         \A d \in Calls \ {c} : /\ writer'[d] = writer[d] /\ seen'[d] = seen[d]
                                /\ rowsErr'[d] = rowsErr[d] /\ closed'[d] = closed[d]
                                /\ got'[d] = got[d],
         result = "OK" => rq[c].op # "Put"
  PROVE  IndInv'
<1>0. TableTypes /\ CallTypes /\ PipeTypes /\ HistoryTypes /\ TypeOK
  BY Parts DEF IndInv
<1>1. TypeOK'
  BY <1>0, FinishTypes, PartsNext DEF tables, TableTypes, HistoryTypes
<1>2. Others(c)
  <2>1. \A d \in Calls \ {c} : /\ pc'[d] = pc[d] /\ resp'[d] = resp[d] /\ tx'[d] = tx[d]
                               /\ drained'[d] = drained[d] /\ rq'[d] = rq[d]
    BY FinishLocal
  <2> QED
    BY <2>1 DEF Others, Alone
<1>3. /\ pc'[c] = "idle" /\ resp'[c] = result /\ tx'[c] = NoTx /\ ~ drained'[c]
      /\ rq'[c].op = rq[c].op /\ rq'[c].id = rq[c].id
  BY FinishLocal
<1>4. Attempt(c)'
  BY <1>3 DEF Attempt
<1>5. Caller(c)'
  BY <1>3 DEF Caller
<1>6. Releases(c) /\ NotAnswered(c)
  BY <1>3 DEF Releases, NotAnswered, Open, NoTx
<1> QED
  BY <1>1, <1>2, <1>4, <1>5, <1>6, QuietStep DEF Local

\* The pipe of a call that is not at it.
LEMMA PipeAside ==
  ASSUME IndInv, NEW c \in Calls, UNCHANGED pipe, pc[c] # "reading", pc'[c] # "reading"
  PROVE  Piped(c)' /\ PipeTypes'
<1>1. PipeTypes
  BY Parts DEF IndInv
<1>2. UNCHANGED <<writer, seen, rowsErr, closed, got>>
  BY DEF pipe
<1>3. Piped(c)'
  BY <1>2 DEF IndInv, Local, Piped
<1> QED
  BY <1>1, <1>2, <1>3 DEF PipeTypes

\* A call that returns an error gives up what it held.
LEMMA FailInd ==
  ASSUME IndInv, NEW c \in Calls, Finish(c, "Error"), pc[c] # "reading",
         UNCHANGED <<tables, pipe, spoiled>>
  PROVE  IndInv'
<1>1. pc'[c] = "idle"
  BY FinishLocal
<1>2. Piped(c)' /\ PipeTypes'
  BY <1>1, PipeAside
<1> QED
  BY <1>2, FinishInd DEF pipe

\* Steps of a Put that touch neither tables nor pipe and stay in the call.
PutStays(c) ==
  /\ UNCHANGED <<tables, pipe, rq, resp, spoiled>>
  /\ pc[c] \in {"begin", "loop", "manifest"}
  /\ pc'[c] \in {"begin", "loop", "manifest"}
  /\ pc'[c] # "begin" => rq[c].id \in IDs
  /\ \A d \in Calls \ {c} : pc'[d] = pc[d] /\ drained'[d] = drained[d] /\ tx'[d] = tx[d]

\* A Put that goes on within its attempt changes its own state only.
LEMMA PutStaysLocal ==
  ASSUME IndInv, NEW c \in Calls, PutStays(c), CallTypes', Attempt(c)'
  PROVE  TypeOK' /\ Others(c) /\ Local(c)' /\ NotAnswered(c) /\ UNCHANGED tables
<1>0. TableTypes /\ PipeTypes /\ HistoryTypes
  BY Parts DEF IndInv
<1>00. UNCHANGED <<tables, pipe, rq, resp, spoiled>>
  BY DEF PutStays
<1>1. Piped(c)' /\ PipeTypes'
  BY PipeAside DEF PutStays
<1>2. TypeOK'
  BY <1>0, <1>00, <1>1, PartsNext DEF tables, TableTypes, HistoryTypes
<1>3. Others(c)
  BY <1>00 DEF PutStays, Others, Alone, pipe
<1>4. Caller(c)'
  BY DEF IndInv, Local, Caller, PutStays
<1>5. NotAnswered(c)
  BY <1>00 DEF NotAnswered
<1> QED
  BY <1>00, <1>1, <1>2, <1>3, <1>4, <1>5 DEF Local

\* Such a step is safe when the transaction takes no new lock.
LEMMA PutQuiet ==
  ASSUME IndInv, NEW c \in Calls, PutStays(c), CallTypes', Attempt(c)', Releases(c)
  PROVE  IndInv'
BY PutStaysLocal, QuietStep

\* And when the locks stay apart although it does.
LEMMA PutLocks ==
  ASSUME IndInv, NEW c \in Calls, PutStays(c), CallTypes', Attempt(c)', Locks'
  PROVE  IndInv'
BY PutStaysLocal, LockStep

\* Begin opens a transaction without writes, or the Put ends or is retried.
LEMMA BeginInd ==
  ASSUME IndInv, NEW c \in Calls, BeginTx(c) \/ PutRefused(c) \/ BeginFault(c)
  PROVE  IndInv'
<1>0. CallTypes
  BY Parts DEF IndInv
<1>00. rq[c].id \in IDs \cup {NoID}
  BY <1>0 DEF CallTypes, Arguments
<1>1. CASE BeginTx(c)
  <2>1. tx[c] = NoTx /\ (drained[c] => spoiled[c])
    BY <1>1 DEF BeginTx, IndInv, Local, Attempt
  <2>2. tx'[c] = [NoTx EXCEPT !.st = "open"]
    BY <1>0, <1>1, <2>1 DEF BeginTx, CallTypes
  <2>3. tx'[c] \in Transactions /\ tx'[c].st = "open" /\ ~ tx'[c].blob /\ ~ tx'[c].chunk
    BY <2>2 DEF NoTx, Transactions
  <2>4. pc'[c] = "loop" /\ UNCHANGED <<tables, rq, drained, pipe, resp, spoiled>>
    BY <1>0, <1>1 DEF BeginTx, CallTypes
  <2>5. tx' \in [Calls -> Transactions]
    BY <1>0, <1>1, <2>2, <2>3 DEF BeginTx, CallTypes
  <2>6. CallTypes'
    BY <1>0, <1>1, <2>5 DEF BeginTx, CallTypes, Steps
  <2>7. Attempt(c)'
    BY <2>1, <2>3, <2>4 DEF Attempt
  <2>8. Releases(c)
    BY <2>3, <2>4 DEF Releases
  <2>9. rq[c].id \in IDs /\ pc[c] = "begin"
    BY <1>00, <1>1 DEF BeginTx
  <2>10. \A d \in Calls \ {c} : pc'[d] = pc[d] /\ drained'[d] = drained[d] /\ tx'[d] = tx[d]
    BY <1>0, <1>1 DEF BeginTx, CallTypes
  <2> QED
    BY <2>4, <2>6, <2>7, <2>8, <2>9, <2>10, PutQuiet DEF PutStays
<1>2. CASE PutRefused(c)
  BY <1>2, FailInd DEF PutRefused
<1>3. CASE BeginFault(c)
  <2>1. CASE Finish(c, "Error")
    BY <1>3, <2>1, FailInd DEF BeginFault
  <2>2. CASE ~ Finish(c, "Error")
    <3>1. /\ pc' = [pc EXCEPT ![c] = "begin"]
          /\ tx' = [tx EXCEPT ![c] = NoTx]
          /\ UNCHANGED <<rq, drained, resp>>
      BY <1>3, <2>2 DEF BeginFault, RetryOrFail
    <3>2. CallTypes' /\ UNCHANGED <<tables, pipe, spoiled>> /\ pc[c] = "begin"
      BY <1>3, RetryTypes DEF BeginFault, IndInv
    <3>3. pc'[c] = "begin" /\ tx'[c] = NoTx
      BY <1>0, <3>1 DEF CallTypes
    <3>4. Attempt(c)' /\ Releases(c)
      BY <3>1, <3>2, <3>3 DEF IndInv, Local, Attempt, Releases, Open, NoTx
    <3>5. \A d \in Calls \ {c} : pc'[d] = pc[d] /\ drained'[d] = drained[d] /\ tx'[d] = tx[d]
      BY <1>0, <3>1 DEF CallTypes
    <3> QED
      BY <3>1, <3>2, <3>3, <3>4, <3>5, PutQuiet DEF PutStays
  <2> QED
    BY <2>1, <2>2
<1> QED
  BY <1>1, <1>2, <1>3

\* A transaction that a failed statement has aborted.
LEMMA AbortInd ==
  ASSUME IndInv, NEW c \in Calls, Abort(c), pc[c] \in {"loop", "manifest"},
         drained' = [drained EXCEPT ![c] = TRUE],
         UNCHANGED <<tables, rq, tries, live, pipe, resp, spoiled>>
  PROVE  IndInv'
<1>0. CallTypes
  BY Parts DEF IndInv
<1>1. tx[c] \in Transactions
  BY <1>0 DEF CallTypes
<1>2. tx'[c] = [tx[c] EXCEPT !.st = "aborted"]
  BY <1>0 DEF Abort, CallTypes
<1>3. tx'[c] \in Transactions /\ tx'[c].st = "aborted"
  BY <1>1, <1>2 DEF Transactions
<1>4. tx' \in [Calls -> Transactions]
  BY <1>0, <1>2, <1>3 DEF Abort, CallTypes
<1>5. CallTypes'
  BY <1>0, <1>4 DEF Abort, CallTypes, Steps
<1>6. pc'[c] = "loop" /\ drained'[c]
  BY <1>0 DEF Abort, CallTypes
<1>7. Attempt(c)' /\ Releases(c)
  BY <1>3, <1>6 DEF Attempt, Releases, Open
<1>8. PutStays(c)
  <2>1. rq[c].id \in IDs
    BY DEF IndInv, Local, Caller
  <2>2. \A d \in Calls \ {c} : pc'[d] = pc[d] /\ drained'[d] = drained[d] /\ tx'[d] = tx[d]
    BY <1>0 DEF Abort, CallTypes
  <2> QED
    BY <1>6, <2>1, <2>2 DEF PutStays
<1> QED
  BY <1>5, <1>7, <1>8, PutQuiet

\* The two inserts of a transaction, and their locks.
LEMMA InsertInd ==
  ASSUME IndInv, NEW c \in Calls, InsertBlob(c) \/ PutManifest(c) \/ InsertFault(c)
  PROVE  IndInv'
<1>0. CallTypes
  BY Parts DEF IndInv
<1>1. tx[c] \in Transactions
  BY <1>0 DEF CallTypes
<1>2. pc[c] \in {"loop", "manifest"} /\ rq[c].id \in IDs
  BY DEF InsertBlob, PutManifest, InsertFault, IndInv, Local, Caller
<1>3. CASE InsertBlob(c) /\ Abort(c)
  BY <1>2, <1>3, AbortInd DEF InsertBlob
<1>4. CASE InsertBlob(c) /\ ~ Abort(c)
  <2>1. /\ objects[rq[c].id] \in Locators
        /\ drained' = [drained EXCEPT ![c] = TRUE]
        /\ tx' = [tx EXCEPT ![c].blob = TRUE]
        /\ pc' = [pc EXCEPT ![c] = "manifest"]
        /\ UNCHANGED <<tables, rq, tries, live, pipe, resp, spoiled>>
        /\ pc[c] = "loop" /\ ~ drained[c]
    BY <1>4 DEF InsertBlob
  <2>2. tx[c].st = "open" /\ ~ tx[c].blob /\ ~ tx[c].chunk
    BY <2>1 DEF IndInv, Local, Attempt, NoTx
  <2>3. tx'[c] = [tx[c] EXCEPT !.blob = TRUE]
    BY <1>0, <2>1 DEF CallTypes
  <2>4. tx'[c] \in Transactions /\ tx'[c].st = "open" /\ tx'[c].blob /\ ~ tx'[c].chunk
    BY <1>1, <2>2, <2>3 DEF Transactions
  <2>5. tx' \in [Calls -> Transactions]
    BY <1>0, <2>1, <2>3, <2>4 DEF CallTypes
  <2>6. CallTypes'
    BY <1>0, <2>1, <2>5 DEF CallTypes, Steps
  <2>7. Attempt(c)'
    BY <1>0, <2>1, <2>4 DEF Attempt, CallTypes
  <2>8. \A d \in Calls \ {c} : pc'[d] = pc[d] /\ drained'[d] = drained[d] /\ tx'[d] = tx[d]
    BY <1>0, <2>1 DEF CallTypes
  <2>9. PutStays(c)
    BY <1>0, <1>2, <2>1, <2>8 DEF PutStays, CallTypes
  <2>10. Locks'
    <3>1. UNCHANGED <<objects, manifest, rq>>
      BY <2>1 DEF tables
    <3> QED
      BY <2>1, <2>4, <2>8, <3>1 DEF IndInv, Locks, Open
  <2> QED
    BY <2>6, <2>7, <2>9, <2>10, PutLocks
<1>5. CASE PutManifest(c) /\ Abort(c)
  <2>1. drained[c]
    BY <1>5 DEF PutManifest, IndInv, Local, Attempt
  <2>2. drained' = [drained EXCEPT ![c] = TRUE]
    BY <1>0, <1>5, <2>1 DEF PutManifest, CallTypes
  <2> QED
    BY <1>2, <1>5, <2>2, AbortInd DEF PutManifest
<1>6. CASE PutManifest(c) /\ ~ Abort(c)
  <2>1. /\ manifest[rq[c].id] = Empty
        /\ ~ ChunkLocked(c)
        /\ tx' = [tx EXCEPT ![c].chunk = TRUE]
        /\ pc' = [pc EXCEPT ![c] = "loop"]
        /\ UNCHANGED <<tables, rq, tries, live, drained, pipe, resp, spoiled>>
        /\ pc[c] = "manifest"
    BY <1>6 DEF PutManifest
  <2>2. tx[c].st = "open" /\ tx[c].blob /\ ~ tx[c].chunk /\ drained[c]
    BY <2>1 DEF IndInv, Local, Attempt
  <2>3. tx'[c] = [tx[c] EXCEPT !.chunk = TRUE]
    BY <1>0, <2>1 DEF CallTypes
  <2>4. tx'[c] \in Transactions /\ tx'[c].st = "open" /\ tx'[c].blob /\ tx'[c].chunk
    BY <1>1, <2>2, <2>3 DEF Transactions
  <2>5. tx' \in [Calls -> Transactions]
    BY <1>0, <2>1, <2>3, <2>4 DEF CallTypes
  <2>6. CallTypes'
    BY <1>0, <2>1, <2>5 DEF CallTypes, Steps
  <2>7. Attempt(c)'
    BY <1>0, <2>1, <2>2, <2>4 DEF Attempt, CallTypes
  <2>8. \A d \in Calls \ {c} : pc'[d] = pc[d] /\ drained'[d] = drained[d] /\ tx'[d] = tx[d]
    BY <1>0, <2>1 DEF CallTypes
  <2>9. PutStays(c)
    BY <1>0, <1>2, <2>1, <2>8 DEF PutStays, CallTypes
  <2>10. Locks'
    <3>1. UNCHANGED <<objects, manifest, rq>>
      BY <2>1 DEF tables
    <3>2. \A d \in Calls \ {c} : tx[d].st = "open" /\ tx[d].chunk => rq[d].id # rq[c].id
      BY <2>1 DEF ChunkLocked
    <3> QED
      BY <2>1, <2>2, <2>4, <2>8, <3>1, <3>2 DEF IndInv, Locks, Open
  <2> QED
    BY <2>6, <2>7, <2>9, <2>10, PutLocks
<1>7. CASE InsertFault(c)
  BY <1>2, <1>7, AbortInd DEF InsertFault
<1> QED
  BY <1>3, <1>4, <1>5, <1>6, <1>7

(***************************************************************************)
(* Commit.  A transaction that takes effect stores its object whole, in a  *)
(* place that was empty, or was begun with a drained reader and does       *)
(* nothing.                                                                *)
(***************************************************************************)
Stores(c) ==
  /\ rq[c].id \in IDs
  /\ rq[c].sealed \in Payloads
  /\ objects[rq[c].id] \in Locators
  /\ manifest[rq[c].id] = Empty
  /\ \A d \in Calls \ {c} : Open(d) /\ tx[d].chunk => rq[d].id # rq[c].id
  /\ blobs' = blobs \cup {Blob(c)}
  /\ manifest' = [manifest EXCEPT ![rq[c].id] = rq[c].sealed]

\* A commit stores the blob and its chunk together, or nothing after a lost
\* reader.
LEMMA ApplyEffect ==
  ASSUME IndInv, NEW c \in Calls, AtEOF(c), tx[c].st = "open", Apply(c)
  PROVE  Stores(c) \/ (spoiled[c] /\ UNCHANGED <<blobs, manifest>>)
<1>1. rq[c].id \in IDs /\ rq[c].sealed \in Payloads
  BY DEF AtEOF, IndInv, Local, Caller
<1>2. CASE tx[c].blob /\ tx[c].chunk
  BY <1>1, <1>2 DEF Apply, Stores, IndInv, Locks, Open
<1>3. CASE ~ tx[c].blob /\ ~ tx[c].chunk /\ spoiled[c]
  BY <1>3 DEF Apply
<1>4. \/ tx[c].blob /\ tx[c].chunk
      \/ ~ tx[c].blob /\ ~ tx[c].chunk /\ spoiled[c]
  BY DEF AtEOF, IndInv, Local, Attempt
<1> QED
  BY <1>2, <1>3, <1>4

\* What a commit stores is whole.
LEMMA StoresTables ==
  ASSUME IndInv, NEW c \in Calls, Stores(c), UNCHANGED objects
  PROVE  TableTypes' /\ Integrity'
<1>0. TableTypes
  BY Parts DEF IndInv
<1>1. Blob(c) \in Blobs /\ Blob(c).obj = rq[c].id /\ Blob(c).sealed = rq[c].sealed
  BY DEF Stores, Blob, Blobs
<1>2. TableTypes'
  BY <1>0, <1>1 DEF Stores, TableTypes
<1>3. \A b \in blobs : b.obj # rq[c].id
  <2>1. \A b \in blobs : b.sealed \in Payloads
    BY <1>0 DEF TableTypes, Blobs
  <2> QED
    BY <2>1, StoreSentinelAssumption DEF Stores, IndInv, Integrity
<1>4. \A b \in blobs' : objects'[b.obj] \in Locators /\ manifest'[b.obj] = b.sealed
  <2>1. \A b \in blobs : objects[b.obj] \in Locators /\ manifest[b.obj] = b.sealed
                         /\ b.obj \in IDs
    BY <1>0 DEF IndInv, Integrity, TableTypes, Blobs
  <2>2. \A b \in blobs : manifest'[b.obj] = manifest[b.obj]
    BY <1>0, <1>3, <2>1 DEF Stores, TableTypes
  <2>3. manifest'[rq[c].id] = rq[c].sealed
    BY <1>0 DEF Stores, TableTypes
  <2> QED
    BY <1>1, <2>1, <2>2, <2>3 DEF Stores
<1>5. ASSUME NEW id \in IDs, manifest'[id] # Empty
      PROVE  [obj |-> id, sealed |-> manifest'[id]] \in blobs'
  <2>1. CASE id = rq[c].id
    BY <1>0, <2>1 DEF Stores, TableTypes, Blob
  <2>2. CASE id # rq[c].id
    <3>1. manifest'[id] = manifest[id]
      BY <1>0, <2>2 DEF Stores, TableTypes
    <3> QED
      BY <1>5, <3>1 DEF Stores, IndInv, Integrity
  <2> QED
    BY <2>1, <2>2
<1> QED
  BY <1>2, <1>4, <1>5 DEF Integrity

\* A transaction is over, with or without effect.
LEMMA CommitInd ==
  ASSUME IndInv, NEW c \in Calls, UNCHANGED <<objects, pipe>>,
         Stores(c) \/ UNCHANGED <<blobs, manifest>>,
         CallTypes', HistoryTypes', Others(c), Attempt(c)', Caller(c)',
         pc[c] = "loop", pc'[c] # "reading", tx'[c] = NoTx,
         rq'[c].op = "Put" /\ resp'[c] = "OK" /\ ~ spoiled'[c] =>
           manifest'[rq'[c].id] = rq'[c].sealed
  PROVE  IndInv'
<1>0. TableTypes /\ CallTypes
  BY Parts DEF IndInv
<1>1. TableTypes' /\ Integrity'
  <2>1. CASE Stores(c)
    BY <2>1, StoresTables
  <2>2. CASE UNCHANGED <<blobs, manifest>>
    BY <1>0, <2>2 DEF IndInv, Integrity, TableTypes
  <2> QED
    BY <2>1, <2>2
<1>2. Piped(c)' /\ PipeTypes'
  BY PipeAside
<1>3. TypeOK'
  BY <1>1, <1>2, PartsNext
<1>4. \A d \in Calls : Local(d)'
  BY <1>2, AloneLocal DEF IndInv, Others, Local
<1>5. \A d \in Calls : (Open(d))' => d # c /\ Open(d) /\ tx'[d] = tx[d] /\ rq'[d] = rq[d]
  BY DEF Others, Alone, Open, NoTx
<1>6. \A d \in Calls : Open(d)' /\ tx'[d].chunk => manifest'[rq'[d].id] = Empty
  <2>1. CASE UNCHANGED <<blobs, manifest>>
    BY <1>5, <2>1 DEF IndInv, Locks
  <2>2. CASE Stores(c)
    <3> SUFFICES ASSUME NEW d \in Calls, Open(d)', tx'[d].chunk
                 PROVE  manifest'[rq'[d].id] = Empty
      OBVIOUS
    <3>1. d # c /\ Open(d) /\ tx[d].chunk /\ rq'[d].id = rq[d].id
      BY <1>5
    <3>2. rq[d].id # rq[c].id /\ manifest[rq[d].id] = Empty
      BY <2>2, <3>1 DEF Stores, IndInv, Locks
    <3>3. rq[d].id \in IDs
      <4>1. pc[d] \in {"loop", "manifest"}
        BY <3>1 DEF Open, IndInv, Local, Attempt, NoTx
      <4> QED
        BY <4>1 DEF IndInv, Local, Caller
    <3> QED
      BY <1>0, <2>2, <3>1, <3>2, <3>3 DEF Stores, TableTypes
  <2> QED
    BY <2>1, <2>2
<1>7. Locks'
  <2>1. \A d \in Calls : Open(d)' /\ tx'[d].blob => objects'[rq'[d].id] \in Locators
    BY <1>5 DEF IndInv, Locks
  <2>2. \A d, e \in Calls :
          d # e /\ (Open(d) /\ tx[d].chunk /\ Open(e) /\ tx[e].chunk)'
            => rq'[d].id # rq'[e].id
    BY <1>5 DEF IndInv, Locks
  <2> QED
    BY <1>6, <2>1, <2>2 DEF Locks
<1>8. PutOKMeansStored'
  <2> SUFFICES ASSUME NEW d \in Calls,
                      rq'[d].op = "Put" /\ resp'[d] = "OK" /\ ~ spoiled'[d]
               PROVE  manifest'[rq'[d].id] = rq'[d].sealed \/ objects'[rq'[d].id] = Gone
    BY DEF PutOKMeansStored
  <2>1. CASE d = c
    BY <2>1
  <2>2. CASE d # c
    <3>1. /\ rq'[d] = rq[d] /\ rq[d].op = "Put" /\ resp[d] = "OK" /\ ~ spoiled[d]
      BY <2>2 DEF Others, Alone
    <3>2. manifest[rq[d].id] = rq[d].sealed \/ objects[rq[d].id] = Gone
      BY <3>1 DEF IndInv, PutOKMeansStored
    <3>3. rq[d].id \in IDs /\ rq[d].sealed # Empty
      BY <3>1, StoreSentinelAssumption DEF IndInv, Local, Caller
    <3> QED
      BY <1>0, <3>1, <3>2, <3>3 DEF Stores, TableTypes
  <2> QED
    BY <2>1, <2>2
<1> QED
  BY <1>1, <1>3, <1>4, <1>7, <1>8 DEF IndInv

\* A commit, one that PostgreSQL refuses, and one whose outcome is unknown.
LEMMA CommitsInd ==
  ASSUME IndInv, NEW c \in Calls, Commit(c) \/ CommitAborted(c) \/ CommitFault(c)
  PROVE  IndInv'
<1>0. CallTypes /\ HistoryTypes /\ TypeOK
  BY Parts DEF IndInv
<1>1. pc[c] = "loop" /\ rq[c].op = "Put"
  BY DEF Commit, CommitAborted, CommitFault, AtEOF, IndInv, Local, Caller
<1>2. CASE CommitAborted(c)
  BY <1>1, <1>2, FailInd DEF CommitAborted
<1>3. rq[c].id \in IDs /\ rq[c].sealed \in Payloads
  BY <1>1 DEF IndInv, Local, Caller
<1>4. CASE Commit(c)
  <2>1. Finish(c, "OK") /\ UNCHANGED <<objects, pipe, spoiled>>
    BY <1>4 DEF Commit
  <2>2. CallTypes' /\ HistoryTypes'
    BY <1>0, <2>1, FinishTypes DEF HistoryTypes
  <2>3. /\ pc'[c] = "idle" /\ tx'[c] = NoTx /\ ~ drained'[c] /\ resp'[c] = "OK"
        /\ rq'[c].id = rq[c].id /\ rq'[c].sealed = rq[c].sealed
    BY <2>1, FinishLocal
  <2>4. \A d \in Calls \ {c} : /\ pc'[d] = pc[d] /\ resp'[d] = resp[d] /\ tx'[d] = tx[d]
                               /\ drained'[d] = drained[d] /\ rq'[d] = rq[d]
    BY <2>1, FinishLocal
  <2>5. Others(c)
    BY <2>1, <2>4 DEF Others, Alone, pipe
  <2>6. Attempt(c)' /\ Caller(c)'
    BY <1>3, <2>3 DEF Attempt, Caller
  <2>7. Stores(c) \/ (spoiled[c] /\ UNCHANGED <<blobs, manifest>>)
    BY <1>4, ApplyEffect DEF Commit
  <2>8. ~ spoiled'[c] => manifest'[rq'[c].id] = rq'[c].sealed
    <3>1. manifest \in [IDs -> Payloads \cup {Empty}]
      BY <1>0, Parts DEF TableTypes
    <3> QED
      BY <2>1, <2>3, <2>7, <3>1 DEF Stores
  <2> QED
    BY <1>1, <2>1, <2>2, <2>3, <2>5, <2>6, <2>7, <2>8, CommitInd
<1>5. CASE CommitFault(c)
  <2>1. /\ RetryOrFail(c)
        /\ spoiled' = [spoiled EXCEPT ![c] = TRUE]
        /\ UNCHANGED <<objects, pipe>>
    BY <1>5 DEF CommitFault
  <2>2. CallTypes' /\ HistoryTypes'
    BY <1>0, <2>1, RetryTypes DEF HistoryTypes
  <2>3. Stores(c) \/ UNCHANGED <<blobs, manifest>>
    BY <1>5, ApplyEffect DEF CommitFault
  <2>4. CASE Finish(c, "Error")
    <3>1. /\ pc'[c] = "idle" /\ tx'[c] = NoTx /\ ~ drained'[c] /\ resp'[c] = "Error"
      BY <2>4, FinishLocal
    <3>2. \A d \in Calls \ {c} : /\ pc'[d] = pc[d] /\ resp'[d] = resp[d] /\ tx'[d] = tx[d]
                                 /\ drained'[d] = drained[d] /\ rq'[d] = rq[d]
      BY <2>4, FinishLocal
    <3>3. Others(c)
      BY <1>0, <2>1, <3>2 DEF Others, Alone, pipe, HistoryTypes
    <3>4. Attempt(c)' /\ Caller(c)'
      BY <3>1 DEF Attempt, Caller
    <3> QED
      BY <1>1, <2>1, <2>2, <2>3, <3>1, <3>3, <3>4, CommitInd
  <2>5. CASE ~ Finish(c, "Error")
    <3>1. /\ pc' = [pc EXCEPT ![c] = "begin"]
          /\ tx' = [tx EXCEPT ![c] = NoTx]
          /\ UNCHANGED <<rq, drained, resp>>
      BY <2>1, <2>5 DEF RetryOrFail
    <3>2. pc'[c] = "begin" /\ tx'[c] = NoTx /\ spoiled'[c]
      BY <1>0, <2>1, <3>1 DEF CallTypes, HistoryTypes
    <3>3. Others(c)
      BY <1>0, <2>1, <3>1 DEF Others, Alone, pipe, CallTypes, HistoryTypes
    <3>4. Attempt(c)'
      BY <3>2 DEF Attempt
    <3>5. Caller(c)'
      BY <1>1, <3>1, <3>2 DEF IndInv, Local, Caller
    <3> QED
      BY <1>1, <2>1, <2>2, <2>3, <3>2, <3>3, <3>4, <3>5, CommitInd
  <2> QED
    BY <2>4, <2>5
<1> QED
  BY <1>2, <1>4, <1>5

(***************************************************************************)
(* Get.                                                                    *)
(***************************************************************************)

\* A query yields the bytes of an object, none, or an error.
LEMMA FoundType ==
  ASSUME TypeOK, NEW l
  PROVE  Found(l) \in Payloads \cup {Empty, "Error"}
<1>1. \A id \in IDs : Chunk(id) \in Payloads \cup {Empty}
  BY Parts DEF Chunk, TableTypes
<1>2. CASE \E id \in IDs : Named(l) = {id}
  <2>1. (CHOOSE id \in IDs : Named(l) = {id}) \in IDs
    BY <1>2
  <2> QED
    BY <1>1, <2>1 DEF Found
<1>3. CASE ~ \E id \in IDs : Named(l) = {id}
  BY <1>3 DEF Found
<1> QED
  BY <1>2, <1>3

\* Steps of the goroutine of a Get.
LEMMA WriterInd ==
  ASSUME IndInv, NEW c \in Calls, UNCHANGED <<tables, pc, callvars, resp, spoiled>>,
         PipeTypes', Piped(c)',
         \A d \in Calls \ {c} : /\ writer'[d] = writer[d] /\ seen'[d] = seen[d]
                                /\ rowsErr'[d] = rowsErr[d] /\ closed'[d] = closed[d]
                                /\ got'[d] = got[d]
  PROVE  IndInv'
<1>0. TableTypes /\ CallTypes /\ HistoryTypes
  BY Parts DEF IndInv
<1>1. TypeOK'
  BY <1>0, PartsNext DEF tables, callvars, TableTypes, CallTypes, HistoryTypes
<1>2. Others(c)
  BY DEF Others, Alone, callvars
<1>3. Attempt(c)'
  BY DEF IndInv, Local, Attempt, callvars
<1>4. Caller(c)'
  BY DEF IndInv, Local, Caller, callvars
<1>5. Releases(c) /\ NotAnswered(c)
  BY DEF Releases, NotAnswered, callvars, Open
<1> QED
  BY <1>1, <1>2, <1>3, <1>4, <1>5, QuietStep DEF Local

\* The goroutine of a Get queries, writes into the pipe and closes it.
LEMMA WriterStepInd ==
  ASSUME IndInv, NEW c \in Calls, WriterStep(c)
  PROVE  IndInv'
<1>0. PipeTypes /\ TypeOK /\ Piped(c)
  BY Parts DEF IndInv, Local
<1>1. CASE Query(c)
  <2>1. Found(rq[c].loc) \in Payloads \cup {Empty, "Error"}
    BY <1>0, FoundType
  <2>2. /\ seen'[c] = Found(rq[c].loc)
        /\ rowsErr'[c] = (Found(rq[c].loc) = "Error")
        /\ writer'[c] = IF Found(rq[c].loc) \in Payloads THEN "row" ELSE "end"
        /\ writer[c] = "query"
        /\ UNCHANGED <<pc, closed, got>>
    BY <1>1, <1>0 DEF Query, PipeTypes
  <2>3. PipeTypes'
    BY <1>0, <1>1, <2>1 DEF Query, PipeTypes, Seen
  <2>4. Piped(c)'
    BY <1>0, <2>1, <2>2, StoreSentinelAssumption DEF Piped
  <2>5. \A d \in Calls \ {c} : /\ writer'[d] = writer[d] /\ seen'[d] = seen[d]
                               /\ rowsErr'[d] = rowsErr[d] /\ closed'[d] = closed[d]
                               /\ got'[d] = got[d]
    BY <1>0, <1>1 DEF Query, PipeTypes
  <2> QED
    BY <1>1, <2>3, <2>4, <2>5, WriterInd DEF Query
<1>2. CASE Write(c)
  <2>1. seen[c] \in Payloads
    BY <1>0, <1>2 DEF Write, Piped
  <2>2. /\ got'[c] = seen[c] /\ writer'[c] = "end" /\ writer[c] = "row"
        /\ UNCHANGED <<pc, seen, rowsErr, closed>>
    BY <1>0, <1>2 DEF Write, PipeTypes
  <2>3. PipeTypes'
    BY <1>0, <1>2, <2>1 DEF Write, PipeTypes
  <2>4. Piped(c)'
    BY <1>0, <2>2 DEF Piped
  <2>5. \A d \in Calls \ {c} : writer'[d] = writer[d] /\ got'[d] = got[d]
    BY <1>0, <1>2 DEF Write, PipeTypes
  <2> QED
    BY <1>2, <2>2, <2>3, <2>4, <2>5, WriterInd DEF Write
<1>3. CASE ReadFault(c)
  <2>1. /\ rowsErr'[c] = TRUE /\ writer'[c] = "end" /\ closed'[c] \in {"open", "Error"}
        /\ writer[c] # "done"
        /\ UNCHANGED <<pc, seen, got>>
    BY <1>0, <1>3 DEF ReadFault, PipeTypes
  <2>2. PipeTypes'
    BY <1>0, <1>3 DEF ReadFault, PipeTypes
  <2>3. Piped(c)'
    BY <1>0, <2>1 DEF Piped
  <2>4. \A d \in Calls \ {c} : /\ writer'[d] = writer[d] /\ rowsErr'[d] = rowsErr[d]
                               /\ closed'[d] = closed[d]
    BY <1>0, <1>3 DEF ReadFault, PipeTypes
  <2> QED
    BY <1>3, <2>1, <2>2, <2>3, <2>4, WriterInd DEF ReadFault
<1>4. CASE CloseWriter(c)
  <2>1. /\ closed'[c] = IF closed[c] # "open" THEN closed[c]
                        ELSE IF rowsErr[c] THEN "Error" ELSE "EOF"
        /\ writer[c] = "end" /\ writer'[c] = "done" /\ rowsErr'[c] = FALSE
        /\ UNCHANGED <<pc, seen, got>>
    BY <1>0, <1>4 DEF CloseWriter, PipeTypes
  <2>2. PipeTypes'
    BY <1>0, <1>4 DEF CloseWriter, PipeTypes
  <2>3. Piped(c)'
    BY <1>0, <2>1 DEF Piped
  <2>4. \A d \in Calls \ {c} : /\ writer'[d] = writer[d] /\ rowsErr'[d] = rowsErr[d]
                               /\ closed'[d] = closed[d]
    BY <1>0, <1>4 DEF CloseWriter, PipeTypes
  <2> QED
    BY <1>4, <2>1, <2>2, <2>3, <2>4, WriterInd DEF CloseWriter
<1> QED
  BY <1>1, <1>2, <1>3, <1>4 DEF WriterStep

\* io.ReadAll returns, and Delete returns its error.
LEMMA ReturnInd ==
  ASSUME IndInv, NEW c \in Calls, ReadAll(c) \/ DeleteObject(c)
  PROVE  IndInv'
<1>0. PipeTypes /\ Piped(c)
  BY Parts DEF IndInv, Local
<1>1. CASE ReadAll(c)
  <2> DEFINE result == IF closed[c] = "EOF" THEN "OK" ELSE "Error"
  <2>1. Finish(c, result) /\ result \in {"OK", "Error"} /\ rq[c].op = "Get"
    BY <1>1 DEF ReadAll, IndInv, Local, Caller
  <2>2. pc'[c] = "idle"
    BY <2>1, FinishLocal
  <2>3. /\ seen'[c] = "Nothing" /\ closed'[c] = "open" /\ closed[c] # "open"
        /\ UNCHANGED <<writer, rowsErr, got>>
    BY <1>0, <1>1 DEF ReadAll, PipeTypes
  <2>4. PipeTypes'
    BY <1>0, <1>1 DEF ReadAll, PipeTypes, Seen
  <2>5. writer[c] = "end" => rowsErr[c]
    BY <1>0, <2>3 DEF Piped, PipeTypes
  <2>6. Piped(c)'
    BY <1>0, <2>2, <2>3, <2>5 DEF Piped
  <2>7. \A d \in Calls \ {c} : seen'[d] = seen[d] /\ closed'[d] = closed[d]
    BY <1>0, <1>1 DEF ReadAll, PipeTypes
  <2>8. UNCHANGED <<tables, writer, rowsErr, got, spoiled>>
    BY <1>1 DEF ReadAll
  <2> HIDE DEF result
  <2> QED
    BY <2>1, <2>4, <2>6, <2>7, <2>8, FinishInd
<1>2. CASE DeleteObject(c)
  BY <1>2, FailInd DEF DeleteObject, deleteObject
<1> QED
  BY <1>1, <1>2

(***************************************************************************)
(* The rows of MetadataRepository, and the end of the process.             *)
(***************************************************************************)
LEMMA CallsAside ==
  ASSUME IndInv, UNCHANGED <<pc, callvars, pipe, resp, spoiled>>
  PROVE  /\ CallTypes' /\ PipeTypes' /\ HistoryTypes'
         /\ \A c \in Calls : Local(c)'
         /\ \A c \in Calls : Open(c)' <=> Open(c)
         /\ UNCHANGED <<rq, tx, resp, spoiled>>
<1>0. CallTypes /\ PipeTypes /\ HistoryTypes
  BY Parts DEF IndInv
<1>1. \A c \in Calls : Alone(c)
  BY DEF Alone, callvars, pipe
<1>2. \A c \in Calls : Local(c)'
  BY <1>1, AloneLocal DEF IndInv
<1> QED
  BY <1>0, <1>2 DEF CallTypes, PipeTypes, HistoryTypes, callvars, pipe, Open

\* MetadataRepository inserts a row, or deletes one with what hangs on it.
LEMMA RowInd ==
  ASSUME IndInv, NEW id \in IDs, InsertRow(id) \/ DeleteRow(id)
  PROVE  IndInv'
<1>0. TableTypes
  BY Parts DEF IndInv
<1>1. /\ CallTypes' /\ PipeTypes' /\ HistoryTypes'
      /\ \A c \in Calls : Local(c)'
      /\ \A c \in Calls : Open(c)' <=> Open(c)
      /\ UNCHANGED <<rq, tx, resp, spoiled>>
  BY CallsAside DEF InsertRow, DeleteRow
<1>2. \A c \in Calls : Open(c) => rq[c].id \in IDs
  <2>1. \A c \in Calls : Open(c) => pc[c] \in {"loop", "manifest"}
    BY DEF Open, IndInv, Local, Attempt, NoTx
  <2> QED
    BY <2>1 DEF IndInv, Local, Caller
<1>3. \A c \in Calls : rq[c].op = "Put" /\ resp[c] = "OK" =>
        rq[c].id \in IDs /\ rq[c].sealed # Empty
  BY StoreSentinelAssumption DEF IndInv, Local, Caller
<1>4. CASE InsertRow(id)
  <2>1. PICK l \in Locators : objects' = [objects EXCEPT ![id] = l]
    BY <1>4 DEF InsertRow
  <2>2. objects[id] = NoRow /\ UNCHANGED <<blobs, manifest>>
    BY <1>4 DEF InsertRow
  <2>3. \A i \in IDs : /\ objects[i] \in Locators => objects'[i] \in Locators
                       /\ objects[i] = Gone => objects'[i] = Gone
    BY <1>0, <2>1, <2>2, StoreSentinelAssumption DEF TableTypes
  <2>4. TableTypes'
    BY <1>0, <2>1, <2>2 DEF TableTypes, Rows
  <2>5. Integrity'
    BY <1>0, <2>2, <2>3 DEF IndInv, Integrity, TableTypes, Blobs
  <2>6. Locks'
    BY <1>1, <1>2, <2>2, <2>3 DEF IndInv, Locks
  <2>7. PutOKMeansStored'
    BY <1>1, <1>3, <2>2, <2>3 DEF IndInv, PutOKMeansStored
  <2> QED
    BY <1>1, <2>4, <2>5, <2>6, <2>7, PartsNext DEF IndInv
<1>5. CASE DeleteRow(id)
  <2>1. /\ objects' = [objects EXCEPT ![id] = Gone]
        /\ blobs' = {b \in blobs : b.obj # id}
        /\ manifest' = [manifest EXCEPT ![id] = Empty]
        /\ ~ RowLocked(id)
    BY <1>5 DEF DeleteRow
  <2>2. /\ objects'[id] = Gone /\ manifest'[id] = Empty
        /\ \A i \in IDs \ {id} : objects'[i] = objects[i] /\ manifest'[i] = manifest[i]
    BY <1>0, <2>1 DEF TableTypes
  <2>3. TableTypes'
    BY <1>0, <2>1 DEF TableTypes, Rows
  <2>4. Integrity'
    <3>1. \A b \in blobs' : b \in blobs /\ b.obj # id /\ b.obj \in IDs
      BY <1>0, <2>1 DEF TableTypes, Blobs
    <3>2. \A b \in blobs' : objects'[b.obj] \in Locators /\ manifest'[b.obj] = b.sealed
      BY <2>2, <3>1 DEF IndInv, Integrity
    <3>3. ASSUME NEW i \in IDs, manifest'[i] # Empty
          PROVE  [obj |-> i, sealed |-> manifest'[i]] \in blobs'
      <4>1. i # id /\ manifest'[i] = manifest[i]
        BY <2>2, <3>3
      <4>2. [obj |-> i, sealed |-> manifest[i]] \in blobs
        BY <3>3, <4>1 DEF IndInv, Integrity
      <4> QED
        BY <2>1, <4>1, <4>2
    <3> QED
      BY <3>2, <3>3 DEF Integrity
  <2>5. Locks'
    <3>1. \A c \in Calls : Open(c) /\ tx[c].blob => rq[c].id # id
      BY <2>1 DEF RowLocked, Open
    <3>2. \A c \in Calls : (Open(c) /\ tx[c].blob)' => objects'[rq'[c].id] \in Locators
      BY <1>1, <1>2, <2>2, <3>1 DEF IndInv, Locks
    <3>3. \A c \in Calls : (Open(c) /\ tx[c].chunk)' => manifest'[rq'[c].id] = Empty
      BY <1>1, <1>2, <2>2 DEF IndInv, Locks
    <3>4. \A c, d \in Calls :
            c # d /\ (Open(c) /\ tx[c].chunk /\ Open(d) /\ tx[d].chunk)'
              => rq'[c].id # rq'[d].id
      BY <1>1 DEF IndInv, Locks
    <3> QED
      BY <3>2, <3>3, <3>4 DEF Locks
  <2>6. PutOKMeansStored'
    BY <1>1, <1>3, <2>2 DEF IndInv, PutOKMeansStored
  <2> QED
    BY <1>1, <2>3, <2>4, <2>5, <2>6, PartsNext DEF IndInv
<1> QED
  BY <1>4, <1>5

\* When the process dies its open transactions are rolled back.
LEMMA DieInd ==
  ASSUME IndInv, Die
  PROVE  IndInv'
<1>0. TableTypes
  BY Parts DEF IndInv
<1>1. TableTypes' /\ Integrity' /\ UNCHANGED <<objects, manifest>>
  BY <1>0 DEF Die, tables, TableTypes, IndInv, Integrity
<1>2. 0 \in 0 .. maxAttemptCount
  BY DEF maxAttemptCount
<1>3. CallTypes' /\ PipeTypes' /\ HistoryTypes'
  BY <1>2, NoCallType, NoTxType DEF Die, CallTypes, PipeTypes, HistoryTypes, Steps, Seen
<1>4. \A c \in Calls : Local(c)'
  BY DEF Die, Local, Attempt, Caller, Piped, NoCall
<1>5. Locks'
  BY DEF Die, Locks, Open, NoTx
<1>6. PutOKMeansStored'
  BY DEF Die, PutOKMeansStored, NoCall
<1> QED
  BY <1>1, <1>3, <1>4, <1>5, <1>6, PartsNext DEF IndInv

-----------------------------------------------------------------------------
(***************************************************************************)
(* The invariants.                                                         *)
(***************************************************************************)
LEMMA InitInd == Init => IndInv
<1> SUFFICES ASSUME Init PROVE IndInv
  OBVIOUS
<1>1. 0 \in 0 .. maxAttemptCount
  BY DEF maxAttemptCount
<1>2. TypeOK
  <2>1. TableTypes /\ PipeTypes /\ HistoryTypes
    BY DEF Init, TableTypes, PipeTypes, HistoryTypes, Rows, Seen
  <2>2. CallTypes
    BY <1>1, NoCallType, NoTxType DEF Init, CallTypes, Steps
  <2> QED
    BY <2>1, <2>2, Parts
<1>3. \A c \in Calls : Local(c)
  BY DEF Init, Local, Attempt, Caller, Piped, NoCall
<1>4. Locks /\ PutOKMeansStored
  BY DEF Init, Locks, Open, NoTx, PutOKMeansStored, NoCall
<1>5. Integrity
  BY DEF Init, Integrity
<1> QED
  BY <1>2, <1>3, <1>4, <1>5 DEF IndInv

\* Every step preserves the invariant.
LEMMA NextInd ==
  ASSUME IndInv, [Next]_vars
  PROVE  IndInv'
<1>1. ASSUME NEW c \in Calls, StartStep(c) PROVE IndInv'
  BY <1>1, StartStepInd, DieInd DEF StartStep, RouterPanic, PutUnrouted, LocatorUnrouted
<1>2. ASSUME NEW c \in Calls, CallStep(c) PROVE IndInv'
  BY <1>2, BeginInd, InsertInd, CommitsInd, ReturnInd DEF CallStep, PutStep
<1>3. ASSUME NEW c \in Calls, WriterStep(c) PROVE IndInv'
  BY <1>3, WriterStepInd
<1>4. ASSUME NEW id \in IDs, InsertRow(id) \/ DeleteRow(id) PROVE IndInv'
  BY <1>4, RowInd
<1>5. CASE Crash
  BY <1>5, DieInd DEF Crash
<1>6. CASE UNCHANGED vars
  <2>1. UNCHANGED <<tables, pc, callvars, pipe, resp, spoiled>>
    BY <1>6 DEF vars
  <2>2. /\ CallTypes' /\ PipeTypes' /\ HistoryTypes'
        /\ \A c \in Calls : Local(c)'
        /\ \A c \in Calls : Open(c)' <=> Open(c)
        /\ UNCHANGED <<rq, tx, resp, spoiled>>
    BY <2>1, CallsAside
  <2>3. UNCHANGED <<objects, blobs, manifest>>
    BY <2>1 DEF tables
  <2>4. TableTypes'
    BY <2>3, Parts DEF IndInv, TableTypes
  <2>5. Locks'
    BY <2>2, <2>3 DEF IndInv, Locks
  <2>6. Integrity' /\ PutOKMeansStored'
    BY <2>2, <2>3 DEF IndInv, Integrity, PutOKMeansStored
  <2> QED
    BY <2>2, <2>4, <2>5, <2>6, PartsNext DEF IndInv
<1> QED
  BY <1>1, <1>2, <1>3, <1>4, <1>5, <1>6 DEF Next

\* The inductive invariant of SealedRepo: what calls, pipes and transactions hold,
\* with the types and the two invariants of the tables it carries.
THEOREM Inductive == Spec => []IndInv
BY InitInd, NextInd, PTL DEF Spec

\* Every reachable state of the repository is well typed; in particular nothing but
\* bytes of an object is ever written into the pipe of a Get.
THEOREM TypeCorrect == Spec => []TypeOK
<1>1. IndInv => TypeOK
  BY DEF IndInv
<1> QED
  BY <1>1, Inductive, PTL

\* The loop of SealedRepo.Put drops the errors of its inserts, is retried and races
\* with other Puts and with deletions; still no half of an object is in the tables.
THEOREM NeverHalf == Spec => []Integrity
<1>1. IndInv => Integrity
  BY DEF IndInv
<1> QED
  BY <1>1, Inductive, PTL

\* A Put that returned a locator, and no attempt of which failed to commit, has
\* stored its bytes, and they stay until the row goes.
THEOREM PutStored == Spec => []PutOKMeansStored
<1>1. IndInv => PutOKMeansStored
  BY DEF IndInv
<1> QED
  BY <1>1, Inductive, PTL

-----------------------------------------------------------------------------
(***************************************************************************)
(* The refinement.  The mapping of Contract, call by call.                 *)
(***************************************************************************)
BlobBar == [id \in IDs |-> Chunk(id)]

Want(c) == IF pc[c] = "reading" THEN rq[c].loc ELSE NoLocator

WantBar == [c \in Calls |-> Want(c)]

Answered(c) ==
  IF ~ IsGet(c) \/ resp[c] = "None" THEN "Nothing"
  ELSE IF resp[c] = "OK" THEN got[c] ELSE "Error"

AnswerBar == [c \in Calls |-> Answered(c)]

\* What the contract stores for a row is its chunk: Integrity says it has a blob.
LEMMA BlobIs ==
  ASSUME IndInv
  PROVE  BlobBar = manifest
<1>1. manifest \in [IDs -> Payloads \cup {Empty}]
  BY Parts DEF IndInv, TableTypes
<1>2. \A id \in IDs : Chunk(id) = manifest[id]
  BY DEF IndInv, Integrity, Chunk
<1> QED
  BY <1>1, <1>2 DEF BlobBar

\* The same in the state after a step.
LEMMA BlobIsNext ==
  ASSUME IndInv'
  PROVE  BlobBar' = manifest'
<1>1. manifest' \in [IDs -> Payloads \cup {Empty}]
  BY PartsNext DEF IndInv, TableTypes
<1>2. \A id \in IDs : Chunk(id)' = manifest'[id]
  BY DEF IndInv, Integrity, Chunk
<1> QED
  BY <1>1, <1>2 DEF BlobBar

\* A query finds what the contract sees under its locator.
LEMMA FoundIsView ==
  ASSUME NEW l
  PROVE  Contract!View(l) = Found(l)
<1>1. CASE \E id \in IDs : Named(l) = {id}
  <2>1. (CHOOSE id \in IDs : Named(l) = {id}) \in IDs
    BY <1>1
  <2> QED
    BY <1>1, <2>1 DEF Contract!View, Found, Named
<1>2. CASE ~ \E id \in IDs : Named(l) = {id}
  BY <1>2 DEF Contract!View, Found, Named
<1> QED
  BY <1>1, <1>2

\* The steps of the contract, in terms of the mapping.
LEMMA ContractAsk ==
  ASSUME NEW c \in Calls, NEW l \in Locators \cup {NoLocator},
         WantBar[c] = NoLocator,
         WantBar' = [WantBar EXCEPT ![c] = l],
         seen' = [seen EXCEPT ![c] = "Nothing"],
         AnswerBar' = [AnswerBar EXCEPT ![c] = "Nothing"],
         UNCHANGED <<objects, BlobBar>>
  PROVE  Contract!Next
<1>1. Contract!Ask(c, l)
  BY DEF Contract!Ask, WantBar, AnswerBar, BlobBar, Want, Answered
<1> QED
  BY <1>1 DEF Contract!Next

\* Look: the query of a Get.
LEMMA ContractLook ==
  ASSUME NEW c \in Calls, WantBar[c] # NoLocator, seen[c] = "Nothing",
         seen' = [seen EXCEPT ![c] = Found(WantBar[c])],
         UNCHANGED <<objects, BlobBar, WantBar, AnswerBar>>
  PROVE  Contract!Next
<1>1. seen' = [seen EXCEPT ![c] = Contract!View(WantBar[c])]
  BY FoundIsView
<1>2. Contract!Look(c)
  BY <1>1 DEF Contract!Look, WantBar, AnswerBar, BlobBar, Want, Answered
<1> QED
  BY <1>2 DEF Contract!Next

\* Answer: a Get returns what it saw, or an error.
LEMMA ContractAnswer ==
  ASSUME NEW c \in Calls, WantBar[c] # NoLocator,
         WantBar' = [WantBar EXCEPT ![c] = NoLocator],
         \/ seen[c] # "Nothing" /\ AnswerBar' = [AnswerBar EXCEPT ![c] = seen[c]]
         \/ AnswerBar' = [AnswerBar EXCEPT ![c] = "Error"],
         seen' = [seen EXCEPT ![c] = "Nothing"],
         UNCHANGED <<objects, BlobBar>>
  PROVE  Contract!Next
<1>1. Contract!Answer(c)
  BY DEF Contract!Answer, WantBar, AnswerBar, BlobBar, Want, Answered
<1> QED
  BY <1>1 DEF Contract!Next

\* Store: the bytes of an object appear.
LEMMA ContractStore ==
  ASSUME NEW id \in IDs, NEW p \in Payloads,
         objects[id] \in Locators, BlobBar[id] = Empty,
         BlobBar' = [BlobBar EXCEPT ![id] = p],
         UNCHANGED <<objects, WantBar, seen, AnswerBar>>
  PROVE  Contract!Next
<1>1. Contract!Store(id, p)
  BY DEF Contract!Store, WantBar, AnswerBar, BlobBar, Want, Answered
<1> QED
  BY <1>1 DEF Contract!Next

\* AddRow: a row appears.
LEMMA ContractAddRow ==
  ASSUME NEW id \in IDs, NEW l \in Locators, objects[id] = NoRow,
         objects' = [objects EXCEPT ![id] = l],
         UNCHANGED <<BlobBar, WantBar, seen, AnswerBar>>
  PROVE  Contract!Next
<1>1. Contract!AddRow(id, l)
  BY DEF Contract!AddRow, WantBar, AnswerBar, BlobBar, Want, Answered
<1> QED
  BY <1>1 DEF Contract!Next

\* DropRow: a row goes, and its bytes with it.
LEMMA ContractDropRow ==
  ASSUME NEW id \in IDs, objects[id] \in Locators,
         objects' = [objects EXCEPT ![id] = Gone],
         BlobBar' = [BlobBar EXCEPT ![id] = Empty],
         UNCHANGED <<WantBar, seen, AnswerBar>>
  PROVE  Contract!Next
<1>1. Contract!DropRow(id)
  BY DEF Contract!DropRow, WantBar, AnswerBar, BlobBar, Want, Answered
<1> QED
  BY <1>1 DEF Contract!Next

\* Break: the process dies.
LEMMA ContractBreak ==
  ASSUME WantBar' = [c \in Calls |-> NoLocator],
         seen' = [c \in Calls |-> "Nothing"],
         AnswerBar' = [c \in Calls |-> "Nothing"],
         UNCHANGED <<objects, BlobBar>>
  PROVE  Contract!Next
<1>1. Contract!Break
  BY DEF Contract!Break, WantBar, AnswerBar, BlobBar, Want, Answered
<1> QED
  BY <1>1 DEF Contract!Next

\* A step the contract does not see.
LEMMA ContractStutter ==
  ASSUME UNCHANGED <<objects, BlobBar, WantBar, seen, AnswerBar>>
  PROVE  UNCHANGED Contract!vars
BY DEF Contract!vars, WantBar, AnswerBar, BlobBar, Want, Answered

(***************************************************************************)
(* The steps of the repository, as steps of the contract.                  *)
(***************************************************************************)

\* A step of one call changes one entry of the mapping.
LEMMA OneEntry ==
  ASSUME NEW c \in Calls, Others(c)
  PROVE  /\ WantBar' = [WantBar EXCEPT ![c] = Want(c)']
         /\ AnswerBar' = [AnswerBar EXCEPT ![c] = Answered(c)']
<1>1. \A d \in Calls \ {c} : Want(d)' = Want(d) /\ Answered(d)' = Answered(d)
  BY DEF Others, Alone, Want, Answered, IsGet
<1>2. WantBar' = [WantBar EXCEPT ![c] = Want(c)']
  BY <1>1 DEF WantBar
<1>3. AnswerBar' = [AnswerBar EXCEPT ![c] = Answered(c)']
  BY <1>1 DEF AnswerBar
<1> QED
  BY <1>2, <1>3

\* A step that changes neither of a call's two entries changes none.
LEMMA SameEntry ==
  ASSUME NEW c \in Calls, Others(c), Want(c)' = Want(c), Answered(c)' = Answered(c)
  PROVE  UNCHANGED <<WantBar, AnswerBar>>
<1>1. \A d \in Calls : Want(d)' = Want(d) /\ Answered(d)' = Answered(d)
  BY DEF Others, Alone, Want, Answered, IsGet
<1> QED
  BY <1>1 DEF WantBar, AnswerBar

\* Unchanged tables hold the same bytes for the contract.
LEMMA SameBlobs ==
  ASSUME UNCHANGED tables
  PROVE  UNCHANGED <<objects, BlobBar>>
BY DEF tables, BlobBar, Chunk

\* A slot begins something new: its Get, if that is one, has no answer yet.
LEMMA AskStep ==
  ASSUME IndInv, NEW c \in Calls, Others(c), UNCHANGED tables,
         pc[c] = "idle", Want(c)' \in Locators \cup {NoLocator}, Answered(c)' = "Nothing",
         seen' = [seen EXCEPT ![c] = "Nothing"]
  PROVE  Contract!Next
<1>1. WantBar[c] = NoLocator
  BY DEF WantBar, Want
<1>2. /\ WantBar' = [WantBar EXCEPT ![c] = Want(c)']
      /\ AnswerBar' = [AnswerBar EXCEPT ![c] = "Nothing"]
  BY OneEntry
<1>3. UNCHANGED <<objects, BlobBar>>
  BY SameBlobs
<1> QED
  BY <1>1, <1>2, <1>3, ContractAsk

\* The start of a Get is an Ask; the other starts ask for nothing.
LEMMA StartRefines ==
  ASSUME IndInv, NEW c \in Calls,
         StartPut(c) \/ Unrouted(c) \/ StartGet(c) \/ StartDelete(c)
  PROVE  Contract!Next
<1>0. CallTypes /\ PipeTypes /\ HistoryTypes
  BY Parts DEF IndInv
<1>1. ASSUME NEW call, NEW state \in {"begin", "reading", "delete"}, NEW goroutine,
             Start(c, call, state, goroutine),
             state = "reading" => call.loc \in Locators
      PROVE  Contract!Next
  <2>1. Others(c) /\ UNCHANGED tables /\ pc[c] = "idle"
    BY <1>0, <1>1 DEF Start, Others, Alone, CallTypes, PipeTypes, HistoryTypes
  <2>2. /\ pc'[c] = state /\ rq'[c] = call /\ resp'[c] = "None"
        /\ seen' = [seen EXCEPT ![c] = "Nothing"]
    BY <1>0, <1>1 DEF Start, CallTypes
  <2>3. Want(c)' \in Locators \cup {NoLocator}
    BY <1>1, <2>2 DEF Want
  <2>4. Answered(c)' = "Nothing"
    BY <2>2 DEF Answered
  <2> QED
    BY <2>1, <2>2, <2>3, <2>4, AskStep
<1>2. CASE StartPut(c)
  BY <1>1, <1>2 DEF StartPut
<1>3. CASE StartDelete(c)
  BY <1>1, <1>3 DEF StartDelete
<1>4. CASE StartGet(c)
  <2>1. PICK l \in Locators :
          Start(c, [NoCall EXCEPT !.op = "Get", !.loc = l], "reading", "query")
    BY <1>4 DEF StartGet
  <2>2. [NoCall EXCEPT !.op = "Get", !.loc = l].loc = l
    BY DEF NoCall
  <2> QED
    BY <1>1, <2>1, <2>2
<1>5. CASE Unrouted(c)
  <2>1. UNCHANGED <<tables, pc, tries, live, drained, tx, pipe, spoiled>>
    BY <1>5 DEF Unrouted
  <2>2. pc[c] = "idle" /\ pc'[c] = "idle" /\ rq'[c] = NoCall
    BY <1>0, <1>5 DEF Unrouted, CallTypes
  <2>3. Others(c)
    BY <1>0, <1>5, <2>1 DEF Unrouted, Others, Alone, CallTypes, pipe
  <2>4. seen[c] = "Nothing"
    BY <2>2 DEF IndInv, Local, Piped
  <2>5. seen' = [seen EXCEPT ![c] = "Nothing"]
    BY <1>0, <2>1, <2>4 DEF PipeTypes, pipe
  <2>6. Want(c)' = NoLocator /\ Answered(c)' = "Nothing"
    BY <2>2 DEF Want, Answered, IsGet, NoCall
  <2> QED
    BY <2>1, <2>2, <2>3, <2>5, <2>6, AskStep
<1> QED
  BY <1>2, <1>3, <1>4, <1>5

\* A step of a Put is not seen by any Get.
PutMoves(c) ==
  /\ pc[c] \in {"begin", "loop", "manifest"}
  /\ pc'[c] # "reading"
  /\ rq'[c].op = rq[c].op
  /\ Others(c)
  /\ UNCHANGED <<objects, seen>>

\* That is so for every step of a Put, commits included: they only add bytes.
LEMMA PutStepMoves ==
  ASSUME IndInv, NEW c \in Calls, PutStep(c)
  PROVE  PutMoves(c)
<1>0. CallTypes /\ PipeTypes /\ HistoryTypes
  BY Parts DEF IndInv
<1>1. pc[c] \in {"begin", "loop", "manifest"} /\ UNCHANGED <<objects, pipe>>
  BY DEF PutStep, BeginTx, PutRefused, BeginFault, InsertBlob, PutManifest, InsertFault,
         Commit, CommitAborted, CommitFault, AtEOF, tables
<1>2. \A d \in Calls \ {c} : spoiled'[d] = spoiled[d]
  BY <1>0 DEF PutStep, BeginTx, PutRefused, BeginFault, InsertBlob, PutManifest,
              InsertFault, Commit, CommitAborted, CommitFault, HistoryTypes
<1>3. ASSUME NEW result \in {"OK", "Error"}, Finish(c, result)
      PROVE  PutMoves(c)
  <2>1. /\ pc'[c] = "idle" /\ rq'[c].op = rq[c].op
        /\ \A d \in Calls \ {c} :
              /\ pc'[d] = pc[d] /\ resp'[d] = resp[d] /\ tx'[d] = tx[d]
              /\ drained'[d] = drained[d] /\ rq'[d] = rq[d]
    BY <1>3, FinishLocal
  <2>2. Others(c)
    BY <1>1, <1>2, <2>1 DEF Others, Alone, pipe
  <2> QED
    BY <1>1, <2>1, <2>2 DEF PutMoves, pipe
<1>4. ASSUME NEW state \in {"begin", "loop", "manifest"},
             pc' = [pc EXCEPT ![c] = state],
             \A d \in Calls \ {c} : tx'[d] = tx[d] /\ drained'[d] = drained[d],
             UNCHANGED <<rq, resp>>
      PROVE  PutMoves(c)
  <2>1. pc'[c] = state /\ \A d \in Calls \ {c} : pc'[d] = pc[d]
    BY <1>0, <1>4 DEF CallTypes
  <2>2. Others(c)
    BY <1>1, <1>2, <1>4, <2>1 DEF Others, Alone, pipe
  <2> QED
    BY <1>1, <1>4, <2>1, <2>2 DEF PutMoves, pipe
<1>5. ASSUME RetryOrFail(c)
      PROVE  PutMoves(c)
  <2>1. CASE Finish(c, "Error")
    BY <1>3, <2>1
  <2>2. CASE ~ Finish(c, "Error")
    <3>1. /\ pc' = [pc EXCEPT ![c] = "begin"]
          /\ tx' = [tx EXCEPT ![c] = NoTx]
          /\ UNCHANGED <<rq, drained, resp>>
      BY <1>5, <2>2 DEF RetryOrFail
    <3> QED
      BY <1>0, <1>4, <3>1 DEF CallTypes
  <2> QED
    BY <2>1, <2>2
<1>6. ASSUME Abort(c), UNCHANGED <<rq, resp>>,
             drained' \in {drained, [drained EXCEPT ![c] = TRUE]}
      PROVE  PutMoves(c)
  BY <1>0, <1>4, <1>6 DEF Abort, CallTypes
<1>7. CASE BeginTx(c)
  BY <1>0, <1>4, <1>7 DEF BeginTx, CallTypes
<1>8. CASE PutRefused(c) \/ Commit(c) \/ CommitAborted(c)
  BY <1>3, <1>8 DEF PutRefused, Commit, CommitAborted
<1>9. CASE BeginFault(c) \/ CommitFault(c)
  BY <1>5, <1>9 DEF BeginFault, CommitFault
<1>10. CASE InsertBlob(c)
  <2>1. CASE Abort(c)
    BY <1>6, <1>10, <2>1 DEF InsertBlob
  <2>2. CASE ~ Abort(c)
    BY <1>0, <1>4, <1>10, <2>2 DEF InsertBlob, CallTypes
  <2> QED
    BY <2>1, <2>2
<1>11. CASE PutManifest(c)
  <2>1. CASE Abort(c)
    BY <1>6, <1>11, <2>1 DEF PutManifest
  <2>2. CASE ~ Abort(c)
    BY <1>0, <1>4, <1>11, <2>2 DEF PutManifest, CallTypes
  <2> QED
    BY <2>1, <2>2
<1>12. CASE InsertFault(c)
  BY <1>6, <1>12 DEF InsertFault
<1> QED
  BY <1>7, <1>8, <1>9, <1>10, <1>11, <1>12 DEF PutStep

\* A commit that takes effect stores an object at once; the rest is not seen.
LEMMA PutRefines ==
  ASSUME IndInv, IndInv', NEW c \in Calls, PutStep(c)
  PROVE  Contract!Next \/ UNCHANGED Contract!vars
<1>0. PutMoves(c)
  BY PutStepMoves
<1>1. rq[c].op = "Put"
  BY <1>0 DEF PutMoves, IndInv, Local, Caller
<1>2. UNCHANGED <<WantBar, AnswerBar>>
  <2>1. Want(c)' = Want(c) /\ Answered(c)' = Answered(c)
    BY <1>0, <1>1 DEF PutMoves, Want, Answered, IsGet
  <2> QED
    BY <1>0, <2>1, SameEntry DEF PutMoves
<1>3. BlobBar = manifest /\ BlobBar' = manifest'
  BY BlobIs, BlobIsNext
<1>4. Stores(c) \/ UNCHANGED manifest
  <2>1. CASE Commit(c) \/ CommitFault(c)
    <3>1. AtEOF(c) /\ tx[c].st = "open" /\ (Apply(c) \/ UNCHANGED <<blobs, manifest>>)
      BY <2>1 DEF Commit, CommitFault
    <3> QED
      BY <3>1, ApplyEffect
  <2>2. CASE ~ (Commit(c) \/ CommitFault(c))
    BY <2>2 DEF PutStep, BeginTx, PutRefused, BeginFault, InsertBlob, PutManifest,
                InsertFault, CommitAborted, tables
  <2> QED
    BY <2>1, <2>2
<1>5. CASE UNCHANGED manifest
  BY <1>0, <1>2, <1>3, <1>5, ContractStutter DEF PutMoves
<1>6. CASE Stores(c)
  BY <1>0, <1>2, <1>3, <1>6, ContractStore DEF PutMoves, Stores
<1> QED
  BY <1>4, <1>5, <1>6

\* The query of a Get is the moment whose state it answers with; what follows in
\* the pipe is not seen before io.ReadAll returns.
LEMMA WriterRefines ==
  ASSUME IndInv, NEW c \in Calls, WriterStep(c)
  PROVE  Contract!Next \/ UNCHANGED Contract!vars
<1>0. PipeTypes /\ Local(c)
  BY Parts DEF IndInv
<1>1. UNCHANGED <<tables, pc, callvars, resp, spoiled>>
  BY DEF WriterStep, Query, Write, ReadFault, CloseWriter
<1>2. Others(c)
  BY <1>0, <1>1 DEF WriterStep, Query, Write, ReadFault, CloseWriter, PipeTypes,
                    Others, Alone, callvars
<1>3. UNCHANGED <<objects, BlobBar>>
  BY <1>1, SameBlobs
<1>4. Want(c)' = Want(c)
  BY <1>1 DEF Want, callvars
<1>5. Answered(c)' = Answered(c)
  <2>1. CASE Write(c)
    <3>1. resp[c] = "None"
      BY <1>0, <2>1 DEF Write, Local, Piped, Caller
    <3> QED
      BY <1>1, <3>1 DEF Answered
  <2>2. CASE ~ Write(c)
    <3>1. UNCHANGED got
      BY <2>2 DEF WriterStep, Query, ReadFault, CloseWriter
    <3> QED
      BY <1>1, <3>1 DEF Answered, IsGet, callvars
  <2> QED
    BY <2>1, <2>2
<1>6. UNCHANGED <<WantBar, AnswerBar>>
  BY <1>2, <1>4, <1>5, SameEntry
<1>7. CASE Query(c)
  <2>1. pc[c] = "reading" /\ rq[c].loc \in Locators /\ seen[c] = "Nothing"
    BY <1>0, <1>7 DEF Query, Local, Piped, Caller
  <2>2. WantBar[c] = rq[c].loc /\ WantBar[c] # NoLocator
    BY <2>1, StoreSentinelAssumption DEF WantBar, Want
  <2>3. seen' = [seen EXCEPT ![c] = Found(WantBar[c])]
    BY <1>7, <2>2 DEF Query
  <2> QED
    BY <1>3, <1>6, <2>1, <2>2, <2>3, ContractLook
<1>8. CASE ~ Query(c)
  <2>1. UNCHANGED seen
    BY <1>8 DEF WriterStep, Write, ReadFault, CloseWriter
  <2> QED
    BY <1>3, <1>6, <2>1, ContractStutter
<1> QED
  BY <1>7, <1>8

\* io.ReadAll returns without an error only what the query saw.
LEMMA ReadAllRefines ==
  ASSUME IndInv, NEW c \in Calls, ReadAll(c)
  PROVE  Contract!Next
<1>0. CallTypes /\ PipeTypes /\ Local(c)
  BY Parts DEF IndInv
<1> DEFINE result == IF closed[c] = "EOF" THEN "OK" ELSE "Error"
<1>1. /\ Finish(c, result) /\ result \in {"OK", "Error"} /\ pc[c] = "reading"
      /\ UNCHANGED <<tables, writer, rowsErr, got, spoiled>>
      /\ seen' = [seen EXCEPT ![c] = "Nothing"]
      /\ closed' = [closed EXCEPT ![c] = "open"]
  BY DEF ReadAll
<1>2. result = "OK" => seen[c] = got[c]
  BY <1>0 DEF Local, Piped
<1> HIDE DEF result
<1>3. /\ pc'[c] = "idle" /\ resp'[c] = result /\ rq'[c].op = rq[c].op
      /\ \A d \in Calls \ {c} :
              /\ pc'[d] = pc[d] /\ resp'[d] = resp[d] /\ tx'[d] = tx[d]
              /\ drained'[d] = drained[d] /\ rq'[d] = rq[d]
  BY <1>1, FinishLocal
<1>4. \A d \in Calls \ {c} : seen'[d] = seen[d] /\ closed'[d] = closed[d]
  BY <1>0, <1>1 DEF PipeTypes
<1>5. Others(c)
  BY <1>1, <1>3, <1>4 DEF Others, Alone
<1>6. rq[c].op = "Get" /\ rq[c].loc \in Locators
  BY <1>0, <1>1 DEF Local, Caller
<1>7. WantBar[c] # NoLocator
  BY <1>1, <1>6, StoreSentinelAssumption DEF WantBar, Want
<1>8. Want(c)' = NoLocator
  BY <1>3 DEF Want
<1>9. Answered(c)' = IF result = "OK" THEN got[c] ELSE "Error"
  BY <1>1, <1>3, <1>6 DEF Answered, IsGet
<1>10. got[c] # "Nothing"
  BY <1>0, StoreSentinelAssumption DEF PipeTypes
<1>11. /\ WantBar' = [WantBar EXCEPT ![c] = NoLocator]
       /\ AnswerBar' = [AnswerBar EXCEPT ![c] = Answered(c)']
  BY <1>5, <1>8, OneEntry
<1>12. \/ seen[c] # "Nothing" /\ AnswerBar' = [AnswerBar EXCEPT ![c] = seen[c]]
       \/ AnswerBar' = [AnswerBar EXCEPT ![c] = "Error"]
  <2>1. CASE result = "OK"
    <3>1. Answered(c)' = seen[c]
      BY <1>2, <1>9, <2>1
    <3>2. AnswerBar' = [AnswerBar EXCEPT ![c] = seen[c]]
      BY <1>11, <3>1
    <3> QED
      BY <1>2, <1>10, <2>1, <3>2
  <2>2. CASE result # "OK"
    BY <1>9, <1>11, <2>2
  <2> QED
    BY <2>1, <2>2
<1>13. UNCHANGED <<objects, BlobBar>>
  BY <1>1, SameBlobs
<1> QED
  BY <1>1, <1>7, <1>11, <1>12, <1>13, ContractAnswer

\* Delete, which always fails, is not seen.
LEMMA DeleteRefines ==
  ASSUME IndInv, NEW c \in Calls, DeleteObject(c)
  PROVE  UNCHANGED Contract!vars
<1>1. Finish(c, "Error") /\ UNCHANGED <<tables, pipe, spoiled>> /\ pc[c] = "delete"
  BY DEF DeleteObject, deleteObject
<1>2. /\ pc'[c] = "idle" /\ rq'[c].op = rq[c].op
      /\ \A d \in Calls \ {c} :
              /\ pc'[d] = pc[d] /\ resp'[d] = resp[d] /\ tx'[d] = tx[d]
              /\ drained'[d] = drained[d] /\ rq'[d] = rq[d]
  BY <1>1, FinishLocal
<1>3. Others(c)
  BY <1>1, <1>2 DEF Others, Alone, pipe
<1>4. rq[c].op = "Delete"
  BY <1>1 DEF IndInv, Local, Caller
<1>5. Want(c)' = Want(c) /\ Answered(c)' = Answered(c)
  BY <1>1, <1>2, <1>4 DEF Want, Answered, IsGet
<1>6. UNCHANGED <<WantBar, AnswerBar>>
  BY <1>3, <1>5, SameEntry
<1>7. UNCHANGED <<objects, BlobBar, seen>>
  BY <1>1, SameBlobs DEF pipe
<1> QED
  BY <1>6, <1>7, ContractStutter

\* The rows of the contract are those of the table.
LEMMA RowRefines ==
  ASSUME IndInv, IndInv', NEW id \in IDs, InsertRow(id) \/ DeleteRow(id)
  PROVE  Contract!Next
<1>1. UNCHANGED <<pc, callvars, pipe, resp, spoiled>>
  BY DEF InsertRow, DeleteRow
<1>2. UNCHANGED <<WantBar, seen, AnswerBar>>
  BY <1>1 DEF WantBar, AnswerBar, Want, Answered, IsGet, callvars, pipe
<1>3. BlobBar = manifest /\ BlobBar' = manifest'
  BY BlobIs, BlobIsNext
<1>4. CASE InsertRow(id)
  BY <1>2, <1>3, <1>4, ContractAddRow DEF InsertRow
<1>5. CASE DeleteRow(id)
  BY <1>2, <1>3, <1>5, ContractDropRow DEF DeleteRow
<1> QED
  BY <1>4, <1>5

\* The death of the process breaks the calls off.
LEMMA DieRefines ==
  ASSUME Die
  PROVE  Contract!Next
<1>1. \A c \in Calls : Want(c)' = NoLocator /\ Answered(c)' = "Nothing"
  BY DEF Die, Want, Answered
<1>2. WantBar' = [c \in Calls |-> NoLocator] /\ AnswerBar' = [c \in Calls |-> "Nothing"]
  BY <1>1 DEF WantBar, AnswerBar
<1>3. UNCHANGED <<objects, BlobBar>> /\ seen' = [c \in Calls |-> "Nothing"]
  BY SameBlobs DEF Die
<1> QED
  BY <1>2, <1>3, ContractBreak

\* The initial states are initial states of the contract.
LEMMA InitRefines == Init => Contract!Init
<1> SUFFICES ASSUME Init PROVE Contract!Init
  OBVIOUS
<1>1. BlobBar = [id \in IDs |-> Empty]
  BY DEF Init, BlobBar, Chunk
<1>2. WantBar = [c \in Calls |-> NoLocator] /\ AnswerBar = [c \in Calls |-> "Nothing"]
  BY DEF Init, WantBar, AnswerBar, Want, Answered
<1> QED
  BY <1>1, <1>2 DEF Init, Contract!Init, BlobBar, WantBar, AnswerBar, Want, Answered

\* Every step is a step of the contract, or a stutter.
LEMMA StepRefines ==
  ASSUME IndInv, IndInv', [Next]_vars
  PROVE  [Contract!Next]_(Contract!vars)
<1>1. ASSUME NEW c \in Calls, StartStep(c) PROVE Contract!Next
  BY <1>1, StartRefines, DieRefines DEF StartStep, RouterPanic, PutUnrouted, LocatorUnrouted
<1>2. ASSUME NEW c \in Calls, CallStep(c) PROVE Contract!Next \/ UNCHANGED Contract!vars
  BY <1>2, PutRefines, ReadAllRefines, DeleteRefines DEF CallStep
<1>3. ASSUME NEW c \in Calls, WriterStep(c) PROVE Contract!Next \/ UNCHANGED Contract!vars
  BY <1>3, WriterRefines
<1>4. ASSUME NEW id \in IDs, InsertRow(id) \/ DeleteRow(id) PROVE Contract!Next
  BY <1>4, RowRefines
<1>5. CASE Crash
  BY <1>5, DieRefines DEF Crash
<1>6. CASE UNCHANGED vars
  <2>1. UNCHANGED <<tables, pc, callvars, pipe, resp>>
    BY <1>6 DEF vars
  <2>2. UNCHANGED <<WantBar, seen, AnswerBar>>
    BY <2>1 DEF WantBar, AnswerBar, Want, Answered, IsGet, callvars, pipe
  <2> QED
    BY <2>1, <2>2, SameBlobs, ContractStutter
<1> QED
  BY <1>1, <1>2, <1>3, <1>4, <1>5, <1>6 DEF Next

\* The repository, with its transactions, its retries, its goroutines and the other
\* writer of its tables, implements the contract of ObjectStore.
THEOREM Refines == Spec => KeepsContract
<1>1. Spec => Contract!Spec
  BY InitRefines, StepRefines, Inductive, PTL DEF Spec, Contract!Spec
<1> QED
  BY <1>1 DEF KeepsContract
=============================================================================
