---------------------------- MODULE KeeperProofs ----------------------------
(***************************************************************************)
(* Proofs about Keeper, for every set of requests, users, payloads,        *)
(* locators, identifiers and batches, and for every set of failures.       *)
(***************************************************************************)
EXTENDS Keeper, TLAPS

(***************************************************************************)
(* Types.                                                                  *)
(***************************************************************************)

\* The conjuncts of TypeOK on the variables a returning handler resets.
CallTypes ==
  /\ pc \in [Requests -> States]
  /\ loc \in [Requests -> Locators \cup {NoLocator}]
  /\ tries \in [Requests -> 0 .. maxAttemptCount]
  /\ live \in [Requests -> BOOLEAN]
  /\ resp \in [Requests -> Codes]

\* With the message and the other locals of the slots.
SlotTypes ==
  /\ CallTypes
  /\ rq \in [Requests -> RequestMessages]
  /\ snap \in [Requests -> SUBSET DataIDs]
  /\ added \in [Requests -> Seq(DataIDs)]

\* The message an early return leaves in its slot is well typed.
LEMMA NoRequestType == NoRequest \in RequestMessages
<1>1. (CHOOSE u \in Users : TRUE) \in Users
  BY UserAssumption
<1> QED
  BY <1>1 DEF NoRequest, RequestMessages

\* A returning handler leaves well-typed variables behind.
LEMMA ReturnTypes ==
  ASSUME TypeOK, NEW r \in Requests, NEW code \in Codes, Return(r, code)
  PROVE  CallTypes'
  BY DEF TypeOK, CallTypes, Return, States, Codes, maxAttemptCount

\* Also when it fails.
LEMMA FailTypes ==
  ASSUME TypeOK, NEW r \in Requests, NEW code \in Codes, Fail(r, code)
  PROVE  SlotTypes'
<1>1. CallTypes'
  BY ReturnTypes DEF Fail
<1>2. rq' \in [Requests -> RequestMessages]
  BY NoRequestType DEF Fail, TypeOK
<1>3. /\ snap' \in [Requests -> SUBSET DataIDs]
      /\ added' \in [Requests -> Seq(DataIDs)]
  BY DEF Fail, TypeOK
<1> QED
  BY <1>1, <1>2, <1>3 DEF SlotTypes

\* So does the beginning of a repository call.
LEMMA CallTypesOfCall ==
  ASSUME TypeOK, NEW r \in Requests, NEW s \in States,
         NEW l \in Locators \cup {NoLocator}, Call(r, s, l), UNCHANGED resp
  PROVE  CallTypes'
  BY DEF TypeOK, CallTypes, Call, States, Codes, maxAttemptCount

\* And a retry, whose counter stays within the limit of WithRetry.
LEMMA RetryTypes ==
  ASSUME TypeOK, NEW r \in Requests, tries[r] < maxAttemptCount, Retry(r)
  PROVE  SlotTypes'
<1>1. /\ tries' = [tries EXCEPT ![r] = tries[r] + 1]
      /\ UNCHANGED <<pc, rq, loc, snap, added, resp>>
  BY DEF Retry
<1>2. tries[r] + 1 \in 0 .. maxAttemptCount
  <2>1. tries[r] \in 0 .. maxAttemptCount
    BY DEF TypeOK
  <2> QED
    BY <2>1 DEF maxAttemptCount
<1>3. tries' \in [Requests -> 0 .. maxAttemptCount]
  BY <1>1, <1>2 DEF TypeOK
<1>4. \E b \in BOOLEAN : live' = [live EXCEPT ![r] = b]
  BY DEF Retry
<1>5. live' \in [Requests -> BOOLEAN]
  BY <1>4 DEF TypeOK
<1> QED
  BY <1>1, <1>3, <1>5 DEF TypeOK, CallTypes, SlotTypes

\* What Get and Sync send for a stored object has the type of a message.
LEMMA MessageType ==
  ASSUME TypeOK, NEW id \in DataIDs, NEW l \in Locators
  PROVE  Message(id, l) \in Messages
  <1>1. ReadObject(l) \in Payloads \cup {Empty}
    BY DEF ReadObject, TypeOK
  <1>2. ToProtoDataType(born[id].type)
          \in {"AUTH", "CARD", "BINARY", "UNSPECIFIED"}
    BY DEF ToProtoDataType
  <1> QED
    BY <1>1, <1>2 DEF Message, Messages

\* A request that begins leaves well-typed variables behind.
LEMMA BeginTypes ==
  ASSUME TypeOK, NEW r \in Requests, NEW m \in RequestMessages,
         NEW s \in States, Begin(r, m, s)
  PROVE  TypeOK'
  BY DEF TypeOK, Begin, stores, callvars, history, Codes

\* The item AddSealed works on is one of the batch.
LEMMA ItemType ==
  ASSUME TypeOK, NEW r \in Requests, HasItem(r)
  PROVE  Item(r) \in Items
<1>1. rq[r].batch \in Seq(Items)
  BY DEF TypeOK, RequestMessages
<1>2. added[r] \in Seq(DataIDs)
  BY DEF TypeOK
<1>3. Len(added[r]) + 1 \in 1 .. Len(rq[r].batch)
  BY <1>1, <1>2 DEF HasItem
<1> QED
  BY <1>1, <1>3 DEF Item

\* The row of an insertable item is well typed.
LEMMA NewRowType ==
  ASSUME TypeOK, Locals, NEW r \in Requests, Insertable(r), Adding(r)
  PROVE  NewRow(r) \in Rows
<1>1. rq[r].user \in Users
  BY DEF TypeOK, RequestMessages
<1>2. DataTypeName(Item(r).type) \in DataTypesTable
  BY DEF Insertable
<1>3. loc[r] \in Locators
  BY DEF Locals, LocalsOf
<1>4. HasItem(r) /\ Item(r).sealed # Empty
  BY DEF Locals, LocalsOf
<1>5. Item(r) \in Items
  BY <1>4, ItemType
<1>6. Item(r).sealed \in Payloads
  BY <1>4, <1>5 DEF Items
<1> QED
  BY <1>1, <1>2, <1>3, <1>6 DEF NewRow, Rows

\* A failing attempt of objectRepo.Delete leaves well-typed variables behind.
LEMMA RemovalTypes ==
  ASSUME TypeOK, NEW r \in Requests, RemovalFails(r), loc[r] \in Locators
  PROVE  TypeOK'
<1>1. /\ content' \in [Locators -> Payloads \cup {Empty}]
      /\ contested' \subseteq Locators
      /\ faulted' \in BOOLEAN
  BY DEF RemovalFails, Fault, TypeOK
<1>2. SlotTypes'
  <2>1. CASE tries[r] < maxAttemptCount /\ Retry(r)
    BY <2>1, RetryTypes
  <2>2. CASE Fail(r, "Internal")
    BY <2>2, FailTypes DEF Codes
  <2> QED
    BY <2>1, <2>2 DEF RemovalFails, MayRetry
<1> QED
  BY <1>1, <1>2 DEF RemovalFails, TypeOK, SlotTypes, CallTypes

\* Every operation of the handlers preserves the types.
LEMMA TypeNext ==
  ASSUME TypeOK, Written, Locals, [Next]_vars
  PROVE  TypeOK'
<1> USE DEF Codes, States
<1> DEFINE Failed(r) == \E code \in Codes : Fail(r, code)
<1>0. ASSUME NEW r \in Requests, Failed(r), UNCHANGED <<stores, sent, history>>
      PROVE  TypeOK'
  <2>1. SlotTypes'
    BY <1>0, FailTypes
  <2> QED
    BY <1>0, <2>1 DEF TypeOK, SlotTypes, CallTypes, stores, history
<1>10. ASSUME NEW r \in Requests, Succeed(r),
              UNCHANGED <<stores, snap, sent, history>>
       PROVE  TypeOK'
  <2>1. CallTypes'
    BY <1>10, ReturnTypes DEF Succeed
  <2> QED
    BY <1>10, <2>1 DEF Succeed, TypeOK, CallTypes, stores, history
<1>1. ASSUME NEW r \in Requests, ClientStep(r)
      PROVE  TypeOK'
  <2>1. CASE StartAdd(r)
    <3>1. PICK u \in Users, b \in Batches :
            Begin(r, [op |-> "Add", user |-> u, id |-> NoID, batch |-> b,
                      mode |-> "NONE"], "recv")
      BY <2>1 DEF StartAdd
    <3> QED
      BY <3>1, BeginTypes, BatchAssumption DEF RequestMessages
  <2>2. CASE StartDelete(r)
    <3>1. PICK u \in Users, id \in DataIDs \cup {NoID} :
            Begin(r, [op |-> "Delete", user |-> u, id |-> id, batch |-> << >>,
                      mode |-> "NONE"], "delmeta")
      BY <2>2 DEF StartDelete
    <3>2. [op |-> "Delete", user |-> u, id |-> id, batch |-> << >>,
           mode |-> "NONE"] \in RequestMessages
      BY DEF RequestMessages
    <3> QED
      BY <3>1, <3>2, BeginTypes
  <2>3. CASE StartGet(r)
    <3>1. PICK u \in Users, id \in DataIDs \cup {NoID} :
            Begin(r, [op |-> "Get", user |-> u, id |-> id, batch |-> << >>,
                      mode |-> "NONE"], "getmeta")
      BY <2>3 DEF StartGet
    <3>2. [op |-> "Get", user |-> u, id |-> id, batch |-> << >>,
           mode |-> "NONE"] \in RequestMessages
      BY DEF RequestMessages
    <3> QED
      BY <3>1, <3>2, BeginTypes
  <2>4. CASE StartList(r)
    <3>1. PICK u \in Users :
            Begin(r, [op |-> "List", user |-> u, id |-> NoID, batch |-> << >>,
                      mode |-> "NONE"], "list")
      BY <2>4 DEF StartList
    <3>2. [op |-> "List", user |-> u, id |-> NoID, batch |-> << >>,
           mode |-> "NONE"] \in RequestMessages
      BY DEF RequestMessages
    <3> QED
      BY <3>1, <3>2, BeginTypes
  <2>5. CASE StartSync(r)
    <3>1. PICK u \in Users, m \in {"SHORT", "FULL"} :
            Begin(r, [op |-> "Sync", user |-> u, id |-> NoID, batch |-> << >>,
                      mode |-> m], "synclist")
      BY <2>5 DEF StartSync
    <3>2. [op |-> "Sync", user |-> u, id |-> NoID, batch |-> << >>,
           mode |-> m] \in RequestMessages
      BY DEF RequestMessages
    <3> QED
      BY <3>1, <3>2, BeginTypes
  <2>6. CASE Refuse(r)
    <3>1. SlotTypes'
      BY <2>6, FailTypes DEF Refuse
    <3>2. sent' \in [Requests -> SUBSET Messages]
      BY <2>6 DEF Refuse, TypeOK
    <3> QED
      BY <2>6, <3>1, <3>2
      DEF Refuse, TypeOK, SlotTypes, CallTypes, stores, history
  <2>7. CASE RecvEOF(r)
    BY <2>7 DEF RecvEOF, TypeOK, stores, callvars, history
  <2>8. CASE RecvBroken(r)
    BY <2>8, <1>0 DEF RecvBroken
  <2> QED
    BY <1>1, <2>1, <2>2, <2>3, <2>4, <2>5, <2>6, <2>7, <2>8 DEF ClientStep
<1>2. ASSUME NEW r \in Requests, AddStep(r)
      PROVE  TypeOK'
  <2>0. ASSUME Insertable(r), pc[r] = "putmeta"
        PROVE  NewRow(r) \in Rows
    BY <2>0, NewRowType DEF Adding
  <2>1. CASE AllAdded(r)
    BY <2>1, <1>0, <1>10 DEF AllAdded
  <2>2. CASE RejectItem(r)
    BY <2>2, <1>0 DEF RejectItem
  <2>3. CASE PutObject(r)
    <3>1. Item(r) \in Items
      BY <2>3, ItemType DEF PutObject, Acceptable
    <3>2. Item(r).id \in Locators
      BY <2>3 DEF PutObject, Puttable
    <3>3. CallTypes'
      BY <2>3, <3>2, CallTypesOfCall DEF PutObject
    <3>4. content' \in [Locators -> Payloads \cup {Empty}]
      BY <2>3, <3>1 DEF PutObject, StoreObject, TypeOK, Items
    <3> QED
      BY <2>3, <3>3, <3>4 DEF PutObject, TypeOK, CallTypes, history
  <2>4. CASE PutObjectFault(r)
    <3>1. Item(r) \in Items
      BY <2>4, ItemType DEF PutObjectFault, Acceptable
    <3>2. SlotTypes'
      BY <2>4, FailTypes DEF PutObjectFault
    <3>3. content' \in [Locators -> Payloads \cup {Empty}]
      BY <2>4, <3>1 DEF PutObjectFault, StoreObject, TypeOK, Items
    <3> QED
      BY <2>4, <3>2, <3>3 DEF PutObjectFault, Fault, TypeOK, SlotTypes, CallTypes
  <2>5. CASE PutObjectRefused(r)
    BY <2>5, <1>0 DEF PutObjectRefused
  <2>6. CASE PutMetadata(r)
    <3>1. PICK id \in FreshIDs :
            /\ InsertRow(id, NewRow(r))
            /\ added' = [added EXCEPT ![r] = Append(@, id)]
      BY <2>6 DEF PutMetadata
    <3>2. id \in DataIDs
      BY DEF FreshIDs
    <3>3. CallTypes'
      BY <2>6, CallTypesOfCall DEF PutMetadata
    <3>4. born' \in [DataIDs -> Rows \cup {NoRow}] /\ alive' \subseteq DataIDs
      BY <2>6, <2>0, <3>1, <3>2 DEF PutMetadata, InsertRow, TypeOK
    <3>5. added' \in [Requests -> Seq(DataIDs)]
      BY <3>1, <3>2 DEF TypeOK
    <3> QED
      BY <2>6, <3>3, <3>4, <3>5 DEF PutMetadata, TypeOK, CallTypes, history
  <2>7. CASE PutMetadataRefused(r)
    BY <2>7 DEF PutMetadataRefused, Compensate, TypeOK, stores, history
  <2>8. CASE PutMetadataFault(r)
    <3>1. /\ born' \in [DataIDs -> Rows \cup {NoRow}]
          /\ alive' \subseteq DataIDs
          /\ contested' \subseteq Locators
      <4>1. loc[r] \in Locators
        BY <2>8 DEF PutMetadataFault, TypeOK, Locals, LocalsOf, Adding
      <4>2. CASE UNCHANGED <<born, alive, contested>>
        BY <4>2 DEF TypeOK
      <4>3. ASSUME NEW id \in DataIDs, InsertRow(id, NewRow(r)), Insertable(r)
            PROVE  /\ born' \in [DataIDs -> Rows \cup {NoRow}]
                   /\ alive' \subseteq DataIDs
        <5>1. NewRow(r) \in Rows
          BY <2>8, <2>0, <4>3 DEF PutMetadataFault
        <5> QED
          BY <4>3, <5>1 DEF InsertRow, TypeOK
      <4> QED
        BY <2>8, <4>1, <4>2, <4>3
        DEF PutMetadataFault, InsertUnnoticed, FreshIDs, TypeOK
    <3>2. CASE /\ tries[r] < maxAttemptCount
               /\ Retry(r)
      <4>1. CallTypes'
        BY <2>8, <3>2, RetryTypes DEF PutMetadataFault, SlotTypes
      <4> QED
        BY <2>8, <3>1, <4>1 DEF PutMetadataFault, Fault, TypeOK, CallTypes
    <3>3. CASE /\ Compensate(r)
               /\ \E onTime \in BOOLEAN : live' = [live EXCEPT ![r] = onTime]
      BY <2>8, <3>1, <3>3
      DEF PutMetadataFault, Compensate, Fault, TypeOK
    <3> QED
      BY <2>8, <3>2, <3>3 DEF PutMetadataFault, MayRetry
  <2>9. CASE PutMetadataExpired(r)
    BY <2>9 DEF PutMetadataExpired, Compensate, TypeOK, stores, history
  <2>10. CASE Undo(r)
    <3>1. SlotTypes'
      BY <2>10, FailTypes DEF Undo
    <3>2. content' \in [Locators -> Payloads \cup {Empty}]
      BY <2>10 DEF Undo, RemoveObject, TypeOK
    <3> QED
      BY <2>10, <3>1, <3>2 DEF Undo, TypeOK, SlotTypes, CallTypes, history
  <2>11. CASE UndoFault(r)
    BY <2>11, RemovalTypes DEF UndoFault, Locals, LocalsOf, Adding
  <2>12. CASE UndoExpired(r)
    BY <2>12, <1>0 DEF UndoExpired
  <2> QED
    BY <1>2, <2>1, <2>2, <2>3, <2>4, <2>5, <2>6, <2>7, <2>8, <2>9, <2>10,
       <2>11, <2>12 DEF AddStep
<1>3. ASSUME NEW r \in Requests, DeleteStep(r)
      PROVE  TypeOK'
  <2>1. CASE DeleteMetadata(r)
    <3>1. born[rq[r].id].loc \in Locators \cup {NoLocator}
      BY <2>1 DEF DeleteMetadata, TypeOK, Rows, Written
    <3>2. CallTypes'
      BY <2>1, <3>1, CallTypesOfCall DEF DeleteMetadata
    <3> QED
      BY <2>1, <3>2 DEF DeleteMetadata, DeleteRow, TypeOK, CallTypes, history
  <2>2. CASE DeleteMetadataRefused(r)
    BY <2>2, <1>0 DEF DeleteMetadataRefused
  <2>3. CASE DeleteMetadataFault(r)
    <3>1. SlotTypes'
      <4>1. CASE tries[r] < maxAttemptCount /\ Retry(r)
        BY <4>1, RetryTypes
      <4>2. CASE Fail(r, "Internal")
        BY <4>2, FailTypes
      <4> QED
        BY <2>3, <4>1, <4>2 DEF DeleteMetadataFault, MayRetry
    <3> QED
      BY <2>3, <3>1
      DEF DeleteMetadataFault, DeleteRow, Fault, TypeOK, SlotTypes, CallTypes
  <2>4. CASE DeleteObject(r)
    <3>1. CallTypes'
      BY <2>4, ReturnTypes DEF DeleteObject, Succeed
    <3>2. content' \in [Locators -> Payloads \cup {Empty}]
      BY <2>4 DEF DeleteObject, RemoveObject, TypeOK
    <3> QED
      BY <2>4, <3>1, <3>2 DEF DeleteObject, Succeed, TypeOK, CallTypes, history
  <2>5. CASE DeleteObjectFault(r)
    BY <2>5, RemovalTypes DEF DeleteObjectFault, Locals, LocalsOf
  <2>6. CASE DeleteObjectExpired(r)
    BY <2>6, <1>0 DEF DeleteObjectExpired
  <2> QED
    BY <1>3, <2>1, <2>2, <2>3, <2>4, <2>5, <2>6 DEF DeleteStep
<1>4. ASSUME NEW r \in Requests, ReadStep(r)
      PROVE  TypeOK'
  <2>0. RowsOf(rq[r].user) \subseteq DataIDs
    BY DEF RowsOf, TypeOK
  <2>1. CASE GetMetadata(r)
    <3>1. born[rq[r].id].loc \in Locators \cup {NoLocator}
      BY <2>1 DEF GetMetadata, TypeOK, Rows, Written
    <3>2. CallTypes'
      BY <2>1, <3>1, CallTypesOfCall DEF GetMetadata
    <3> QED
      BY <2>1, <3>2 DEF GetMetadata, TypeOK, CallTypes, stores, history
  <2>2. CASE GetMetadataRefused(r)
    BY <2>2, <1>0 DEF GetMetadataRefused
  <2>3. CASE GetObject(r)
    <3>1. CallTypes'
      BY <2>3, ReturnTypes DEF GetObject, Succeed
    <3>2. sent' \in [Requests -> SUBSET Messages]
      <4>1. rq[r].id \in DataIDs /\ loc[r] \in Locators
        BY <2>3 DEF GetObject, Locals, LocalsOf, TypeOK, Rows
      <4>2. Message(rq[r].id, loc[r]) \in Messages
        BY <4>1, MessageType
      <4> QED
        BY <2>3, <4>2 DEF GetObject, TypeOK
    <3> QED
      BY <2>3, <3>1, <3>2
      DEF GetObject, Succeed, TypeOK, CallTypes, stores, history
  <2>4. CASE List(r)
    <3>1. CallTypes'
      BY <2>4, ReturnTypes DEF List, Succeed
    <3>2. snap' \in [Requests -> SUBSET DataIDs]
      BY <2>0, <2>4 DEF List, TypeOK
    <3> QED
      BY <2>4, <3>1, <3>2 DEF List, Succeed, TypeOK, CallTypes, stores, history
  <2>5. CASE SyncList(r)
    <3>1. CallTypes'
      BY <2>5, CallTypesOfCall DEF SyncList
    <3>2. snap' \in [Requests -> SUBSET DataIDs]
      BY <2>0, <2>5 DEF SyncList, TypeOK
    <3> QED
      BY <2>5, <3>1, <3>2 DEF SyncList, TypeOK, CallTypes, stores, history
  <2>6. CASE SyncNext(r)
    <3>1. PICK id \in snap[r] : sent' = [sent EXCEPT ![r] = @ \cup {Message(id, born[id].loc)}]
      BY <2>6 DEF SyncNext
    <3>2. id \in DataIDs /\ born[id].loc \in Locators
      BY <2>6 DEF SyncNext, Written, TypeOK, Rows
    <3>3. Message(id, born[id].loc) \in Messages
      BY <3>2, MessageType
    <3>4. sent' \in [Requests -> SUBSET Messages]
      BY <3>1, <3>3 DEF TypeOK
    <3> QED
      BY <2>6, <3>4 DEF SyncNext, TypeOK, stores, callvars, history
  <2>7. CASE SyncFull(r)
    BY <2>7, <1>0 DEF SyncFull
  <2>8. CASE SyncDone(r)
    BY <2>8, <1>10 DEF SyncDone
  <2>9. CASE ReadFault(r)
    BY <2>9, <1>0 DEF ReadFault
  <2> QED
    BY <1>4, <2>1, <2>2, <2>3, <2>4, <2>5, <2>6, <2>7, <2>8, <2>9
    DEF ReadStep
<1>5. CASE Crash
  BY <1>5, NoRequestType
  DEF Crash, Fault, TypeOK, stores, maxAttemptCount
<1>6. CASE UNCHANGED vars
  BY <1>6 DEF TypeOK, vars, stores, callvars, history
<1> QED
  BY <1>1, <1>2, <1>3, <1>4, <1>5, <1>6 DEF Next, ServerStep

-----------------------------------------------------------------------------
(***************************************************************************)
(* The invariants on the two stores.                                       *)
(***************************************************************************)

\* The invariants without the types.
StoreInv ==
  /\ Written
  /\ Locals
  /\ Calm
  /\ Ownership
  /\ NoDangling
  /\ NoOrphans

\* Slots other than r keep everything the invariants look at.
Others(r) ==
  \A q \in Requests : q # r =>
    /\ pc'[q] = pc[q]
    /\ rq'[q] = rq[q]
    /\ loc'[q] = loc[q]
    /\ live'[q] = live[q]
    /\ snap'[q] = snap[q]
    /\ added'[q] = added[q]

\* Slot r is idle after the step.
Idle(r) == pc'[r] = "idle" /\ snap'[r] \subseteq snap[r]

\* Failing touches one slot only, and leaves it idle.
LEMMA FailSlot ==
  ASSUME TypeOK, NEW r \in Requests, NEW code, Fail(r, code)
  PROVE  Others(r) /\ Idle(r)
  BY DEF TypeOK, Fail, Return, Others, Idle

\* So does succeeding.
LEMMA SucceedSlot ==
  ASSUME TypeOK, NEW r \in Requests, Succeed(r), UNCHANGED snap
  PROVE  Others(r) /\ Idle(r)
  BY DEF TypeOK, Succeed, Return, Others, Idle

\* Calling a repository touches one slot only.
LEMMA CallSlot ==
  ASSUME TypeOK, NEW r \in Requests, NEW s, NEW l, Call(r, s, l),
         UNCHANGED <<rq, snap, added>>
  PROVE  /\ Others(r)
         /\ pc'[r] = s /\ loc'[r] = l /\ live'[r] = TRUE
         /\ rq'[r] = rq[r] /\ snap'[r] = snap[r] /\ added'[r] = added[r]
  BY DEF TypeOK, Call, Others

\* A retry touches one slot only, and nothing but its counter and its context.
LEMMA RetrySlot ==
  ASSUME TypeOK, NEW r \in Requests, Retry(r)
  PROVE  Others(r) /\ UNCHANGED <<pc, rq, loc, snap, added>>
<1>1. PICK b \in BOOLEAN : live' = [live EXCEPT ![r] = b /\ InTime(tries[r] + 1)]
  BY DEF Retry
<1>2. \A q \in Requests : q # r => live'[q] = live[q]
  BY <1>1 DEF TypeOK
<1>3. UNCHANGED <<pc, rq, loc, snap, added>>
  BY DEF Retry
<1> QED
  BY <1>2, <1>3 DEF Others

\* The other slots hold and add what they held and added.
LEMMA OthersHold ==
  ASSUME NEW r \in Requests, Others(r), NEW q \in Requests, q # r
  PROVE  /\ Holding(q)' <=> Holding(q)
         /\ Adding(q)' <=> Adding(q)
         /\ HasItem(q)' <=> HasItem(q)
         /\ Item(q)' = Item(q)
         /\ loc'[q] = loc[q]
  BY DEF Others, Holding, Adding, HasItem, Item

\* A row in the table names a locator, and its item had bytes.
LEMMA RowOf ==
  ASSUME TypeOK, Written, NEW id \in alive
  PROVE  /\ id \in DataIDs /\ born[id] # NoRow
         /\ born[id].loc \in Locators
         /\ born[id].sealed # Empty
<1>1. id \in DataIDs /\ born[id] # NoRow
  BY DEF TypeOK, Written
<1>2. born[id] \in Rows
  BY <1>1 DEF TypeOK
<1> QED
  BY <1>1, <1>2, SentinelAssumption DEF Rows

\* A request that holds an object works on a locator.
LEMMA HoldsLocator ==
  ASSUME Locals, NEW r \in Requests, Holding(r)
  PROVE  loc[r] \in Locators
  BY DEF Locals, LocalsOf, Holding, Adding

\* Where no object is, nothing has a claim, unless a write is in doubt.
LEMMA Unclaimed ==
  ASSUME TypeOK, StoreInv, NEW l \in Locators, content[l] = Empty,
         l \notin contested
  PROVE  /\ \A id \in alive : born[id].loc # l
         /\ \A q \in Requests : Holding(q) => loc[q] # l
<1>1. ASSUME NEW id \in alive, born[id].loc = l
      PROVE  FALSE
  <2>1. born[id].sealed # Empty
    BY RowOf DEF StoreInv
  <2> QED
    BY <1>1, <2>1 DEF StoreInv, NoDangling
<1>2. ASSUME NEW q \in Requests, Holding(q), loc[q] = l
      PROVE  FALSE
  BY <1>2 DEF StoreInv, Ownership, SoleClaim, objects
<1> QED
  BY <1>1, <1>2

\* The locals of the other slots stay as they were when the table loses no row
\* and no identifier is born twice.
LEMMA LocalsOfOthers ==
  ASSUME TypeOK, Locals, NEW r \in Requests, Others(r),
         \A i \in DataIDs : born[i] # NoRow => born'[i] = born[i],
         \A i \in DataIDs : (born[i] # NoRow /\ i \notin alive) => i \notin alive',
         NEW q \in Requests, q # r
  PROVE  LocalsOf(q)'
<1>1. Adding(q)' => /\ loc'[q] \in Locators
                    /\ HasItem(q)'
                    /\ Item(q)'.type # "MALFORMED"
                    /\ Item(q)'.sealed # Empty
  BY OthersHold DEF Locals, LocalsOf
<1>2. pc'[q] = "delobj" => /\ loc'[q] \in Locators
                           /\ rq'[q].id \in DataIDs \ alive'
                           /\ born'[rq'[q].id] # NoRow
  BY DEF Others, Locals, LocalsOf
<1>3. pc'[q] = "getobj" => /\ rq'[q].id \in DataIDs
                           /\ born'[rq'[q].id] # NoRow
                           /\ loc'[q] = born'[rq'[q].id].loc
  BY DEF Others, Locals, LocalsOf
<1> QED
  BY <1>1, <1>2, <1>3 DEF LocalsOf

(***************************************************************************)
(* A step is quiet when it writes no store and its slot holds no object    *)
(* before or after.                                                        *)
(***************************************************************************)
Quiet(r) ==
  /\ UNCHANGED <<stores, history>>
  /\ Others(r)
  /\ ~ Holding(r)
  /\ ~ Holding(r)'
  /\ pc'[r] = "getobj" =>
       /\ rq'[r].id \in DataIDs
       /\ born[rq'[r].id] # NoRow
       /\ loc'[r] = born[rq'[r].id].loc
  /\ snap'[r] \subseteq snap[r] \cup alive

\* A quiet step preserves the invariants.
LEMMA QuietStep ==
  ASSUME TypeOK, TypeOK', StoreInv, NEW r \in Requests, Quiet(r)
  PROVE  StoreInv'
<1>0. /\ UNCHANGED <<content, born, alive, contested, faulted>>
      /\ objects' = objects
  BY DEF Quiet, stores, history, objects
<1>1. Others(r) /\ ~ Holding(r) /\ ~ Holding(r)'
  BY DEF Quiet
<1>2. \A q \in Requests : Holding(q)' =>
        /\ q # r /\ Holding(q) /\ loc'[q] = loc[q]
        /\ Adding(q)' <=> Adding(q)
        /\ Item(q)' = Item(q)
        /\ HasItem(q)' <=> HasItem(q)
  BY <1>1, OthersHold
<1>3. \A q \in Requests : Holding(q) => Holding(q)' /\ loc'[q] = loc[q]
  BY <1>1, OthersHold
<1>4. Written'
  <2>1. \A q \in Requests : snap'[q] \subseteq snap[q] \cup alive
    BY <1>1 DEF Quiet, Others
  <2> QED
    BY <1>0, <2>1 DEF StoreInv, Written
<1>5. Locals'
  <2>1. \A q \in Requests : q # r => LocalsOf(q)'
    BY <1>0, <1>1, LocalsOfOthers DEF StoreInv
  <2>2. LocalsOf(r)'
    BY <1>0, <1>1 DEF Quiet, LocalsOf, Holding, Adding
  <2> QED
    BY <2>1, <2>2 DEF Locals
<1>6. Calm'
  BY <1>0, <1>1, <1>2 DEF StoreInv, Calm, Others
<1>7. Ownership'
  BY <1>0, <1>2 DEF StoreInv, Ownership, SoleClaim
<1>8. NoDangling'
  BY <1>0 DEF StoreInv, NoDangling
<1>9. NoOrphans'
  BY <1>0, <1>3 DEF StoreInv, NoOrphans
<1> QED
  BY <1>4, <1>5, <1>6, <1>7, <1>8, <1>9 DEF StoreInv

\* What reads, refusals and the early steps of a request do is quiet.
LEMMA QuietSteps ==
  ASSUME TypeOK, StoreInv, NEW r \in Requests,
         \/ ClientStep(r) \/ ReadStep(r)
         \/ AllAdded(r) \/ RejectItem(r) \/ PutObjectRefused(r)
         \/ DeleteMetadataRefused(r)
  PROVE  Quiet(r)
<1>0. ASSUME Others(r), Idle(r), UNCHANGED <<stores, history>>, ~ Holding(r)
      PROVE  Quiet(r)
  BY <1>0 DEF Quiet, Idle, Holding
<1>1. ASSUME NEW m, NEW s, Begin(r, m, s),
             s \notin {"putmeta", "undo", "delobj", "getobj"}
      PROVE  Quiet(r)
  BY <1>1 DEF Begin, Quiet, Holding, Others, TypeOK, callvars
<1>2. CASE ClientStep(r)
  <2>1. CASE StartAdd(r)
    BY <1>1, <2>1 DEF StartAdd
  <2>2. CASE StartDelete(r)
    BY <1>1, <2>2 DEF StartDelete
  <2>3. CASE StartGet(r)
    BY <1>1, <2>3 DEF StartGet
  <2>4. CASE StartList(r)
    BY <1>1, <2>4 DEF StartList
  <2>5. CASE StartSync(r)
    BY <1>1, <2>5 DEF StartSync
  <2>6. CASE Refuse(r)
    BY <1>0, <2>6, FailSlot DEF Refuse, Holding
  <2>7. CASE RecvEOF(r)
    BY <2>7 DEF RecvEOF, Quiet, Holding, Others, TypeOK, callvars
  <2>8. CASE RecvBroken(r)
    BY <1>0, <2>8, FailSlot DEF RecvBroken, Holding
  <2> QED
    BY <1>2, <2>1, <2>2, <2>3, <2>4, <2>5, <2>6, <2>7, <2>8 DEF ClientStep
<1>3. CASE ReadStep(r)
  <2>1. CASE GetMetadata(r)
    <3>1. /\ rq[r].id \in alive /\ rq[r].id \in DataIDs
          /\ born[rq[r].id] # NoRow
      BY <2>1, RowOf DEF GetMetadata, StoreInv
    <3>2. /\ Others(r) /\ pc'[r] = "getobj"
          /\ loc'[r] = born[rq[r].id].loc
          /\ rq'[r] = rq[r] /\ snap'[r] = snap[r]
      BY <2>1, CallSlot DEF GetMetadata
    <3> QED
      BY <2>1, <3>1, <3>2 DEF GetMetadata, Quiet, Holding
  <2>2. CASE GetMetadataRefused(r)
    BY <1>0, <2>2, FailSlot DEF GetMetadataRefused, Holding
  <2>3. CASE GetObject(r)
    BY <1>0, <2>3, SucceedSlot DEF GetObject, Holding
  <2>4. CASE List(r)
    BY <2>4 DEF List, RowsOf, Succeed, Return, Quiet, Holding, Others, TypeOK
  <2>5. CASE SyncList(r)
    BY <2>5 DEF SyncList, RowsOf, Call, Quiet, Holding, Others, TypeOK
  <2>6. CASE SyncNext(r)
    BY <2>6 DEF SyncNext, Quiet, Holding, Others, callvars
  <2>7. CASE SyncFull(r)
    BY <1>0, <2>7, FailSlot DEF SyncFull, Holding
  <2>8. CASE SyncDone(r)
    BY <1>0, <2>8, SucceedSlot DEF SyncDone, Holding
  <2>9. CASE ReadFault(r)
    BY <1>0, <2>9, FailSlot DEF ReadFault, Holding
  <2> QED
    BY <1>3, <2>1, <2>2, <2>3, <2>4, <2>5, <2>6, <2>7, <2>8, <2>9
    DEF ReadStep
<1>4. CASE AllAdded(r)
  BY <1>0, <1>4, SucceedSlot, FailSlot DEF AllAdded, Holding
<1>5. CASE RejectItem(r)
  BY <1>0, <1>5, FailSlot DEF RejectItem, Holding
<1>6. CASE PutObjectRefused(r)
  BY <1>0, <1>6, FailSlot DEF PutObjectRefused, Acceptable, Holding
<1>7. CASE DeleteMetadataRefused(r)
  BY <1>0, <1>7, FailSlot DEF DeleteMetadataRefused, Holding
<1> QED
  BY <1>2, <1>3, <1>4, <1>5, <1>6, <1>7
(***************************************************************************)
(* The steps of AddSealed.                                                 *)
(***************************************************************************)

\* objectRepo.Put stores where no object was, so that nothing had a claim on
\* it, and the new object belongs to this request alone.
LEMMA PutObjectStep ==
  ASSUME TypeOK, TypeOK', StoreInv, NEW r \in Requests, PutObject(r)
  PROVE  StoreInv'
<1> DEFINE l == Item(r).id
<1>1. l \in Locators /\ content[l] = Empty
  BY DEF PutObject, Puttable, objects
<1>2. /\ Others(r)
      /\ pc'[r] = "putmeta" /\ loc'[r] = l /\ live'[r] = TRUE
      /\ rq'[r] = rq[r] /\ snap'[r] = snap[r] /\ added'[r] = added[r]
  BY CallSlot DEF PutObject
<1>3. UNCHANGED <<born, alive, contested, faulted>>
  BY DEF PutObject, history
<1>4. /\ content'[l] = Item(r).sealed /\ content'[l] # Empty
      /\ \A k \in Locators : k # l => content'[k] = content[k]
      /\ objects' = objects \cup {l}
  BY <1>1 DEF StoreObject, PutObject, Acceptable, TypeOK, objects
<1>5. /\ HasItem(r)' /\ Item(r)' = Item(r)
      /\ Item(r).type # "MALFORMED" /\ Item(r).sealed # Empty
  BY <1>2 DEF HasItem, Item, PutObject, Acceptable
<1>6. ~ Holding(r) /\ Holding(r)' /\ Adding(r)'
  BY <1>2 DEF Holding, Adding, PutObject, Acceptable
<1> HIDE DEF l
<1>7. l \notin contested =>
        /\ \A id \in alive : born[id].loc # l
        /\ \A q \in Requests : Holding(q) => loc[q] # l
  BY <1>1, Unclaimed
<1>8. \A q \in Requests : q # r =>
        /\ Holding(q)' <=> Holding(q)
        /\ Adding(q)' <=> Adding(q)
        /\ Item(q)' = Item(q)
        /\ loc'[q] = loc[q]
  BY <1>2, OthersHold
<1>9. Written'
  <2>1. \A q \in Requests : snap'[q] = snap[q]
    BY <1>2 DEF Others
  <2> QED
    BY <1>3, <2>1 DEF StoreInv, Written
<1>10. Locals'
  <2>1. ASSUME NEW q \in Requests, q # r
        PROVE  LocalsOf(q)'
    BY <1>2, <1>3, <2>1, LocalsOfOthers DEF StoreInv
  <2> QED
    BY <1>1, <1>2, <1>5, <2>1 DEF Locals, LocalsOf
<1>11. Calm'
  BY <1>2, <1>3, <1>8 DEF StoreInv, Calm, Others
<1>12. Ownership'
  <2>1. ASSUME NEW q \in Requests, Holding(q)', loc'[q] \notin contested', q # r
        PROVE  SoleClaim(q)'
    <3>1. Holding(q) /\ loc'[q] = loc[q] /\ loc[q] \notin contested
      BY <1>3, <1>8, <2>1
    <3>2. loc[q] \in objects /\ loc[q] # l /\ loc[q] \in Locators
      BY <1>1, <3>1 DEF StoreInv, Ownership, SoleClaim, objects
    <3>3. \A p \in Requests : (p # q /\ Holding(p)') => loc'[p] # loc'[q]
      BY <1>2, <1>8, <3>1, <3>2 DEF StoreInv, Ownership, SoleClaim
    <3> QED
      BY <1>3, <1>4, <1>8, <2>1, <3>1, <3>2, <3>3 DEF StoreInv, Ownership, SoleClaim
  <2>2. ASSUME loc'[r] \notin contested'
        PROVE  SoleClaim(r)'
    BY <1>2, <1>3, <1>4, <1>5, <1>7, <1>8, <2>2 DEF SoleClaim
  <2> QED
    BY <1>3, <2>1, <2>2 DEF StoreInv, Ownership, SoleClaim
<1>13. NoDangling'
  <2>1. ASSUME NEW id \in alive, born[id].loc \notin contested
        PROVE  content'[born[id].loc] = born[id].sealed
    <3>1. born[id].loc \in Locators /\ born[id].loc # l
      BY <1>7, <2>1, RowOf DEF StoreInv
    <3> QED
      BY <1>4, <2>1, <3>1 DEF StoreInv, NoDangling
  <2> QED
    BY <1>3, <2>1 DEF NoDangling
<1>14. NoOrphans'
  <2>1. \A q \in Requests : Holding(q) => Holding(q)' /\ loc'[q] = loc[q]
    BY <1>6, <1>8
  <2> QED
    BY <1>2, <1>3, <1>4, <1>6, <2>1 DEF StoreInv, NoOrphans
<1> QED
  BY <1>9, <1>10, <1>11, <1>12, <1>13, <1>14 DEF StoreInv

\* An objectRepo.Put that fails may leave an object nothing has a claim on.
LEMMA PutObjectFaultStep ==
  ASSUME TypeOK, TypeOK', StoreInv, NEW r \in Requests, PutObjectFault(r)
  PROVE  StoreInv'
<1>1. Others(r) /\ Idle(r) /\ ~ Holding(r)
  BY FailSlot DEF PutObjectFault, Acceptable, Holding
<1>2. UNCHANGED <<born, alive, contested>> /\ faulted'
  BY DEF PutObjectFault, Fault
<1>3. \A k \in Locators : content[k] # Empty => content'[k] = content[k]
  BY DEF PutObjectFault, Puttable, objects, StoreObject, TypeOK
<1>4. Written'
  <2>1. \A q \in Requests : snap'[q] \subseteq snap[q]
    BY <1>1 DEF Others, Idle
  <2> QED
    BY <1>2, <2>1 DEF StoreInv, Written
<1>5. Locals'
  <2>1. ~ Adding(r)' /\ pc'[r] # "delobj" /\ pc'[r] # "getobj"
    BY <1>1 DEF Idle, Adding
  <2> QED
    BY <1>1, <1>2, <2>1, LocalsOfOthers DEF StoreInv, Locals, LocalsOf
<1>6. Calm' /\ NoOrphans'
  BY <1>2 DEF Calm, NoOrphans
<1>7. Ownership'
  <2>1. ASSUME NEW q \in Requests, Holding(q)', loc'[q] \notin contested'
        PROVE  SoleClaim(q)'
    <3>1. q # r
      BY <1>1, <2>1 DEF Idle, Holding
    <3>2. /\ Holding(q) /\ loc'[q] = loc[q] /\ loc[q] \notin contested
          /\ Adding(q)' <=> Adding(q)
          /\ Item(q)' = Item(q)
      BY <1>1, <1>2, <2>1, <3>1, OthersHold
    <3>3. loc[q] \in Locators /\ content[loc[q]] # Empty
      BY <3>2 DEF StoreInv, Ownership, SoleClaim, objects
    <3>4. content'[loc[q]] = content[loc[q]]
      BY <1>3, <3>3
    <3>5. \A p \in Requests : Holding(p)' => Holding(p) /\ loc'[p] = loc[p]
      BY <1>1, OthersHold DEF Idle, Holding
    <3> QED
      BY <1>2, <3>2, <3>3, <3>4, <3>5 DEF StoreInv, Ownership, SoleClaim, objects
  <2> QED
    BY <1>2, <2>1 DEF StoreInv, Ownership, SoleClaim
<1>8. NoDangling'
  <2>1. ASSUME NEW id \in alive, born[id].loc \notin contested
        PROVE  content'[born[id].loc] = born[id].sealed
    <3>1. born[id].loc \in Locators /\ born[id].sealed # Empty
      BY RowOf DEF StoreInv
    <3>2. content[born[id].loc] = born[id].sealed
      BY <2>1 DEF StoreInv, NoDangling
    <3> QED
      BY <1>3, <3>1, <3>2
  <2> QED
    BY <1>2, <2>1 DEF NoDangling
<1> QED
  BY <1>4, <1>5, <1>6, <1>7, <1>8 DEF StoreInv
\* What a new row under a fresh identifier changes.
LEMMA RowInserted ==
  ASSUME TypeOK, Written, Locals, NEW r \in Requests, Adding(r), Insertable(r),
         NEW id \in FreshIDs, InsertRow(id, NewRow(r))
  PROVE  /\ id \in DataIDs /\ born[id] = NoRow /\ id \notin alive
         /\ alive' = alive \cup {id}
         /\ born'[id] # NoRow
         /\ born'[id].loc = loc[r] /\ born'[id].sealed = Item(r).sealed
         /\ \A i \in DataIDs : i # id => born'[i] = born[i]
<1>1. id \in DataIDs /\ born[id] = NoRow /\ id \notin alive
  BY DEF FreshIDs, Written
<1>2. /\ NewRow(r) \in Rows
      /\ NewRow(r).loc = loc[r] /\ NewRow(r).sealed = Item(r).sealed
  BY NewRowType DEF NewRow
<1> QED
  BY <1>1, <1>2, SentinelAssumption DEF InsertRow, TypeOK

\* A new row makes no message of a Sync and no local of a slot stale.
LEMMA WrittenAfterInsert ==
  ASSUME TypeOK, Written, NEW id \in DataIDs, alive' = alive \cup {id},
         born'[id] # NoRow, \A i \in DataIDs : i # id => born'[i] = born[i],
         \A q \in Requests : snap'[q] = snap[q]
  PROVE  Written'
<1>1. \A i \in alive' : born'[i] # NoRow
  BY DEF Written, TypeOK
<1>2. \A q \in Requests : \A i \in snap[q] : i \in DataIDs /\ born[i] # NoRow
  BY DEF Written, TypeOK
<1> QED
  BY <1>1, <1>2 DEF Written

\* metadataRepo.Put gives the object of this request its row: the only row of
\* that locator, unless an earlier attempt is in doubt.
LEMMA PutMetadataStep ==
  ASSUME TypeOK, TypeOK', StoreInv, NEW r \in Requests, PutMetadata(r)
  PROVE  StoreInv'
<1>1. Adding(r) /\ Holding(r) /\ Insertable(r)
  BY DEF PutMetadata, Adding, Holding
<1>2. PICK id \in FreshIDs :
        /\ InsertRow(id, NewRow(r))
        /\ added' = [added EXCEPT ![r] = Append(@, id)]
  BY DEF PutMetadata
<1>3. /\ id \in DataIDs /\ born[id] = NoRow /\ id \notin alive
      /\ alive' = alive \cup {id}
      /\ born'[id] # NoRow
      /\ born'[id].loc = loc[r] /\ born'[id].sealed = Item(r).sealed
      /\ \A i \in DataIDs : i # id => born'[i] = born[i]
  BY <1>1, <1>2, RowInserted DEF StoreInv
<1>4. /\ UNCHANGED <<content, contested, faulted, rq, snap>>
      /\ objects' = objects
  BY DEF PutMetadata, history, objects
<1>5. Others(r) /\ pc'[r] = "item"
  BY <1>2 DEF PutMetadata, Call, Others, TypeOK
<1>6. /\ \A q \in Requests : Holding(q)' =>
           /\ q # r /\ Holding(q) /\ loc'[q] = loc[q]
           /\ Adding(q)' <=> Adding(q)
           /\ Item(q)' = Item(q)
      /\ \A q \in Requests : Holding(q) =>
           q = r \/ (Holding(q)' /\ loc'[q] = loc[q])
  BY <1>5, OthersHold DEF Holding
<1>7. \A i \in alive : i \in DataIDs /\ i # id /\ born'[i] = born[i]
  BY <1>3 DEF TypeOK
<1>8. Written'
  BY <1>3, <1>4, WrittenAfterInsert DEF StoreInv
<1>9. Locals'
  <2>1. \A q \in Requests : q # r => LocalsOf(q)'
    BY <1>3, <1>5, LocalsOfOthers DEF StoreInv
  <2>2. LocalsOf(r)'
    BY <1>5 DEF LocalsOf, Adding
  <2> QED
    BY <2>1, <2>2 DEF Locals
<1>10. Calm'
  BY <1>4, <1>5, <1>6 DEF StoreInv, Calm, Others
<1>11. Ownership'
  <2>1. ASSUME NEW q \in Requests, Holding(q)', loc'[q] \notin contested'
        PROVE  SoleClaim(q)'
    <3>1. /\ q # r /\ Holding(q) /\ loc'[q] = loc[q]
          /\ Adding(q)' <=> Adding(q)
          /\ Item(q)' = Item(q)
      BY <1>6, <2>1
    <3>2. SoleClaim(q)
      BY <1>4, <2>1, <3>1 DEF StoreInv, Ownership
    <3>3. loc[r] # loc[q]
      BY <1>1, <3>1, <3>2 DEF SoleClaim
    <3>4. \A i \in alive' : born'[i].loc # loc[q]
      BY <1>3, <1>7, <3>2, <3>3 DEF SoleClaim
    <3> QED
      BY <1>4, <1>6, <3>1, <3>2, <3>4 DEF SoleClaim
  <2>2. \A i \in alive : born[i].loc = loc[r] => loc[r] \in contested
    BY <1>1 DEF StoreInv, Ownership, SoleClaim
  <2>3. ASSUME NEW i \in alive', NEW j \in alive', i # j,
               born'[i].loc = born'[j].loc
        PROVE  born'[i].loc \in contested'
    <3>1. CASE i = id
      BY <1>3, <1>4, <1>7, <2>2, <2>3, <3>1
    <3>2. CASE j = id
      BY <1>3, <1>4, <1>7, <2>2, <2>3, <3>2
    <3>3. CASE i # id /\ j # id
      BY <1>3, <1>4, <1>7, <2>3, <3>3 DEF StoreInv, Ownership
    <3> QED
      BY <3>1, <3>2, <3>3
  <2> QED
    BY <2>1, <2>3 DEF Ownership
<1>12. NoDangling'
  <2>1. loc[r] \in contested \/ content[loc[r]] = Item(r).sealed
    BY <1>1 DEF StoreInv, Ownership, SoleClaim
  <2> QED
    BY <1>3, <1>4, <1>7, <2>1 DEF StoreInv, NoDangling
<1>13. NoOrphans'
  BY <1>3, <1>4, <1>6, <1>7 DEF StoreInv, NoOrphans
<1> QED
  BY <1>8, <1>9, <1>10, <1>11, <1>12, <1>13 DEF StoreInv

\* A metadataRepo.Put that ends without a row, for sure, keeps the object for
\* the compensation.
LEMMA CompensateStep ==
  ASSUME TypeOK, TypeOK', StoreInv, NEW r \in Requests,
         PutMetadataRefused(r) \/ PutMetadataExpired(r)
  PROVE  StoreInv'
<1>1. /\ pc[r] = "putmeta" /\ pc'[r] = "undo"
      /\ \A q \in Requests : q # r => pc'[q] = pc[q]
      /\ UNCHANGED <<content, born, alive, contested, faulted>>
      /\ UNCHANGED <<rq, loc, live, snap, added>>
  BY DEF PutMetadataRefused, PutMetadataExpired, Compensate, TypeOK, stores,
         history
<1>2. /\ objects' = objects
      /\ \A q \in Requests :
           /\ Adding(q)' <=> Adding(q)
           /\ Holding(q)' <=> Holding(q)
           /\ HasItem(q)' <=> HasItem(q)
           /\ Item(q)' = Item(q)
           /\ pc'[q] \in {"delobj", "getobj"} => pc'[q] = pc[q]
  BY <1>1 DEF Adding, Holding, HasItem, Item, objects
<1>3. Written'
  BY <1>1 DEF StoreInv, Written
<1>4. Locals'
  BY <1>1, <1>2 DEF StoreInv, Locals, LocalsOf
<1>5. Calm'
  BY <1>1, <1>2 DEF StoreInv, Calm
<1>6. Ownership'
  BY <1>1, <1>2 DEF StoreInv, Ownership, SoleClaim
<1>7. NoDangling' /\ NoOrphans'
  BY <1>1, <1>2 DEF StoreInv, NoDangling, NoOrphans
<1> QED
  BY <1>3, <1>4, <1>5, <1>6, <1>7 DEF StoreInv

\* A metadataRepo.Put that fails may have inserted a row: the locator is then
\* contested.
LEMMA PutMetadataFaultStep ==
  ASSUME TypeOK, TypeOK', StoreInv, NEW r \in Requests, PutMetadataFault(r)
  PROVE  StoreInv'
<1>1. /\ pc[r] = "putmeta" /\ pc'[r] \in {"putmeta", "undo"}
      /\ \A q \in Requests : q # r => pc'[q] = pc[q]
      /\ UNCHANGED <<content, rq, loc, snap, added>>
      /\ faulted'
  <2>1. CASE Retry(r)
    BY <2>1 DEF PutMetadataFault, Retry, Fault
  <2>2. CASE Compensate(r)
    BY <2>2 DEF PutMetadataFault, Compensate, Fault, TypeOK
  <2> QED
    BY <2>1, <2>2 DEF PutMetadataFault
<1>2. /\ objects' = objects
      /\ \A q \in Requests :
           /\ Adding(q)' <=> Adding(q)
           /\ Holding(q)' <=> Holding(q)
           /\ HasItem(q)' <=> HasItem(q)
           /\ Item(q)' = Item(q)
           /\ pc'[q] \in {"delobj", "getobj"} => pc'[q] = pc[q]
  BY <1>1 DEF Adding, Holding, HasItem, Item, objects
<1>3. Adding(r)
  BY <1>1 DEF Adding
<1>4. Calm' /\ NoOrphans'
  BY <1>1 DEF Calm, NoOrphans
<1>5. CASE UNCHANGED <<born, alive, contested>>
  <2>1. Written'
    BY <1>1, <1>5 DEF StoreInv, Written
  <2>2. Locals'
    BY <1>1, <1>2, <1>5 DEF StoreInv, Locals, LocalsOf
  <2>3. Ownership'
    BY <1>1, <1>2, <1>5 DEF StoreInv, Ownership, SoleClaim
  <2>4. NoDangling'
    BY <1>1, <1>5 DEF StoreInv, NoDangling
  <2> QED
    BY <1>4, <2>1, <2>2, <2>3, <2>4 DEF StoreInv
<1>6. CASE /\ Insertable(r)
           /\ \E id \in FreshIDs : InsertRow(id, NewRow(r))
           /\ contested' = contested \cup {loc[r]}
  <2>1. PICK id \in FreshIDs : InsertRow(id, NewRow(r))
    BY <1>6
  <2>2. /\ id \in DataIDs /\ born[id] = NoRow /\ id \notin alive
        /\ alive' = alive \cup {id}
        /\ born'[id] # NoRow
        /\ born'[id].loc = loc[r]
        /\ \A i \in DataIDs : i # id => born'[i] = born[i]
    BY <1>3, <1>6, <2>1, RowInserted DEF StoreInv
  <2>3. \A i \in alive : i \in DataIDs /\ i # id /\ born'[i] = born[i]
    BY <2>2 DEF TypeOK
  <2>4. Written'
    BY <1>1, <2>2, WrittenAfterInsert DEF StoreInv
  <2>5. Locals'
    <3>1. ASSUME NEW q \in Requests
          PROVE  LocalsOf(q)'
      <4>1. Adding(q)' => /\ loc'[q] \in Locators
                          /\ HasItem(q)'
                          /\ Item(q)'.type # "MALFORMED"
                          /\ Item(q)'.sealed # Empty
        BY <1>1, <1>2 DEF StoreInv, Locals, LocalsOf
      <4>2. pc'[q] = "delobj" => /\ loc'[q] \in Locators
                                 /\ rq'[q].id \in DataIDs \ alive'
                                 /\ born'[rq'[q].id] # NoRow
        BY <1>1, <1>2, <2>2 DEF StoreInv, Locals, LocalsOf
      <4>3. pc'[q] = "getobj" => /\ rq'[q].id \in DataIDs
                                 /\ born'[rq'[q].id] # NoRow
                                 /\ loc'[q] = born'[rq'[q].id].loc
        BY <1>1, <1>2, <2>2 DEF StoreInv, Locals, LocalsOf
      <4> QED
        BY <4>1, <4>2, <4>3 DEF LocalsOf
    <3> QED
      BY <3>1 DEF Locals
  <2>6. Ownership'
    <3>1. ASSUME NEW q \in Requests, Holding(q)', loc'[q] \notin contested'
          PROVE  SoleClaim(q)'
      <4>1. Holding(q) /\ loc[q] \notin contested /\ loc[q] # loc[r]
        BY <1>1, <1>2, <1>6, <3>1
      <4>2. SoleClaim(q)
        BY <4>1 DEF StoreInv, Ownership
      <4>3. \A i \in alive' : born'[i].loc # loc[q]
        BY <2>2, <2>3, <4>1, <4>2 DEF SoleClaim
      <4> QED
        BY <1>1, <1>2, <4>2, <4>3 DEF SoleClaim
    <3>2. \A i, j \in alive' : (i # j /\ born'[i].loc = born'[j].loc) =>
            born'[i].loc \in contested'
      BY <1>6, <2>2, <2>3 DEF StoreInv, Ownership
    <3> QED
      BY <3>1, <3>2 DEF Ownership
  <2>7. NoDangling'
    BY <1>1, <1>6, <2>2, <2>3 DEF StoreInv, NoDangling
  <2> QED
    BY <1>4, <2>4, <2>5, <2>6, <2>7 DEF StoreInv
<1> QED
  BY <1>5, <1>6 DEF PutMetadataFault, InsertUnnoticed
(***************************************************************************)
(* A request that holds an object removes it, or fails to, and returns:    *)
(* the compensation of AddSealed and the second half of Delete.            *)
(***************************************************************************)
Release(r) ==
  /\ Holding(r) /\ Others(r) /\ Idle(r)
  /\ UNCHANGED <<born, alive, contested>>
  /\ content' \in {content, [content EXCEPT ![loc[r]] = Empty]}
  /\ faulted => faulted'
  /\ ~ faulted' => content'[loc[r]] = Empty

\* What such a request removes neither a row nor another request has a claim on.
LEMMA ReleaseStep ==
  ASSUME TypeOK, TypeOK', StoreInv, NEW r \in Requests, Release(r)
  PROVE  StoreInv'
<1>1. /\ Holding(r) /\ Others(r) /\ Idle(r)
      /\ UNCHANGED <<born, alive, contested>>
      /\ faulted => faulted'
      /\ ~ faulted' => content'[loc[r]] = Empty
  BY DEF Release
<1>2. loc[r] \in Locators
  BY <1>1, HoldsLocator DEF StoreInv
<1>3. /\ \A k \in Locators : k # loc[r] => content'[k] = content[k]
      /\ objects' \subseteq objects
  BY <1>2 DEF Release, TypeOK, objects
<1>4. \A q \in Requests : Holding(q)' =>
        /\ q # r /\ Holding(q) /\ loc'[q] = loc[q]
        /\ Adding(q)' <=> Adding(q)
        /\ Item(q)' = Item(q)
  BY <1>1, OthersHold DEF Idle, Holding
<1>5. \A q \in Requests : (q # r /\ Holding(q)) => Holding(q)' /\ loc'[q] = loc[q]
  BY <1>1, OthersHold
<1>6. Written'
  <2>1. \A q \in Requests : snap'[q] \subseteq snap[q]
    BY <1>1 DEF Others, Idle
  <2> QED
    BY <1>1, <2>1 DEF StoreInv, Written
<1>7. Locals'
  <2>1. \A q \in Requests : q # r => LocalsOf(q)'
    BY <1>1, LocalsOfOthers DEF StoreInv
  <2>2. LocalsOf(r)'
    BY <1>1 DEF LocalsOf, Adding, Idle
  <2> QED
    BY <2>1, <2>2 DEF Locals
<1>8. Calm'
  BY <1>1, <1>4 DEF StoreInv, Calm, Others
<1>9. Ownership'
  <2>1. ASSUME NEW q \in Requests, Holding(q)', loc'[q] \notin contested'
        PROVE  SoleClaim(q)'
    <3>1. /\ q # r /\ Holding(q) /\ loc'[q] = loc[q]
          /\ Adding(q)' <=> Adding(q)
          /\ Item(q)' = Item(q)
      BY <1>4, <2>1
    <3>2. SoleClaim(q)
      BY <1>1, <2>1, <3>1 DEF StoreInv, Ownership
    <3>3. loc[q] # loc[r] /\ loc[q] \in Locators
      BY <1>1, <3>1, <3>2 DEF SoleClaim, objects
    <3>4. content'[loc[q]] = content[loc[q]]
      BY <1>3, <3>3
    <3>5. loc[q] \in objects'
      BY <3>2, <3>3, <3>4 DEF SoleClaim, objects
    <3> QED
      BY <1>1, <1>4, <3>1, <3>2, <3>4, <3>5 DEF SoleClaim
  <2> QED
    BY <1>1, <2>1 DEF StoreInv, Ownership
<1>10. NoDangling'
  <2>1. ASSUME NEW id \in alive, born[id].loc \notin contested
        PROVE  content'[born[id].loc] = born[id].sealed
    <3>1. born[id].loc \in Locators
      BY RowOf DEF StoreInv
    <3>2. born[id].loc # loc[r]
      BY <1>1, <2>1 DEF StoreInv, Ownership, SoleClaim
    <3> QED
      BY <1>3, <2>1, <3>1, <3>2 DEF StoreInv, NoDangling
  <2> QED
    BY <1>1, <2>1 DEF NoDangling
<1>11. NoOrphans'
  <2>1. ~ faulted' => loc[r] \notin objects'
    BY <1>1 DEF objects
  <2> QED
    BY <1>1, <1>3, <1>5, <2>1 DEF StoreInv, NoOrphans
<1> QED
  BY <1>6, <1>7, <1>8, <1>9, <1>10, <1>11 DEF StoreInv

(***************************************************************************)
(* An attempt of objectRepo.Delete failed and is tried again.  If it did   *)
(* remove the object the locator is contested from now on.                 *)
(***************************************************************************)
TryAgain(r) ==
  /\ Holding(r) /\ Others(r) /\ UNCHANGED <<pc, rq, loc, snap, added>>
  /\ UNCHANGED <<born, alive>>
  /\ faulted'
  /\ \/ UNCHANGED <<content, contested>>
     \/ /\ content' = [content EXCEPT ![loc[r]] = Empty]
        /\ contested' = contested \cup {loc[r]}

\* Such a step takes nothing from a locator that stays uncontested.
LEMMA TryAgainStep ==
  ASSUME TypeOK, TypeOK', StoreInv, NEW r \in Requests, TryAgain(r)
  PROVE  StoreInv'
<1>1. /\ Holding(r)
      /\ UNCHANGED <<pc, rq, loc, snap, added, born, alive>>
      /\ faulted'
  BY DEF TryAgain
<1>2. loc[r] \in Locators
  BY <1>1, HoldsLocator DEF StoreInv
<1>3. /\ contested \subseteq contested'
      /\ \A k \in Locators : k \notin contested' => content'[k] = content[k]
  BY <1>2 DEF TryAgain, TypeOK
<1>4. \A q \in Requests :
        /\ Adding(q)' <=> Adding(q)
        /\ Holding(q)' <=> Holding(q)
        /\ HasItem(q)' <=> HasItem(q)
        /\ Item(q)' = Item(q)
  BY <1>1 DEF Adding, Holding, HasItem, Item
<1>5. Written'
  BY <1>1 DEF StoreInv, Written
<1>6. Locals'
  BY <1>1, <1>4 DEF StoreInv, Locals, LocalsOf
<1>7. Calm' /\ NoOrphans'
  BY <1>1 DEF Calm, NoOrphans
<1>8. Ownership'
  <2>1. ASSUME NEW q \in Requests, Holding(q)', loc'[q] \notin contested'
        PROVE  SoleClaim(q)'
    <3>1. SoleClaim(q) /\ loc'[q] = loc[q]
      BY <1>1, <1>3, <1>4, <2>1 DEF StoreInv, Ownership
    <3>2. loc[q] \in Locators /\ content'[loc[q]] = content[loc[q]]
      BY <1>3, <2>1, <3>1 DEF SoleClaim, objects
    <3>3. loc[q] \in objects'
      BY <3>1, <3>2 DEF SoleClaim, objects
    <3> QED
      BY <1>1, <1>4, <3>1, <3>2, <3>3 DEF SoleClaim
  <2> QED
    BY <1>1, <1>3, <2>1 DEF StoreInv, Ownership
<1>9. NoDangling'
  <2>1. \A id \in alive : born[id].loc \in Locators
    BY RowOf DEF StoreInv
  <2> QED
    BY <1>1, <1>3, <2>1 DEF StoreInv, NoDangling
<1> QED
  BY <1>5, <1>6, <1>7, <1>8, <1>9 DEF StoreInv

\* What a failing attempt of objectRepo.Delete does is one or the other.
LEMMA RemovalFailsStep ==
  ASSUME TypeOK, StoreInv, NEW r \in Requests, Holding(r), RemovalFails(r)
  PROVE  Release(r) \/ TryAgain(r)
<1>1. PICK removed \in BOOLEAN, retryable \in BOOLEAN :
        /\ content' = IF removed THEN [content EXCEPT ![loc[r]] = Empty]
                      ELSE content
        /\ \/ /\ MayRetry(tries[r], retryable)
              /\ Retry(r)
              /\ contested' = IF removed THEN contested \cup {loc[r]}
                              ELSE contested
           \/ /\ ~ MayRetry(tries[r], retryable)
              /\ Fail(r, "Internal")
              /\ UNCHANGED contested
  BY DEF RemovalFails
<1>2. UNCHANGED <<born, alive>> /\ faulted'
  BY DEF RemovalFails, Fault
<1>3. CASE Retry(r) /\ contested' = IF removed THEN contested \cup {loc[r]}
                                    ELSE contested
  <2>1. Others(r) /\ UNCHANGED <<pc, rq, loc, snap, added>>
    BY <1>3, RetrySlot
  <2> QED
    BY <1>1, <1>2, <1>3, <2>1 DEF TryAgain
<1>4. CASE Fail(r, "Internal") /\ UNCHANGED contested
  <2>1. Others(r) /\ Idle(r)
    BY <1>4, FailSlot
  <2> QED
    BY <1>1, <1>2, <1>4, <2>1 DEF Release
<1> QED
  BY <1>1, <1>3, <1>4

\* The steps that release an object or try to.
LEMMA ReleaseSteps ==
  ASSUME TypeOK, StoreInv, NEW r \in Requests,
         \/ Undo(r) \/ UndoFault(r) \/ UndoExpired(r)
         \/ DeleteObject(r) \/ DeleteObjectFault(r) \/ DeleteObjectExpired(r)
  PROVE  Release(r) \/ TryAgain(r)
<1>0. Holding(r) /\ loc[r] \in Locators
  <2>1. Holding(r)
    BY DEF Undo, UndoFault, UndoExpired, DeleteObject, DeleteObjectFault,
           DeleteObjectExpired, Holding
  <2> QED
    BY <2>1, HoldsLocator DEF StoreInv
<1>1. CASE Undo(r)
  BY <1>0, <1>1, FailSlot DEF Undo, RemoveObject, Release, history, TypeOK
<1>2. CASE UndoFault(r)
  BY <1>0, <1>2, RemovalFailsStep DEF UndoFault
<1>3. CASE UndoExpired(r)
  <2>1. faulted
    BY <1>0, <1>3 DEF UndoExpired, StoreInv, Calm
  <2> QED
    BY <1>0, <1>3, <2>1, FailSlot DEF UndoExpired, Release, stores, history
<1>4. CASE DeleteObject(r)
  BY <1>0, <1>4, SucceedSlot
  DEF DeleteObject, RemoveObject, Release, history, TypeOK
<1>5. CASE DeleteObjectFault(r)
  BY <1>0, <1>5, RemovalFailsStep DEF DeleteObjectFault
<1>6. CASE DeleteObjectExpired(r)
  <2>1. faulted
    BY <1>0, <1>6 DEF DeleteObjectExpired, StoreInv, Calm
  <2> QED
    BY <1>0, <1>6, <2>1, FailSlot
    DEF DeleteObjectExpired, Release, stores, history
<1> QED
  BY <1>1, <1>2, <1>3, <1>4, <1>5, <1>6

(***************************************************************************)
(* The first half of Delete.                                               *)
(***************************************************************************)

\* The row goes, and the claim it had on its object passes to the request.
LEMMA DeleteMetadataStep ==
  ASSUME TypeOK, TypeOK', StoreInv, NEW r \in Requests, DeleteMetadata(r)
  PROVE  StoreInv'
<1> DEFINE id == rq[r].id
<1>1. /\ id \in alive /\ id \in DataIDs /\ born[id] # NoRow
      /\ born[id].loc \in Locators /\ born[id].sealed # Empty
  <2>1. id \in alive
    BY DEF DeleteMetadata
  <2> QED
    BY <2>1, RowOf DEF StoreInv
<1>2. /\ Others(r) /\ pc'[r] = "delobj" /\ loc'[r] = born[id].loc
      /\ live'[r] = TRUE /\ rq'[r] = rq[r] /\ snap'[r] = snap[r]
  <2>1. Call(r, "delobj", born[id].loc) /\ UNCHANGED <<rq, snap, added>>
    BY DEF DeleteMetadata
  <2> HIDE DEF id
  <2> QED
    BY <2>1, CallSlot
<1>3. /\ ~ Holding(r) /\ Holding(r)' /\ ~ Adding(r)'
      /\ UNCHANGED <<content, born, contested, faulted>>
      /\ objects' = objects
      /\ alive' = alive \ {id}
      /\ rq'[r].id = id
  BY <1>2 DEF DeleteMetadata, DeleteRow, history, Holding, Adding, objects
<1> HIDE DEF id
<1>4. \A q \in Requests : q # r =>
        /\ Holding(q)' <=> Holding(q)
        /\ Adding(q)' <=> Adding(q)
        /\ Item(q)' = Item(q)
        /\ loc'[q] = loc[q]
  BY <1>2, OthersHold
<1>5. Written'
  <2>1. \A q \in Requests : snap'[q] = snap[q]
    BY <1>2 DEF Others
  <2> QED
    BY <1>3, <2>1 DEF StoreInv, Written
<1>6. Locals'
  <2>1. \A q \in Requests : q # r => LocalsOf(q)'
    BY <1>2, <1>3, LocalsOfOthers DEF StoreInv
  <2>2. LocalsOf(r)'
    BY <1>1, <1>2, <1>3 DEF LocalsOf
  <2> QED
    BY <2>1, <2>2 DEF Locals
<1>7. Calm'
  BY <1>2, <1>3, <1>4 DEF StoreInv, Calm, Others
<1>8. Ownership'
  <2>1. ASSUME NEW q \in Requests, q # r, Holding(q), loc[q] \notin contested
        PROVE  SoleClaim(q) /\ loc[q] # born[id].loc
    BY <1>1, <2>1 DEF StoreInv, Ownership, SoleClaim
  <2>2. ASSUME NEW q \in Requests, q # r, Holding(q)', loc'[q] \notin contested'
        PROVE  SoleClaim(q)'
    <3>1. Holding(q) /\ loc'[q] = loc[q] /\ loc[q] \notin contested
      BY <1>3, <1>4, <2>2
    <3>2. SoleClaim(q) /\ loc[q] # born[id].loc
      BY <2>1, <2>2, <3>1
    <3>3. \A p \in Requests : (p # q /\ Holding(p)') => loc'[p] # loc'[q]
      BY <1>2, <1>4, <3>1, <3>2 DEF SoleClaim
    <3> QED
      BY <1>3, <1>4, <2>2, <3>1, <3>2, <3>3 DEF SoleClaim
  <2>3. ASSUME born[id].loc \notin contested
        PROVE  SoleClaim(r)'
    <3>1. born[id].loc \in objects
      BY <1>1, <2>3 DEF StoreInv, NoDangling, objects
    <3>2. \A i \in alive : i # id => born[i].loc # born[id].loc
      BY <1>1, <2>3 DEF StoreInv, Ownership
    <3>3. \A q \in Requests : (q # r /\ Holding(q)) => loc[q] # born[id].loc
      BY <2>1, <2>3
    <3> QED
      BY <1>2, <1>3, <1>4, <3>1, <3>2, <3>3 DEF SoleClaim
  <2> QED
    BY <1>2, <1>3, <2>2, <2>3 DEF StoreInv, Ownership
<1>9. NoDangling'
  BY <1>3 DEF StoreInv, NoDangling
<1>10. NoOrphans'
  <2>1. \A q \in Requests : Holding(q) => Holding(q)' /\ loc'[q] = loc[q]
    BY <1>3, <1>4
  <2> QED
    BY <1>2, <1>3, <2>1 DEF StoreInv, NoOrphans
<1> QED
  BY <1>5, <1>6, <1>7, <1>8, <1>9, <1>10 DEF StoreInv

\* A failing attempt removes at most the row.
LEMMA DeleteMetadataFaultStep ==
  ASSUME TypeOK, TypeOK', StoreInv, NEW r \in Requests, DeleteMetadataFault(r)
  PROVE  StoreInv'
<1>1. /\ UNCHANGED <<content, born, contested>>
      /\ objects' = objects
      /\ alive' \subseteq alive
      /\ faulted'
  BY DEF DeleteMetadataFault, DeleteRow, Fault, objects
<1>2. /\ Others(r) /\ pc'[r] \in {"delmeta", "idle"}
      /\ snap'[r] \subseteq snap[r]
  <2>1. CASE Retry(r)
    BY <2>1, RetrySlot DEF DeleteMetadataFault
  <2>2. CASE Fail(r, "Internal")
    BY <2>2, FailSlot DEF Idle
  <2> QED
    BY <2>1, <2>2 DEF DeleteMetadataFault
<1>3. \A q \in Requests : Holding(q)' =>
        /\ q # r /\ Holding(q) /\ loc'[q] = loc[q]
        /\ Adding(q)' <=> Adding(q)
        /\ Item(q)' = Item(q)
  BY <1>2, OthersHold DEF Holding
<1>4. Written'
  <2>1. \A q \in Requests : snap'[q] \subseteq snap[q]
    BY <1>2 DEF Others
  <2> QED
    BY <1>1, <2>1 DEF StoreInv, Written
<1>5. Locals'
  <2>1. \A q \in Requests : q # r => LocalsOf(q)'
    BY <1>1, <1>2, LocalsOfOthers DEF StoreInv
  <2>2. LocalsOf(r)'
    BY <1>2 DEF LocalsOf, Adding
  <2> QED
    BY <2>1, <2>2 DEF Locals
<1>6. Calm' /\ NoOrphans'
  BY <1>1 DEF Calm, NoOrphans
<1>7. Ownership'
  <2>1. ASSUME NEW q \in Requests, Holding(q)', loc'[q] \notin contested'
        PROVE  SoleClaim(q)'
    <3>1. /\ q # r /\ Holding(q) /\ loc'[q] = loc[q]
          /\ Adding(q)' <=> Adding(q)
          /\ Item(q)' = Item(q)
      BY <1>3, <2>1
    <3>2. SoleClaim(q)
      BY <1>1, <2>1, <3>1 DEF StoreInv, Ownership
    <3> QED
      BY <1>1, <1>3, <3>1, <3>2 DEF SoleClaim
  <2> QED
    BY <1>1, <2>1 DEF StoreInv, Ownership
<1>8. NoDangling'
  BY <1>1 DEF StoreInv, NoDangling
<1> QED
  BY <1>4, <1>5, <1>6, <1>7, <1>8 DEF StoreInv

\* After a crash nobody holds anything.
LEMMA CrashStep ==
  ASSUME TypeOK, StoreInv, Crash
  PROVE  StoreInv'
<1>1. /\ \A q \in Requests : pc'[q] = "idle" /\ snap'[q] = {}
      /\ UNCHANGED <<content, born, alive, contested>>
      /\ faulted'
  BY DEF Crash, Fault, stores
<1>2. Written'
  BY <1>1 DEF StoreInv, Written
<1>3. Locals'
  BY <1>1 DEF Locals, LocalsOf, Adding
<1>4. Calm' /\ NoOrphans'
  BY <1>1 DEF Calm, NoOrphans
<1>5. Ownership'
  BY <1>1 DEF StoreInv, Ownership, Holding
<1>6. NoDangling'
  BY <1>1 DEF StoreInv, NoDangling
<1> QED
  BY <1>2, <1>3, <1>4, <1>5, <1>6 DEF StoreInv
-----------------------------------------------------------------------------
(***************************************************************************)
(* The theorems.                                                           *)
(***************************************************************************)

\* The inductive invariant holds when the server starts on empty stores.
LEMMA IndInit == Init => IndInv
<1> SUFFICES ASSUME Init PROVE IndInv
  OBVIOUS
<1>1. TypeOK
  <2>1. rq \in [Requests -> RequestMessages]
    BY NoRequestType DEF Init
  <2>2. /\ added \in [Requests -> Seq(DataIDs)]
        /\ snap \in [Requests -> SUBSET DataIDs]
        /\ sent \in [Requests -> SUBSET Messages]
    BY DEF Init
  <2>3. /\ pc \in [Requests -> States]
        /\ loc \in [Requests -> Locators \cup {NoLocator}]
        /\ tries \in [Requests -> 0 .. maxAttemptCount]
        /\ live \in [Requests -> BOOLEAN]
        /\ resp \in [Requests -> Codes]
    BY DEF Init, States, Codes, maxAttemptCount
  <2>4. /\ content \in [Locators -> Payloads \cup {Empty}]
        /\ born \in [DataIDs -> Rows \cup {NoRow}]
        /\ alive \subseteq DataIDs
        /\ contested \subseteq Locators
        /\ faulted \in BOOLEAN
    BY DEF Init
  <2> QED
    BY <2>1, <2>2, <2>3, <2>4 DEF TypeOK
<1>2. Written /\ Locals /\ Calm /\ Ownership /\ NoDangling /\ NoOrphans
  BY DEF Init, Written, Locals, LocalsOf, Calm, Ownership, NoDangling,
         NoOrphans, Adding, Holding, objects
<1> QED
  BY <1>1, <1>2 DEF IndInv

\* Every step of every request, and a crash, preserves it.
LEMMA IndNext == IndInv /\ [Next]_vars => IndInv'
<1> SUFFICES ASSUME IndInv, [Next]_vars PROVE IndInv'
  OBVIOUS
<1>1. TypeOK /\ StoreInv
  BY DEF IndInv, StoreInv
<1>2. TypeOK'
  BY <1>1, TypeNext DEF StoreInv
<1>3. ASSUME NEW r \in Requests, ClientStep(r) \/ ReadStep(r)
      PROVE  StoreInv'
  BY <1>1, <1>2, <1>3, QuietSteps, QuietStep
<1>4. ASSUME NEW r \in Requests, AddStep(r)
      PROVE  StoreInv'
  <2>1. CASE AllAdded(r) \/ RejectItem(r) \/ PutObjectRefused(r)
    BY <1>1, <1>2, <2>1, QuietSteps, QuietStep
  <2>2. CASE PutObject(r)
    BY <1>1, <1>2, <2>2, PutObjectStep
  <2>3. CASE PutObjectFault(r)
    BY <1>1, <1>2, <2>3, PutObjectFaultStep
  <2>4. CASE PutMetadata(r)
    BY <1>1, <1>2, <2>4, PutMetadataStep
  <2>5. CASE PutMetadataRefused(r) \/ PutMetadataExpired(r)
    BY <1>1, <1>2, <2>5, CompensateStep
  <2>6. CASE PutMetadataFault(r)
    BY <1>1, <1>2, <2>6, PutMetadataFaultStep
  <2>7. CASE Undo(r) \/ UndoFault(r) \/ UndoExpired(r)
    BY <1>1, <1>2, <2>7, ReleaseSteps, ReleaseStep, TryAgainStep
  <2> QED
    BY <1>4, <2>1, <2>2, <2>3, <2>4, <2>5, <2>6, <2>7 DEF AddStep
<1>5. ASSUME NEW r \in Requests, DeleteStep(r)
      PROVE  StoreInv'
  <2>1. CASE DeleteMetadata(r)
    BY <1>1, <1>2, <2>1, DeleteMetadataStep
  <2>2. CASE DeleteMetadataRefused(r)
    BY <1>1, <1>2, <2>2, QuietSteps, QuietStep
  <2>3. CASE DeleteMetadataFault(r)
    BY <1>1, <1>2, <2>3, DeleteMetadataFaultStep
  <2>4. CASE DeleteObject(r) \/ DeleteObjectFault(r) \/ DeleteObjectExpired(r)
    BY <1>1, <1>2, <2>4, ReleaseSteps, ReleaseStep, TryAgainStep
  <2> QED
    BY <1>5, <2>1, <2>2, <2>3, <2>4 DEF DeleteStep
<1>6. ASSUME Crash
      PROVE  StoreInv'
  BY <1>1, <1>6, CrashStep
<1>7. ASSUME UNCHANGED vars
      PROVE  StoreInv'
  <2>1. /\ UNCHANGED <<content, born, alive, contested, faulted>>
        /\ UNCHANGED <<pc, rq, loc, live, snap, added>>
    BY <1>7 DEF vars, callvars, stores, history
  <2>2. /\ objects' = objects
        /\ \A q \in Requests :
             /\ Adding(q)' <=> Adding(q)
             /\ Holding(q)' <=> Holding(q)
             /\ HasItem(q)' <=> HasItem(q)
             /\ Item(q)' = Item(q)
    BY <2>1 DEF Adding, Holding, HasItem, Item, objects
  <2>3. Written' /\ Calm'
    BY <1>1, <2>1, <2>2 DEF StoreInv, Written, Calm
  <2>4. Locals'
    BY <1>1, <2>1, <2>2 DEF StoreInv, Locals, LocalsOf
  <2>5. Ownership'
    BY <1>1, <2>1, <2>2 DEF StoreInv, Ownership, SoleClaim
  <2>6. NoDangling' /\ NoOrphans'
    BY <1>1, <2>1, <2>2 DEF StoreInv, NoDangling, NoOrphans
  <2> QED
    BY <2>3, <2>4, <2>5, <2>6 DEF StoreInv
<1> QED
  BY <1>2, <1>3, <1>4, <1>5, <1>6, <1>7
  DEF Next, ServerStep, IndInv, StoreInv

\* The inductive invariant holds in every reachable state.
THEOREM Inductive == Spec => []IndInv
<1>1. Init => IndInv
  BY IndInit
<1>2. IndInv /\ [Next]_vars => IndInv'
  BY IndNext
<1> QED
  BY <1>1, <1>2, PTL DEF Spec

\* Types: no sequence of requests, faults and crashes leaves the domains, and in
\* particular WithRetry's counter never passes its limit.
THEOREM TypeCorrect == Spec => []TypeOK
<1>1. IndInv => TypeOK
  BY DEF IndInv
<1> QED
  BY <1>1, Inductive, PTL

\* Whatever requests run concurrently, whatever identifiers the clients choose
\* and use again, and whatever fails, a row in the table names an object that
\* holds the bytes of the row's item, unless a write for that very locator took
\* effect and was reported failed.
THEOREM RowsHaveObjects == Spec => []NoDangling
<1>1. IndInv => NoDangling
  BY DEF IndInv
<1> QED
  BY <1>1, Inductive, PTL

\* Until the first failed write or crash, the interleaving of any number of Add
\* and Delete requests leaves no object without a row or a request that owns it.
THEOREM ObjectsHaveRows == Spec => []NoOrphans
<1>1. IndInv => NoOrphans
  BY DEF IndInv
<1> QED
  BY <1>1, Inductive, PTL

\* Although clients choose the identifiers and use them again, at most one row
\* or one request under way has a claim on an object, and what a request works
\* on is there; except where a write took effect and was reported failed.
THEOREM ObjectsAreOwned == Spec => []Ownership
<1>1. IndInv => Ownership
  BY DEF IndInv
<1> QED
  BY <1>1, Inductive, PTL
=============================================================================
