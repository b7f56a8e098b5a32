---------------------------- MODULE KeeperAnswers ---------------------------
(***************************************************************************)
(* Proofs about what Keeper answers its clients, on top of the invariants  *)
(* on the stores that KeeperProofs establishes: an Add answered OK has     *)
(* stored its stream, a Delete answered OK is the only one, Get and Sync   *)
(* deliver what was stored under a row that is still there.                *)
(***************************************************************************)
EXTENDS KeeperProofs

(***************************************************************************)
(* What each request knows, in its local variables and from its answers.   *)
(***************************************************************************)

\* The message a request serves in each of its states.
Serving(r) ==
  /\ pc[r] \in {"recv", "item", "putmeta", "undo"} => rq[r].op = "Add"
  /\ pc[r] \in {"delmeta", "delobj"} => rq[r].op = "Delete"
  /\ pc[r] \in {"getmeta", "getobj"} => rq[r].op = "Get"
  /\ pc[r] = "list" => rq[r].op = "List"
  /\ pc[r] \in {"synclist", "sync"} => rq[r].op = "Sync"
  /\ pc[r] # "idle" => resp[r] = "None"

\* A message delivers what was stored, unless its row has gone since.
Right(m) ==
  /\ m.id \in DataIDs
  /\ born[m.id] # NoRow
  /\ m.type # "UNSPECIFIED" /\ DataTypeName(m.type) = born[m.id].type
  /\ (m.id \in alive /\ born[m.id].loc \notin contested) =>
       m.sealed = born[m.id].sealed

Delivered(r) == \A m \in sent[r] : Right(m)

\* The i-th identifier an Add has collected is that of its i-th item.
Filed(r, i) ==
  /\ added[r][i] \in DataIDs
  /\ born[added[r][i]] # NoRow
  /\ born[added[r][i]].user = rq[r].user
  /\ born[added[r][i]].type = DataTypeName(rq[r].batch[i].type)
  /\ born[added[r][i]].sealed = rq[r].batch[i].sealed
  /\ \A j \in 1 .. (i - 1) : added[r][j] # added[r][i]

\* An Add has filed the items before the one it is at.
Stored(r) ==
  rq[r].op = "Add" =>
    /\ Len(added[r]) <= Len(rq[r].batch)
    /\ \A i \in 1 .. Len(added[r]) : Filed(r, i)
    /\ resp[r] = "OK" => Len(added[r]) = Len(rq[r].batch)

\* A Delete that has had its row has had it for good.
Won(r) == rq[r].op = "Delete" /\ (pc[r] = "delobj" \/ resp[r] = "OK")

Removed(r) ==
  Won(r) => rq[r].id \in DataIDs \ alive /\ born[rq[r].id] # NoRow

Answers(r) == Serving(r) /\ Delivered(r) /\ Stored(r) /\ Removed(r)

\* The converter's name for binary files is not the table's, so the table never
\* takes one and every row has a type the converter can translate back.
RowTypes ==
  \A id \in DataIDs : born[id] # NoRow =>
    born[id].type \in {"DataTypeAuthenticationCredentials", "DataTypeCard"}

AnswerInv ==
  /\ \A r \in Requests : Answers(r)
  /\ RowTypes
  /\ DeletedOnce

-----------------------------------------------------------------------------
(***************************************************************************)
(* A row stays as it was inserted, a row that is gone never comes back,    *)
(* and what was in doubt once stays in doubt.                              *)
(***************************************************************************)
Grows ==
  /\ \A id \in DataIDs : born[id] # NoRow =>
       born'[id] = born[id] /\ (id \in alive' => id \in alive)
  /\ contested \subseteq contested'

\* An insert uses an identifier no row was inserted under.
LEMMA InsertGrows ==
  ASSUME TypeOK, NEW id \in FreshIDs, NEW row, InsertRow(id, row),
         contested \subseteq contested'
  PROVE  Grows
BY DEF TypeOK, FreshIDs, InsertRow, Grows

\* Deletions take away and overwrite nothing.
LEMMA ShrinkGrows ==
  ASSUME UNCHANGED born, alive' \subseteq alive, contested \subseteq contested'
  PROVE  Grows
BY DEF Grows

\* No step of any request, and no crash, rewrites a row or revives one.
LEMMA NextGrows ==
  ASSUME TypeOK, [Next]_vars
  PROVE  Grows
<1>1. CASE UNCHANGED <<born, alive, contested>>
  BY <1>1, ShrinkGrows
<1>2. ASSUME NEW r \in Requests, AddStep(r)
      PROVE  Grows
  <2>1. CASE PutMetadata(r)
    BY <2>1, InsertGrows DEF PutMetadata, history
  <2>2. CASE PutMetadataFault(r)
    <3>1. CASE UNCHANGED <<born, alive, contested>>
      BY <1>1, <3>1
    <3>2. CASE /\ \E id \in FreshIDs : InsertRow(id, NewRow(r))
               /\ contested' = contested \cup {loc[r]}
      BY <3>2, InsertGrows
    <3> QED
      BY <2>2, <3>1, <3>2 DEF PutMetadataFault, InsertUnnoticed
  <2>3. CASE Undo(r) \/ UndoFault(r)
    <3>1. UNCHANGED <<born, alive>> /\ contested \subseteq contested'
      BY <2>3 DEF Undo, UndoFault, RemovalFails, history
    <3> QED
      BY <3>1, ShrinkGrows
  <2>4. CASE \/ AllAdded(r) \/ RejectItem(r) \/ PutObject(r) \/ PutObjectRefused(r)
             \/ PutObjectFault(r) \/ PutMetadataRefused(r) \/ PutMetadataExpired(r)
             \/ UndoExpired(r)
    BY <1>1, <2>4 DEF AllAdded, RejectItem, PutObject, PutObjectRefused, PutObjectFault,
                      PutMetadataRefused, PutMetadataExpired, UndoExpired, stores, history
  <2> QED
    BY <1>2, <2>1, <2>2, <2>3, <2>4 DEF AddStep
<1>3. ASSUME NEW r \in Requests, DeleteStep(r)
      PROVE  Grows
  <2>1. UNCHANGED born /\ alive' \subseteq alive /\ contested \subseteq contested'
    BY <1>3 DEF DeleteStep, DeleteMetadata, DeleteMetadataRefused, DeleteMetadataFault,
                DeleteObject, DeleteObjectFault, DeleteObjectExpired, RemovalFails,
                DeleteRow, stores, history
  <2> QED
    BY <2>1, ShrinkGrows
<1>4. ASSUME NEW r \in Requests, ClientStep(r)
      PROVE  UNCHANGED <<stores, history>>
  BY <1>4 DEF ClientStep, StartAdd, StartDelete, StartGet, StartList, StartSync, Begin,
              Refuse, RecvEOF, RecvBroken
<1>5. ASSUME NEW r \in Requests, ReadStep(r)
      PROVE  UNCHANGED <<stores, history>>
  BY <1>5 DEF ReadStep, GetMetadata, GetMetadataRefused, GetObject, List, SyncList,
              SyncNext, SyncFull, SyncDone, ReadFault
<1>6. CASE Crash
  BY <1>1, <1>6 DEF Crash, stores
<1>7. CASE UNCHANGED vars
  BY <1>1, <1>7 DEF vars, stores, history
<1>8. ASSUME UNCHANGED <<stores, history>> PROVE Grows
  BY <1>1, <1>8 DEF stores, history
<1> QED
  BY <1>2, <1>3, <1>4, <1>5, <1>6, <1>7, <1>8 DEF Next, ServerStep

(***************************************************************************)
(* What was true of an answer stays true.                                  *)
(***************************************************************************)

\* A message stays right: its row stays as it is, or goes.
LEMMA RightStays ==
  ASSUME Grows, NEW m, Right(m)
  PROVE  Right(m)'
BY DEF Right, Grows

\* What is filed under an identifier stays filed there.
LEMMA FiledStays ==
  ASSUME Grows, NEW r \in Requests, NEW i \in Nat, Filed(r, i),
         rq'[r] = rq[r], \A j \in 1 .. i : added'[r][j] = added[r][j], i > 0
  PROVE  Filed(r, i)'
<1>1. added'[r][i] = added[r][i] /\ \A j \in 1 .. (i - 1) : added'[r][j] = added[r][j]
  OBVIOUS
<1> QED
  BY <1>1 DEF Filed, Grows

\* A slot that shows its client what it showed before.
Alone(q) ==
  /\ pc'[q] = pc[q] /\ rq'[q] = rq[q] /\ added'[q] = added[q]
  /\ sent'[q] = sent[q] /\ resp'[q] = resp[q]

Apart(r) == \A q \in Requests \ {r} : Alone(q)

\* Messages that have been sent stay right.
LEMMA DeliveredStays ==
  ASSUME Grows, NEW q \in Requests, Delivered(q), sent'[q] \subseteq sent[q]
  PROVE  Delivered(q)'
BY RightStays DEF Delivered

\* What an Add has filed stays filed.
LEMMA FiledAll ==
  ASSUME IndInv, Grows, NEW q \in Requests, rq'[q] = rq[q], added'[q] = added[q],
         \A i \in 1 .. Len(added[q]) : Filed(q, i)
  PROVE  \A i \in 1 .. Len(added'[q]) : Filed(q, i)'
<1>1. Len(added[q]) \in Nat
  BY DEF IndInv, TypeOK
<1> SUFFICES ASSUME NEW i \in 1 .. Len(added[q]) PROVE Filed(q, i)'
  OBVIOUS
<1>2. i \in Nat /\ i > 0 /\ Filed(q, i)
  BY <1>1
<1>3. \A j \in 1 .. i : added'[q][j] = added[q][j]
  OBVIOUS
<1> QED
  BY <1>2, <1>3, FiledStays

\* A request that a step leaves alone keeps what it knows.
LEMMA AloneAnswers ==
  ASSUME IndInv, Grows, NEW q \in Requests, Answers(q), Alone(q)
  PROVE  Answers(q)'
<1>1. Serving(q)'
  BY DEF Answers, Serving, Alone
<1>2. Delivered(q)'
  BY DeliveredStays DEF Answers, Alone
<1>3. Stored(q)'
  <2> SUFFICES ASSUME rq[q].op = "Add" PROVE Stored(q)'
    BY DEF Stored, Alone
  <2>1. \A i \in 1 .. Len(added'[q]) : Filed(q, i)'
    BY FiledAll DEF Answers, Stored, Alone
  <2> QED
    BY <2>1 DEF Answers, Stored, Alone
<1>4. Removed(q)'
  BY DEF Answers, Removed, Won, Alone, Grows
<1> QED
  BY <1>1, <1>2, <1>3, <1>4 DEF Answers

\* What a step has to show, put together.  A Delete that wins takes a row that was
\* there, which every earlier winner's was not.
LEMMA AnswerStep ==
  ASSUME IndInv, AnswerInv, Grows, NEW r \in Requests, Apart(r), Answers(r)', RowTypes',
         Won(r)' => rq'[r] = rq[r] /\ (Won(r) \/ rq[r].id \in alive)
  PROVE  AnswerInv'
<1>1. \A q \in Requests : Answers(q)'
  BY AloneAnswers DEF AnswerInv, Apart
<1>2. \A q \in Requests : Won(q) => rq[q].id \notin alive
  BY DEF AnswerInv, Answers, Removed
<1>3. \A p, q \in Requests : p # q /\ Won(p) /\ Won(q) => rq[p].id # rq[q].id
  BY DEF AnswerInv, DeletedOnce, Won
<1>4. \A q \in Requests \ {r} : Won(q)' => Won(q) /\ rq'[q] = rq[q]
  BY DEF Apart, Alone, Won
<1>5. \A p, q \in Requests : p # q /\ Won(p)' /\ Won(q)' => rq'[p].id # rq'[q].id
  BY <1>2, <1>3, <1>4
<1>6. DeletedOnce'
  BY <1>5 DEF DeletedOnce, Won
<1> QED
  BY <1>1, <1>6 DEF AnswerInv

\* A step that shows no client anything: a stutter, or an attempt repeated.
LEMMA SilentAnswers ==
  ASSUME IndInv, AnswerInv, Grows, RowTypes', \A q \in Requests : Alone(q)
  PROVE  AnswerInv'
<1>1. \A q \in Requests : Answers(q)'
  BY AloneAnswers DEF AnswerInv
<1>2. DeletedOnce'
  BY DEF AnswerInv, DeletedOnce, Alone
<1> QED
  BY <1>1, <1>2 DEF AnswerInv

-----------------------------------------------------------------------------
(***************************************************************************)
(* The steps.                                                              *)
(***************************************************************************)

\* A handler that answers OK: its slot, and the slots it leaves alone.
LEMMA Succeeds ==
  ASSUME IndInv, NEW r \in Requests, Succeed(r),
         \A q \in Requests \ {r} : sent'[q] = sent[q]
  PROVE  /\ Apart(r)
         /\ pc'[r] = "idle" /\ rq'[r] = rq[r] /\ added'[r] = added[r]
         /\ resp'[r] = "OK"
BY DEF IndInv, TypeOK, Succeed, Return, Apart, Alone

\* The same for a handler that calls a repository.
LEMMA Calls ==
  ASSUME IndInv, NEW r \in Requests, NEW s, NEW l, Call(r, s, l),
         UNCHANGED <<rq, sent, resp>>,
         \A q \in Requests \ {r} : added'[q] = added[q]
  PROVE  /\ Apart(r)
         /\ pc'[r] = s /\ rq'[r] = rq[r]
         /\ sent'[r] = sent[r] /\ resp'[r] = resp[r]
BY DEF IndInv, TypeOK, Call, Apart, Alone

\* And for one whose attempt is made again.
LEMMA Retries ==
  ASSUME NEW r \in Requests, Retry(r), UNCHANGED sent
  PROVE  \A q \in Requests : Alone(q)
BY DEF Retry, Alone

\* The rows that are there keep their types when no row is inserted.
LEMMA TypesStay ==
  ASSUME AnswerInv, UNCHANGED born
  PROVE  RowTypes'
BY DEF AnswerInv, RowTypes

\* An answer other than OK claims nothing.
LEMMA FailAnswers ==
  ASSUME IndInv, AnswerInv, Grows, NEW r \in Requests, NEW code, code # "OK",
         Fail(r, code), UNCHANGED born, sent'[r] \subseteq sent[r],
         \A q \in Requests \ {r} : sent'[q] = sent[q]
  PROVE  AnswerInv'
<1>1. /\ Apart(r)
      /\ pc'[r] = "idle" /\ rq'[r] = NoRequest /\ resp'[r] = code
  BY DEF IndInv, TypeOK, Fail, Return, Apart, Alone
<1>2. Delivered(r)'
  BY DeliveredStays DEF AnswerInv, Answers
<1>3. NoRequest.op = "None"
  BY DEF NoRequest
<1>4. Serving(r)' /\ Stored(r)' /\ Removed(r)' /\ ~ Won(r)'
  BY <1>1, <1>3 DEF Serving, Stored, Removed, Won
<1>5. Answers(r)'
  BY <1>2, <1>4 DEF Answers
<1> QED
  BY <1>1, <1>4, <1>5, TypesStay, AnswerStep

\* The calls that end a request without an OK.
LEMMA FailSteps ==
  ASSUME IndInv, AnswerInv, Grows, NEW r \in Requests,
         \/ RecvBroken(r) \/ RejectItem(r) \/ PutObjectFault(r) \/ PutObjectRefused(r)
         \/ Undo(r) \/ UndoExpired(r)
         \/ DeleteMetadataRefused(r) \/ DeleteObjectExpired(r)
         \/ GetMetadataRefused(r) \/ SyncFull(r) \/ ReadFault(r)
  PROVE  AnswerInv'
<1>1. /\ \E code \in {"Canceled", "InvalidArgument", "Internal"} : Fail(r, code)
      /\ UNCHANGED <<born, sent>>
  BY DEF RecvBroken, RejectItem, PutObjectFault, PutObjectRefused, Undo, UndoExpired,
         DeleteMetadataRefused, DeleteObjectExpired, GetMetadataRefused, SyncFull,
         ReadFault, stores
<1> QED
  BY <1>1, FailAnswers

\* An attempt to remove an object fails, and is made again or is the last.
LEMMA RemovalAnswers ==
  ASSUME IndInv, AnswerInv, Grows, NEW r \in Requests, UndoFault(r) \/ DeleteObjectFault(r)
  PROVE  AnswerInv'
<1>1. (Retry(r) \/ Fail(r, "Internal")) /\ UNCHANGED <<born, sent>>
  BY DEF UndoFault, DeleteObjectFault, RemovalFails
<1>2. CASE Fail(r, "Internal")
  BY <1>1, <1>2, FailAnswers
<1>3. CASE Retry(r)
  BY <1>1, <1>3, Retries, TypesStay, SilentAnswers
<1> QED
  BY <1>1, <1>2, <1>3

\* A slot that has nothing to show yet: just begun, or lost in a crash.
LEMMA BlankAnswers ==
  ASSUME NEW r \in Requests, Serving(r)', rq'[r].batch \in Seq(Items),
         pc'[r] # "delobj", added'[r] = << >>, sent'[r] = {}, resp'[r] # "OK"
  PROVE  Answers(r)' /\ ~ Won(r)'
<1>1. ~ Won(r)'
  BY DEF Won
<1>2. Len(added'[r]) = 0 /\ Len(rq'[r].batch) \in Nat
  OBVIOUS
<1>3. Stored(r)'
  BY <1>2 DEF Stored
<1>4. Delivered(r)' /\ Removed(r)'
  BY <1>1 DEF Delivered, Removed
<1> QED
  BY <1>1, <1>3, <1>4 DEF Answers

\* A request begins in the state its handler starts with.
LEMMA BeginAnswers ==
  ASSUME IndInv, AnswerInv, Grows, NEW r \in Requests, NEW m, NEW s, Begin(r, m, s),
         m.batch \in Seq(Items),
         \/ m.op = "Add" /\ s = "recv"
         \/ m.op = "Delete" /\ s = "delmeta"
         \/ m.op = "Get" /\ s = "getmeta"
         \/ m.op = "List" /\ s = "list"
         \/ m.op = "Sync" /\ s = "synclist"
  PROVE  AnswerInv'
<1>1. /\ Apart(r)
      /\ pc'[r] = s /\ rq'[r] = m /\ added'[r] = << >> /\ sent'[r] = {}
      /\ resp'[r] = "None"
      /\ UNCHANGED born
  BY DEF IndInv, TypeOK, Begin, Apart, Alone, stores, callvars
<1>2. Serving(r)'
  BY <1>1 DEF Serving
<1>3. Answers(r)' /\ ~ Won(r)'
  BY <1>1, <1>2, BlankAnswers
<1> QED
  BY <1>1, <1>3, TypesStay, AnswerStep

\* All of them but Add send one message, without a batch.
LEMMA BeginUnary ==
  ASSUME IndInv, AnswerInv, Grows, NEW r \in Requests, NEW op, NEW u, NEW id, NEW mode,
         NEW s,
         Begin(r, [op |-> op, user |-> u, id |-> id, batch |-> << >>, mode |-> mode], s),
         \/ op = "Delete" /\ s = "delmeta"
         \/ op = "Get" /\ s = "getmeta"
         \/ op = "List" /\ s = "list"
         \/ op = "Sync" /\ s = "synclist"
  PROVE  AnswerInv'
<1> DEFINE m == [op |-> op, user |-> u, id |-> id, batch |-> << >>, mode |-> mode]
<1>1. m.op = op /\ m.batch = << >> /\ Begin(r, m, s)
  OBVIOUS
<1>2. << >> \in Seq(Items)
  OBVIOUS
<1> HIDE DEF m
<1> QED
  BY <1>1, <1>2, BeginAnswers

\* The five handlers begin with nothing to show.
LEMMA StartSteps ==
  ASSUME IndInv, AnswerInv, Grows, NEW r \in Requests,
         StartAdd(r) \/ StartDelete(r) \/ StartGet(r) \/ StartList(r) \/ StartSync(r)
  PROVE  AnswerInv'
<1>1. CASE StartAdd(r)
  <2>1. PICK u \in Users, b \in Batches :
          Begin(r, [op |-> "Add", user |-> u, id |-> NoID, batch |-> b,
                    mode |-> "NONE"], "recv")
    BY <1>1 DEF StartAdd
  <2> QED
    BY <2>1, BeginAnswers, BatchAssumption
<1>2. CASE StartDelete(r)
  <2>1. PICK u \in Users, id \in DataIDs \cup {NoID} :
          Begin(r, [op |-> "Delete", user |-> u, id |-> id, batch |-> << >>,
                    mode |-> "NONE"], "delmeta")
    BY <1>2 DEF StartDelete
  <2> QED
    BY <2>1, BeginUnary
<1>3. CASE StartGet(r)
  <2>1. PICK u \in Users, id \in DataIDs \cup {NoID} :
          Begin(r, [op |-> "Get", user |-> u, id |-> id, batch |-> << >>,
                    mode |-> "NONE"], "getmeta")
    BY <1>3 DEF StartGet
  <2> QED
    BY <2>1, BeginUnary
<1>4. CASE StartList(r)
  <2>1. PICK u \in Users :
          Begin(r, [op |-> "List", user |-> u, id |-> NoID, batch |-> << >>,
                    mode |-> "NONE"], "list")
    BY <1>4 DEF StartList
  <2> QED
    BY <2>1, BeginUnary
<1>5. CASE StartSync(r)
  <2>1. PICK u \in Users, m \in {"SHORT", "FULL"} :
          Begin(r, [op |-> "Sync", user |-> u, id |-> NoID, batch |-> << >>,
                    mode |-> m], "synclist")
    BY <1>5 DEF StartSync
  <2> QED
    BY <2>1, BeginUnary
<1> QED
  BY <1>1, <1>2, <1>3, <1>4, <1>5

\* An early return answers without having done anything.
LEMMA RefuseAnswers ==
  ASSUME IndInv, AnswerInv, Grows, NEW r \in Requests, Refuse(r)
  PROVE  AnswerInv'
<1>1. PICK code \in {"Unauthenticated", "InvalidArgument", "Internal"} : Fail(r, code)
  BY DEF Refuse
<1>2. UNCHANGED born /\ sent' = [sent EXCEPT ![r] = {}]
  BY DEF Refuse, stores
<1>3. sent'[r] = {} /\ \A q \in Requests \ {r} : sent'[q] = sent[q]
  BY <1>2 DEF IndInv, TypeOK
<1> QED
  BY <1>1, <1>2, <1>3, FailAnswers

\* After a crash the clients have no answer at all.
LEMMA CrashAnswers ==
  ASSUME AnswerInv, Crash
  PROVE  AnswerInv'
<1>1. \A r \in Requests :
        /\ pc'[r] = "idle" /\ rq'[r] = NoRequest /\ added'[r] = << >>
        /\ sent'[r] = {} /\ resp'[r] = "None"
  BY DEF Crash
<1>2. NoRequest.batch \in Seq(Items)
  BY DEF NoRequest
<1>3. \A r \in Requests : Serving(r)'
  BY <1>1 DEF Serving
<1>4. \A r \in Requests : Answers(r)' /\ ~ Won(r)'
  BY <1>1, <1>2, <1>3, BlankAnswers
<1>5. RowTypes'
  BY TypesStay DEF Crash, stores
<1>6. DeletedOnce'
  BY <1>4 DEF DeletedOnce, Won
<1> QED
  BY <1>4, <1>5, <1>6 DEF AnswerInv

-----------------------------------------------------------------------------
(***************************************************************************)
(* Add.                                                                    *)
(***************************************************************************)

\* An Add that goes on keeps what it has filed.
LEMMA AddGoesOn ==
  ASSUME IndInv, AnswerInv, Grows, NEW r \in Requests, Apart(r), RowTypes',
         pc[r] \in {"recv", "item", "putmeta", "undo"},
         pc'[r] \in {"recv", "item", "putmeta", "undo"},
         rq'[r] = rq[r], added'[r] = added[r], sent'[r] = sent[r], resp'[r] = resp[r]
  PROVE  AnswerInv'
<1>1. Serving(r) /\ Delivered(r) /\ Stored(r)
  BY DEF AnswerInv, Answers
<1>2. rq[r].op = "Add" /\ resp[r] = "None"
  BY <1>1 DEF Serving
<1>3. Delivered(r)'
  BY <1>1, DeliveredStays
<1>4. Len(added[r]) <= Len(rq[r].batch) /\ \A i \in 1 .. Len(added[r]) : Filed(r, i)
  BY <1>1, <1>2 DEF Stored
<1>5. \A i \in 1 .. Len(added'[r]) : Filed(r, i)'
  BY <1>4, FiledAll
<1>6. Stored(r)'
  BY <1>2, <1>4, <1>5 DEF Stored
<1>7. Serving(r)' /\ Removed(r)' /\ ~ Won(r)'
  BY <1>2 DEF Serving, Removed, Won
<1>8. Answers(r)'
  BY <1>3, <1>6, <1>7 DEF Answers
<1> QED
  BY <1>7, <1>8, AnswerStep

\* The end of the stream starts the loop over its items.
LEMMA RecvEOFAnswers ==
  ASSUME IndInv, AnswerInv, Grows, NEW r \in Requests, RecvEOF(r)
  PROVE  AnswerInv'
<1>1. /\ Apart(r) /\ pc[r] = "recv" /\ pc'[r] = "item"
      /\ UNCHANGED <<born, rq, added, sent, resp>>
  BY DEF IndInv, TypeOK, RecvEOF, Apart, Alone, stores
<1>2. RowTypes'
  BY <1>1, TypesStay
<1> QED
  BY <1>1, <1>2, AddGoesOn

\* The loop over the items ends after the last one.
LEMMA AllAddedAnswers ==
  ASSUME IndInv, AnswerInv, Grows, NEW r \in Requests, AllAdded(r)
  PROVE  AnswerInv'
<1>1. CASE Fail(r, "SendError")
  BY <1>1, FailAnswers DEF AllAdded, stores
<1>2. CASE Succeed(r)
  <2>1. /\ Apart(r)
        /\ pc'[r] = "idle" /\ rq'[r] = rq[r] /\ added'[r] = added[r] /\ resp'[r] = "OK"
    BY <1>2, Succeeds DEF AllAdded
  <2>2. pc[r] = "item" /\ ~ HasItem(r) /\ UNCHANGED <<born, sent>>
    BY DEF AllAdded, stores
  <2>3. Serving(r) /\ Delivered(r) /\ Stored(r)
    BY DEF AnswerInv, Answers
  <2>4. rq[r].op = "Add"
    BY <2>2, <2>3 DEF Serving
  <2>5. Len(added[r]) <= Len(rq[r].batch) /\ \A i \in 1 .. Len(added[r]) : Filed(r, i)
    BY <2>3, <2>4 DEF Stored
  <2>6. Len(added[r]) = Len(rq[r].batch)
    <3>1. added[r] \in Seq(DataIDs) /\ rq[r].batch \in Seq(Items)
      BY DEF IndInv, TypeOK, RequestMessages
    <3> QED
      BY <2>2, <2>5, <3>1 DEF HasItem
  <2>7. Stored(r)'
    <3>1. \A i \in 1 .. Len(added'[r]) : Filed(r, i)'
      BY <2>1, <2>5, FiledAll
    <3> QED
      BY <2>1, <2>5, <2>6, <3>1 DEF Stored
  <2>8. Delivered(r)'
    BY <2>2, <2>3, DeliveredStays
  <2>9. Serving(r)' /\ Removed(r)' /\ ~ Won(r)'
    BY <2>1, <2>4 DEF Serving, Removed, Won
  <2>10. Answers(r)'
    BY <2>7, <2>8, <2>9 DEF Answers
  <2> QED
    BY <2>1, <2>2, <2>9, <2>10, TypesStay, AnswerStep
<1> QED
  BY <1>1, <1>2 DEF AllAdded

\* objectRepo.Put files nothing yet.
LEMMA PutObjectAnswers ==
  ASSUME IndInv, AnswerInv, Grows, NEW r \in Requests, PutObject(r)
  PROVE  AnswerInv'
<1>1. /\ Call(r, "putmeta", Item(r).id) /\ pc[r] = "item"
      /\ UNCHANGED <<born, rq, added, sent, resp>>
  BY DEF PutObject, Acceptable
<1>2. /\ Apart(r)
      /\ pc'[r] = "putmeta" /\ rq'[r] = rq[r]
      /\ sent'[r] = sent[r] /\ resp'[r] = resp[r]
  BY <1>1, Calls
<1>3. RowTypes'
  BY <1>1, TypesStay
<1> QED
  BY <1>1, <1>2, <1>3, AddGoesOn

\* A row that can be inserted has a type the converter translates back.
LEMMA InsertTypes ==
  ASSUME IndInv, AnswerInv, NEW r \in Requests, Adding(r), Insertable(r),
         NEW id \in FreshIDs, InsertRow(id, NewRow(r))
  PROVE  RowTypes'
<1>1. Item(r).type \in {"AUTH", "CARD", "BINARY"}
  <2>1. HasItem(r) /\ Item(r).type # "MALFORMED"
    BY DEF IndInv, Locals, LocalsOf
  <2>2. Item(r) \in Items
    BY <2>1, ItemType DEF IndInv
  <2> QED
    BY <2>1, <2>2 DEF Items
<1>2. DataTypeName(Item(r).type) \in {"DataTypeAuthenticationCredentials", "DataTypeCard"}
  BY <1>1 DEF Insertable, DataTypeName, DataTypesTable
<1>3. NewRow(r).type = DataTypeName(Item(r).type)
  BY DEF NewRow
<1>4. born' = [born EXCEPT ![id] = NewRow(r)] /\ born \in [DataIDs -> Rows \cup {NoRow}]
  BY DEF InsertRow, IndInv, TypeOK
<1> QED
  BY <1>2, <1>3, <1>4 DEF AnswerInv, RowTypes

\* AddSealed goes from one attempt to the next, or on to its compensation.
LEMMA AttemptAnswers ==
  ASSUME IndInv, AnswerInv, Grows, NEW r \in Requests,
         PutMetadataRefused(r) \/ PutMetadataFault(r) \/ PutMetadataExpired(r)
  PROVE  AnswerInv'
<1>1. /\ pc[r] = "putmeta"
      /\ UNCHANGED <<rq, added, sent, resp>>
  BY DEF PutMetadataRefused, PutMetadataFault, PutMetadataExpired
<1>2. UNCHANGED pc \/ pc' = [pc EXCEPT ![r] = "undo"]
  BY DEF PutMetadataRefused, PutMetadataFault, PutMetadataExpired, Compensate, Retry
<1>3. Apart(r) /\ pc'[r] \in {"putmeta", "undo"}
  BY <1>1, <1>2 DEF Apart, Alone, IndInv, TypeOK
<1>4. Adding(r)
  BY <1>1 DEF Adding
<1>5. RowTypes'
  <2>1. CASE UNCHANGED born
    BY <2>1, TypesStay
  <2>2. CASE Insertable(r) /\ \E id \in FreshIDs : InsertRow(id, NewRow(r))
    BY <1>4, <2>2, InsertTypes
  <2> QED
    BY <2>1, <2>2 DEF PutMetadataRefused, PutMetadataFault, PutMetadataExpired,
                      InsertUnnoticed, stores
<1> QED
  BY <1>1, <1>3, <1>5, AddGoesOn

\* The identifier of a new row is filed behind the earlier ones.
LEMMA PutMetadataAnswers ==
  ASSUME IndInv, AnswerInv, Grows, NEW r \in Requests, PutMetadata(r)
  PROVE  AnswerInv'
<1>1. PICK id \in FreshIDs :
        InsertRow(id, NewRow(r)) /\ added' = [added EXCEPT ![r] = Append(@, id)]
  BY DEF PutMetadata
<1>2. /\ pc[r] = "putmeta" /\ Insertable(r) /\ Call(r, "item", NoLocator)
      /\ UNCHANGED <<rq, sent, resp>>
  BY DEF PutMetadata
<1>3. Adding(r)
  BY <1>2 DEF Adding
<1>4. added[r] \in Seq(DataIDs) /\ id \in DataIDs /\ born[id] = NoRow
  BY DEF IndInv, TypeOK, FreshIDs
<1>5. added'[r] = Append(added[r], id) /\ \A q \in Requests \ {r} : added'[q] = added[q]
  BY <1>1 DEF IndInv, TypeOK
<1>6. /\ Apart(r)
      /\ pc'[r] = "item" /\ rq'[r] = rq[r]
      /\ sent'[r] = sent[r] /\ resp'[r] = resp[r]
  BY <1>2, <1>5, Calls
<1>7. HasItem(r)
  BY <1>3 DEF IndInv, Locals, LocalsOf
<1>8. Serving(r) /\ Delivered(r) /\ Stored(r)
  BY DEF AnswerInv, Answers
<1>9. rq[r].op = "Add" /\ resp[r] = "None"
  BY <1>2, <1>8 DEF Serving
<1>10. \A i \in 1 .. Len(added[r]) : Filed(r, i)
  BY <1>8, <1>9 DEF Stored
<1>0. PICK n \in Nat : n = Len(added[r]) + 1
  BY <1>4
<1>11. n > 0 /\ Len(added'[r]) = n /\ added'[r][n] = id
  BY <1>0, <1>4, <1>5
<1>12. \A j \in 1 .. (n - 1) : added'[r][j] = added[r][j]
  BY <1>0, <1>4, <1>5
<1>13. n <= Len(rq[r].batch) /\ Item(r) = rq[r].batch[n]
  <2>1. rq[r].batch \in Seq(Items)
    BY DEF IndInv, TypeOK, RequestMessages
  <2> QED
    BY <1>0, <1>4, <1>7, <2>1 DEF HasItem, Item
<1>14. n - 1 = Len(added[r])
  BY <1>0, <1>4
<1>15. born'[id] = NewRow(r) /\ NewRow(r) # NoRow
  <2>1. born'[id] = NewRow(r)
    BY <1>1, <1>4 DEF InsertRow, IndInv, TypeOK
  <2>2. NewRow(r) \in Rows
    BY <1>2, <1>3, NewRowType DEF IndInv
  <2> QED
    BY <2>1, <2>2, SentinelAssumption
<1>16. Filed(r, n)'
  <2>1. /\ NewRow(r).user = rq[r].user
        /\ NewRow(r).type = DataTypeName(rq[r].batch[n].type)
        /\ NewRow(r).sealed = rq[r].batch[n].sealed
    BY <1>13 DEF NewRow
  <2>2. \A j \in 1 .. (n - 1) : added[r][j] # id
    <3>1. \A j \in 1 .. (n - 1) : born[added[r][j]] # NoRow
      BY <1>10, <1>14 DEF Filed
    <3> QED
      BY <1>4, <3>1
  <2>3. added'[r][n] \in DataIDs /\ born'[added'[r][n]] = NewRow(r)
    BY <1>4, <1>11, <1>15
  <2>4. \A j \in 1 .. (n - 1) : added'[r][j] # added'[r][n]
    BY <1>11, <1>12, <2>2
  <2>5. rq'[r] = rq[r]
    BY <1>6
  <2> QED
    BY <1>15, <2>1, <2>3, <2>4, <2>5 DEF Filed
<1>17. \A i \in 1 .. (n - 1) : Filed(r, i)'
  <2> SUFFICES ASSUME NEW i \in 1 .. (n - 1) PROVE Filed(r, i)'
    OBVIOUS
  <2>1. i \in Nat /\ i > 0 /\ Filed(r, i)
    BY <1>10, <1>11, <1>14
  <2>2. \A j \in 1 .. i : added'[r][j] = added[r][j]
    BY <1>11, <1>12, <2>1
  <2> QED
    BY <1>6, <2>1, <2>2, FiledStays
<1>18. \A i \in 1 .. n : Filed(r, i)'
  <2>1. \A i \in 1 .. n : i = n \/ i \in 1 .. (n - 1)
    BY <1>11
  <2> QED
    BY <1>16, <1>17, <2>1
<1>19. Stored(r)'
  <2>1. resp'[r] # "OK"
    BY <1>6, <1>9
  <2> QED
    BY <1>6, <1>11, <1>13, <1>18, <2>1 DEF Stored
<1>20. Delivered(r)'
  BY <1>6, <1>8, DeliveredStays
<1>21. Serving(r)' /\ Removed(r)' /\ ~ Won(r)'
  BY <1>6, <1>9 DEF Serving, Removed, Won
<1>22. Answers(r)'
  BY <1>19, <1>20, <1>21 DEF Answers
<1>23. RowTypes'
  BY <1>1, <1>2, <1>3, InsertTypes
<1> QED
  BY <1>6, <1>21, <1>22, <1>23, AnswerStep

-----------------------------------------------------------------------------
(***************************************************************************)
(* Delete.                                                                 *)
(***************************************************************************)

\* A Delete between two calls, or answered, that has a right to what it claims.
LEMMA DeleteGoesOn ==
  ASSUME IndInv, AnswerInv, Grows, NEW r \in Requests, Apart(r), UNCHANGED born,
         pc[r] \in {"delmeta", "delobj"}, pc'[r] \in {"delmeta", "delobj", "idle"},
         rq'[r] = rq[r], sent'[r] = sent[r],
         pc'[r] # "idle" => resp'[r] = "None",
         Removed(r)', Won(r)' => Won(r) \/ rq[r].id \in alive
  PROVE  AnswerInv'
<1>1. Serving(r) /\ Delivered(r)
  BY DEF AnswerInv, Answers
<1>2. rq[r].op = "Delete"
  BY <1>1 DEF Serving
<1>3. Delivered(r)'
  BY <1>1, DeliveredStays
<1>4. Serving(r)' /\ Stored(r)'
  BY <1>2 DEF Serving, Stored
<1>5. Answers(r)'
  BY <1>3, <1>4 DEF Answers
<1> QED
  BY <1>5, TypesStay, AnswerStep

\* DELETE ... RETURNING finds the row.
LEMMA DeleteMetadataAnswers ==
  ASSUME IndInv, AnswerInv, Grows, NEW r \in Requests, DeleteMetadata(r)
  PROVE  AnswerInv'
<1>1. /\ pc[r] = "delmeta" /\ rq[r].id \in alive
      /\ alive' = alive \ {rq[r].id}
      /\ UNCHANGED <<born, rq, added, sent, resp>>
  BY DEF DeleteMetadata, DeleteRow
<1>2. Call(r, "delobj", born[rq[r].id].loc)
  BY DEF DeleteMetadata
<1>3. /\ Apart(r) /\ pc'[r] = "delobj" /\ rq'[r] = rq[r]
      /\ sent'[r] = sent[r] /\ resp'[r] = resp[r]
  BY <1>1, <1>2, Calls
<1>4. resp[r] = "None"
  BY <1>1 DEF AnswerInv, Answers, Serving
<1>5. rq[r].id \in DataIDs /\ born[rq[r].id] # NoRow
  BY <1>1 DEF IndInv, TypeOK, Written
<1>6. Removed(r)'
  BY <1>1, <1>3, <1>5 DEF Removed
<1> QED
  BY <1>1, <1>3, <1>4, <1>6, DeleteGoesOn

\* An attempt that fails wins nothing, even when it deletes the row.
LEMMA DeleteMetadataFaultAnswers ==
  ASSUME IndInv, AnswerInv, Grows, NEW r \in Requests, DeleteMetadataFault(r)
  PROVE  AnswerInv'
<1>1. (Retry(r) \/ Fail(r, "Internal")) /\ UNCHANGED <<born, sent>>
  BY DEF DeleteMetadataFault
<1>2. CASE Fail(r, "Internal")
  BY <1>1, <1>2, FailAnswers
<1>3. CASE Retry(r)
  BY <1>1, <1>3, Retries, TypesStay, SilentAnswers
<1> QED
  BY <1>1, <1>2, <1>3

\* The object goes after the row, and the answer is OK.
LEMMA DeleteObjectAnswers ==
  ASSUME IndInv, AnswerInv, Grows, NEW r \in Requests, DeleteObject(r)
  PROVE  AnswerInv'
<1>1. /\ pc[r] = "delobj" /\ Succeed(r)
      /\ UNCHANGED <<born, alive, sent>>
  BY DEF DeleteObject
<1>2. /\ Apart(r)
      /\ pc'[r] = "idle" /\ rq'[r] = rq[r] /\ resp'[r] = "OK"
  BY <1>1, Succeeds
<1>3. rq[r].id \in DataIDs \ alive /\ born[rq[r].id] # NoRow
  BY <1>1 DEF IndInv, Locals, LocalsOf
<1>4. Removed(r)'
  BY <1>1, <1>2, <1>3 DEF Removed
<1>5. Won(r)
  <2>1. rq[r].op = "Delete"
    BY <1>1 DEF AnswerInv, Answers, Serving
  <2> QED
    BY <1>1, <2>1 DEF Won
<1> QED
  BY <1>1, <1>2, <1>4, <1>5, DeleteGoesOn

-----------------------------------------------------------------------------
(***************************************************************************)
(* Get, List and Sync.                                                     *)
(***************************************************************************)

\* What a read of the row of id and then of its object delivers.
LEMMA MessageRight ==
  ASSUME IndInv, AnswerInv, NEW id \in DataIDs, born[id] # NoRow
  PROVE  Right(Message(id, born[id].loc))
<1> DEFINE m == Message(id, born[id].loc)
<1>1. /\ m.id = id /\ m.type = ToProtoDataType(born[id].type)
      /\ m.sealed = content[born[id].loc]
  BY DEF Message, ReadObject
<1>2. born[id].type \in {"DataTypeAuthenticationCredentials", "DataTypeCard"}
  BY DEF AnswerInv, RowTypes
<1>3. m.type # "UNSPECIFIED" /\ DataTypeName(m.type) = born[id].type
  BY <1>1, <1>2 DEF ToProtoDataType, DataTypeName
<1>4. (id \in alive /\ born[id].loc \notin contested) => m.sealed = born[id].sealed
  BY <1>1 DEF IndInv, NoDangling
<1> HIDE DEF m
<1>5. Right(m)
  BY <1>1, <1>3, <1>4 DEF Right
<1> QED
  BY <1>5 DEF m

\* A read that goes on, or is answered, with what it has sent.
LEMMA ReadGoesOn ==
  ASSUME IndInv, AnswerInv, Grows, NEW r \in Requests, Apart(r), UNCHANGED born,
         pc[r] \in {"getmeta", "getobj", "list", "synclist", "sync"},
         rq'[r] = rq[r], Serving(r)', Delivered(r)'
  PROVE  AnswerInv'
<1>1. rq[r].op \in {"Get", "List", "Sync"}
  BY DEF AnswerInv, Answers, Serving
<1>2. Stored(r)' /\ Removed(r)' /\ ~ Won(r)'
  BY <1>1 DEF Stored, Removed, Won
<1>3. Answers(r)'
  BY <1>2 DEF Answers
<1> QED
  BY <1>2, <1>3, TypesStay, AnswerStep

\* Get takes the locator from the row and sends nothing yet, and so does Sync with
\* its list.
LEMMA LookupAnswers ==
  ASSUME IndInv, AnswerInv, Grows, NEW r \in Requests, GetMetadata(r) \/ SyncList(r)
  PROVE  AnswerInv'
<1>1. /\ \/ pc[r] = "getmeta" /\ Call(r, "getobj", born[rq[r].id].loc)
         \/ pc[r] = "synclist" /\ Call(r, "sync", NoLocator)
      /\ UNCHANGED <<born, rq, added, sent, resp>>
  BY DEF GetMetadata, SyncList, stores
<1>2. /\ Apart(r)
      /\ \/ pc[r] = "getmeta" /\ pc'[r] = "getobj"
         \/ pc[r] = "synclist" /\ pc'[r] = "sync"
      /\ rq'[r] = rq[r] /\ sent'[r] = sent[r] /\ resp'[r] = resp[r]
  BY <1>1, Calls
<1>3. Serving(r)'
  BY <1>2 DEF AnswerInv, Answers, Serving
<1>4. Delivered(r)'
  BY <1>2, DeliveredStays DEF AnswerInv, Answers
<1> QED
  BY <1>1, <1>2, <1>3, <1>4, ReadGoesOn

\* Get sends the object at the locator of the row it has read.
LEMMA GetObjectAnswers ==
  ASSUME IndInv, AnswerInv, Grows, NEW r \in Requests, GetObject(r)
  PROVE  AnswerInv'
<1>1. /\ pc[r] = "getobj" /\ Succeed(r)
      /\ sent' = [sent EXCEPT ![r] = {Message(rq[r].id, loc[r])}]
      /\ UNCHANGED born
  BY DEF GetObject, stores
<1>2. sent'[r] = {Message(rq[r].id, loc[r])} /\ \A q \in Requests \ {r} : sent'[q] = sent[q]
  BY <1>1 DEF IndInv, TypeOK
<1>3. /\ Apart(r)
      /\ pc'[r] = "idle" /\ rq'[r] = rq[r] /\ resp'[r] = "OK"
  BY <1>1, <1>2, Succeeds
<1>4. rq[r].id \in DataIDs /\ born[rq[r].id] # NoRow /\ born[rq[r].id].loc = loc[r]
  BY <1>1 DEF IndInv, Locals, LocalsOf
<1>5. PICK m : m = Message(rq[r].id, loc[r])
  OBVIOUS
<1>6. Right(m)
  BY <1>4, <1>5, MessageRight
<1>7. Right(m)'
  BY <1>6, RightStays
<1>8. Delivered(r)'
  BY <1>2, <1>5, <1>7 DEF Delivered
<1>9. Serving(r)'
  BY <1>3 DEF Serving
<1> QED
  BY <1>1, <1>3, <1>8, <1>9, ReadGoesOn

\* List, and Sync after its last row, answer with what has been sent.
LEMMA DoneAnswers ==
  ASSUME IndInv, AnswerInv, Grows, NEW r \in Requests, List(r) \/ SyncDone(r)
  PROVE  AnswerInv'
<1>1. pc[r] \in {"list", "sync"} /\ Succeed(r) /\ UNCHANGED <<born, sent>>
  BY DEF List, SyncDone, stores
<1>2. /\ Apart(r)
      /\ pc'[r] = "idle" /\ rq'[r] = rq[r] /\ resp'[r] = "OK"
  BY <1>1, Succeeds
<1>3. Serving(r)'
  BY <1>2 DEF Serving
<1>4. Delivered(r)'
  BY <1>1, DeliveredStays DEF AnswerInv, Answers
<1> QED
  BY <1>1, <1>2, <1>3, <1>4, ReadGoesOn

\* Sync sends the next of its rows, whatever has become of it meanwhile.
LEMMA SyncNextAnswers ==
  ASSUME IndInv, AnswerInv, Grows, NEW r \in Requests, SyncNext(r)
  PROVE  AnswerInv'
<1>1. PICK id \in snap[r] \ SentIDs(r) :
        sent' = [sent EXCEPT ![r] = @ \cup {Message(id, born[id].loc)}]
  BY DEF SyncNext
<1>2. PICK m : m = Message(id, born[id].loc)
  OBVIOUS
<1>3. /\ pc[r] = "sync"
      /\ UNCHANGED <<born, pc, rq, added, resp>>
  BY DEF SyncNext, stores
<1>4. sent'[r] = sent[r] \cup {m} /\ \A q \in Requests \ {r} : sent'[q] = sent[q]
  BY <1>1, <1>2 DEF IndInv, TypeOK
<1>5. Apart(r)
  BY <1>3, <1>4 DEF Apart, Alone
<1>6. id \in DataIDs /\ born[id] # NoRow
  BY DEF IndInv, TypeOK, Written
<1>7. Delivered(r)'
  <2>1. Right(m)
    BY <1>2, <1>6, MessageRight
  <2>2. Right(m)'
    BY <2>1, RightStays
  <2>3. \A n \in sent[r] : Right(n)'
    BY RightStays DEF AnswerInv, Answers, Delivered
  <2> QED
    BY <1>4, <2>2, <2>3 DEF Delivered
<1>8. Serving(r)'
  BY <1>3 DEF AnswerInv, Answers, Serving
<1> QED
  BY <1>3, <1>5, <1>7, <1>8, ReadGoesOn

-----------------------------------------------------------------------------
(***************************************************************************)
(* The theorems.                                                           *)
(***************************************************************************)

\* A server that has just started has answered nobody.
LEMMA AnswersInit == Init => AnswerInv
<1> SUFFICES ASSUME Init PROVE AnswerInv
  OBVIOUS
<1>1. \A r \in Requests :
        /\ pc[r] = "idle" /\ rq[r].op = "None" /\ sent[r] = {} /\ resp[r] = "None"
  BY DEF Init, NoRequest
<1>2. \A r \in Requests : Answers(r)
  BY <1>1 DEF Answers, Serving, Delivered, Stored, Removed, Won
<1>3. RowTypes
  BY DEF Init, RowTypes
<1>4. DeletedOnce
  BY <1>1 DEF DeletedOnce
<1> QED
  BY <1>2, <1>3, <1>4 DEF AnswerInv

\* Every step of every request, and a crash, keeps the answers true.
LEMMA AnswersNext == IndInv /\ AnswerInv /\ [Next]_vars => AnswerInv'
<1> SUFFICES ASSUME IndInv, AnswerInv, [Next]_vars PROVE AnswerInv'
  OBVIOUS
<1>1. Grows
  BY NextGrows DEF IndInv
<1>2. ASSUME NEW r \in Requests, ClientStep(r)
      PROVE  AnswerInv'
  BY <1>1, <1>2, StartSteps, RefuseAnswers, RecvEOFAnswers, FailSteps DEF ClientStep
<1>3. ASSUME NEW r \in Requests, AddStep(r)
      PROVE  AnswerInv'
  BY <1>1, <1>3, AllAddedAnswers, PutObjectAnswers, PutMetadataAnswers, AttemptAnswers,
     RemovalAnswers, FailSteps DEF AddStep
<1>4. ASSUME NEW r \in Requests, DeleteStep(r)
      PROVE  AnswerInv'
  BY <1>1, <1>4, DeleteMetadataAnswers, DeleteMetadataFaultAnswers, DeleteObjectAnswers,
     RemovalAnswers, FailSteps DEF DeleteStep
<1>5. ASSUME NEW r \in Requests, ReadStep(r)
      PROVE  AnswerInv'
  BY <1>1, <1>5, LookupAnswers, GetObjectAnswers, DoneAnswers, SyncNextAnswers,
     FailSteps DEF ReadStep
<1>6. CASE Crash
  BY <1>6, CrashAnswers
<1>7. CASE UNCHANGED vars
  <2>1. UNCHANGED born /\ \A q \in Requests : Alone(q)
    BY <1>7 DEF vars, stores, Alone
  <2> QED
    BY <1>1, <2>1, TypesStay, SilentAnswers
<1> QED
  BY <1>2, <1>3, <1>4, <1>5, <1>6, <1>7 DEF Next, ServerStep

\* What the requests know and have answered holds in every reachable state, beside
\* the invariant on the stores.
THEOREM AnswersInductive == Spec => [](IndInv /\ AnswerInv)
<1>1. Init => IndInv /\ AnswerInv
  BY IndInit, AnswersInit
<1>2. (IndInv /\ AnswerInv) /\ [Next]_vars => (IndInv /\ AnswerInv)'
  BY IndNext, AnswersNext
<1> QED
  BY <1>1, <1>2, PTL DEF Spec

\* What Get and Sync deliver under an identifier whose row is still there is what
\* AddSealed stored under it, although clients use locators again.
THEOREM DeliveriesAreStored == Spec => []SentIsStored
<1>1. IndInv /\ AnswerInv => SentIsStored
  BY DEF AnswerInv, Answers, Delivered, Right, SentIsStored
<1> QED
  BY <1>1, AnswersInductive, PTL

\* An Add answered OK has stored each item of its stream, in order, under an
\* identifier of its own, and as long as the row is there its object holds the
\* item's bytes, whatever other requests, retries and failures did.
THEOREM AddsAreStored == Spec => []AddOKMeansStored
<1>1. IndInv /\ AnswerInv => AddOKMeansStored
  <2> SUFFICES ASSUME IndInv, AnswerInv, NEW r \in Requests, rq[r].op = "Add",
                      resp[r] = "OK"
               PROVE  /\ Len(added[r]) = Len(rq[r].batch)
                      /\ \A i \in 1 .. Len(added[r]) :
                           /\ Filed(r, i)
                           /\ (added[r][i] \in alive
                                 /\ born[added[r][i]].loc \notin contested) =>
                                content[born[added[r][i]].loc] = rq[r].batch[i].sealed
    BY DEF AddOKMeansStored, Filed
  <2>1. /\ Len(added[r]) = Len(rq[r].batch)
        /\ \A i \in 1 .. Len(added[r]) : Filed(r, i)
    BY DEF AnswerInv, Answers, Stored
  <2>2. \A id \in alive : born[id].loc \notin contested =>
          content[born[id].loc] = born[id].sealed
    BY DEF IndInv, NoDangling
  <2> QED
    BY <2>1, <2>2 DEF Filed
<1> QED
  BY <1>1, AnswersInductive, PTL

\* DELETE ... RETURNING gives the locator of a row to one Delete only.
THEOREM DeletesAreUnique == Spec => []DeletedOnce
<1>1. IndInv /\ AnswerInv => DeletedOnce
  BY DEF AnswerInv
<1> QED
  BY <1>1, AnswersInductive, PTL

\* No Add with a binary file is ever answered OK, though the protocol keeps binary
\* files: the name the converter gives their type is not the one the migration puts
\* into data_types, so the table refuses the row.
BinaryRefused ==
  \A r \in Requests :
    (rq[r].op = "Add" /\ resp[r] = "OK") =>
      \A i \in 1 .. Len(rq[r].batch) : rq[r].batch[i].type # "BINARY"

\* No Add with a binary file succeeds, whatever the clients send and whatever fails.
THEOREM BinaryNeverStored == Spec => []BinaryRefused
<1>1. IndInv /\ AnswerInv => BinaryRefused
  <2> SUFFICES ASSUME IndInv, AnswerInv, NEW r \in Requests,
                      rq[r].op = "Add", resp[r] = "OK",
                      NEW i \in 1 .. Len(rq[r].batch)
               PROVE  rq[r].batch[i].type # "BINARY"
    BY DEF BinaryRefused
  <2>1. Filed(r, i)
    BY DEF AnswerInv, Answers, Stored
  <2>2. DataTypeName(rq[r].batch[i].type) # " DataTypeBinary"
    BY <2>1 DEF Filed, AnswerInv, RowTypes
  <2> QED
    BY <2>2 DEF DataTypeName
<1> QED
  BY <1>1, AnswersInductive, PTL
=============================================================================
