---------------------------- MODULE ObjectStore -----------------------------
(***************************************************************************)
(* What an object store on the tables objects, secret_blobs and            *)
(* chunk_manifest promises its callers, whatever transactions, retries and *)
(* goroutines it is made of.  The bytes of an object appear whole and at   *)
(* once, only under a row of objects, never change, and go with the row.   *)
(* A Get answers with what one moment of the call showed under its         *)
(* locator, or with an error; never with a part of it.                     *)
(***************************************************************************)
CONSTANTS
  IDs,        \* identifiers of rows
  Locators,
  Payloads,   \* sealed, non-empty byte strings
  Calls,      \* slots for calls that are under way at the same time
  Empty,      \* no bytes
  NoRow,      \* an identifier that was not generated yet
  Gone,       \* an identifier whose row was deleted
  NoLocator,  \* no Get is under way
  Nothing,    \* not seen, or not answered, yet
  Error

VARIABLES
  row,     \* row[id]: the locator of the row, NoRow before it, Gone after it
  blob,    \* blob[id]: the bytes stored for the row
  want,    \* want[c]: the locator a Get under way asked for
  seen,    \* seen[c]: what the Get under way saw there
  answer   \* answer[c]: what the last Get of the slot was answered with

vars == <<row, blob, want, seen, answer>>

Init ==
  /\ row = [id \in IDs |-> NoRow]
  /\ blob = [id \in IDs |-> Empty]
  /\ want = [c \in Calls |-> NoLocator]
  /\ seen = [c \in Calls |-> Nothing]
  /\ answer = [c \in Calls |-> Nothing]

AddRow(id, l) ==
  /\ row[id] = NoRow
  /\ row' = [row EXCEPT ![id] = l]
  /\ UNCHANGED <<blob, want, seen, answer>>

DropRow(id) ==
  /\ row[id] \in Locators
  /\ row' = [row EXCEPT ![id] = Gone]
  /\ blob' = [blob EXCEPT ![id] = Empty]
  /\ UNCHANGED <<want, seen, answer>>

Store(id, p) ==
  /\ row[id] \in Locators
  /\ blob[id] = Empty
  /\ blob' = [blob EXCEPT ![id] = p]
  /\ UNCHANGED <<row, want, seen, answer>>

\* What is under locator l now: nothing, the bytes of its row, or no answer
\* when several rows carry it.
View(l) ==
  LET named == {id \in IDs : row[id] = l}
  IN IF named = {} THEN Empty
     ELSE IF \E id \in IDs : named = {id}
          THEN blob[CHOOSE id \in IDs : named = {id}]
          ELSE Error

\* A slot begins something new: a Get of l, or (NoLocator) anything else.
Ask(c, l) ==
  /\ want[c] = NoLocator
  /\ want' = [want EXCEPT ![c] = l]
  /\ seen' = [seen EXCEPT ![c] = Nothing]
  /\ answer' = [answer EXCEPT ![c] = Nothing]
  /\ UNCHANGED <<row, blob>>

Look(c) ==
  /\ want[c] # NoLocator
  /\ seen[c] = Nothing
  /\ seen' = [seen EXCEPT ![c] = View(want[c])]
  /\ UNCHANGED <<row, blob, want, answer>>

Answer(c) ==
  /\ want[c] # NoLocator
  /\ want' = [want EXCEPT ![c] = NoLocator]
  /\ \/ seen[c] # Nothing /\ answer' = [answer EXCEPT ![c] = seen[c]]
     \/ answer' = [answer EXCEPT ![c] = Error]
  /\ seen' = [seen EXCEPT ![c] = Nothing]
  /\ UNCHANGED <<row, blob>>

\* The process of the callers ends.
Break ==
  /\ want' = [c \in Calls |-> NoLocator]
  /\ seen' = [c \in Calls |-> Nothing]
  /\ answer' = [c \in Calls |-> Nothing]
  /\ UNCHANGED <<row, blob>>

Next ==
  \/ \E id \in IDs, l \in Locators : AddRow(id, l)
  \/ \E id \in IDs : DropRow(id)
  \/ \E id \in IDs, p \in Payloads : Store(id, p)
  \/ \E c \in Calls, l \in Locators \cup {NoLocator} : Ask(c, l)
  \/ \E c \in Calls : Look(c) \/ Answer(c)
  \/ Break

Spec == Init /\ [][Next]_vars
=============================================================================
