------------------------------ MODULE StoreTxn ------------------------------
(***************************************************************************)
(* The store, one SQL statement at a time: the handlers of POST /api/ingest *)
(* and PUT /api/decisions/:key as their clients see them, the transaction  *)
(* each of them runs, and what may go wrong under it -- a statement that   *)
(* throws, a process that dies, an answer that is lost.                    *)
(*                                                                         *)
(* The tables of DecisionStore are here the committed ones; `work` is what *)
(* the open transaction sees.  node:sqlite is synchronous, so from BEGIN   *)
(* to COMMIT no other handler runs and (the handlers read the time once)   *)
(* the clock stands still; a crash may come between any two statements.    *)
(* Requests wait in any order for their turn: before it a handler has only *)
(* awaited its body and its identity, and read nothing of the store.       *)
(*                                                                         *)
(* StoreTxn implements DecisionStore (the property Atomic).                *)
(***************************************************************************)
EXTENDS DecisionStore, FiniteSets

CONSTANTS
  Publisher,    \* the client of POST /api/ingest; the others are the Users
  Puts,         \* [Users -> requests]: what a user may ask
  Posts,        \* what the publisher may post
  MaxRequests,  \* bound: requests sent
  MaxFailures   \* bound: failed statements, crashes and lost answers

Clients == Users \cup {Publisher}

(* `known`: the identity, or the ingest token, checks out; `orphaned`: a   *)
(* report row of the posted body has no inventory item.                    *)
PutRequest ==
  [ kind : {"put"}, known : BOOLEAN, key : Keys,
    patch : VersionPatches \cup RemindPatches \cup AckPatches \cup {ClearPatch} ]

PostRequest == [ kind : {"post"}, known : BOOLEAN, orphaned : BOOLEAN, doc : Docs ]

Requests(c) == IF c = Publisher THEN Posts ELSE Puts[c]

ASSUME ClientsAssumption ==
  /\ Publisher \notin Users
  /\ Puts \in [Users -> SUBSET PutRequest]
  /\ Posts \subseteq PostRequest
  /\ MaxRequests \in Nat /\ MaxRequests <= MaxHistory
  /\ MaxFailures \in Nat

(* The body of a 200 to a PUT. *)
PutAnswer == [kind : {"put"}, key : Keys, row : Row \cup {Null}, wrote : BOOLEAN]

(* A transaction: whose it is, the next statement, the items it still has  *)
(* to insert, and the row and the entry it writes.                         *)
Txn ==
  [ client : Clients, step : {"row", "entry", "commit", "snapshot", "items"},
    left : SUBSET Keys, row : Row \cup {Null}, entry : HistoryEntry \cup {Null} ]

(* Null is none of the records of this module either. *)
ASSUME RecordsAssumption ==
  /\ Null \notin PutRequest \cup PostRequest
  /\ Null \notin PutAnswer
  /\ Null \notin Txn

VARIABLES
  up,        \* the process runs
  request,   \* [Clients -> the request in flight, or Null]
  phase,     \* [Clients -> how far it is]
  answer,    \* [Clients -> the body of the 200 on its way, or Null]
  txn,       \* the open transaction, or Null
  work,      \* the tables the open transaction sees, or Null
  receipts,  \* the bodies of the 200s that reached a client
  told,      \* [Clients -> how many of its writes were answered 200]
  untold,    \* [Clients -> how many of its requests got no answer]
  sent, failures

tables == <<snapshots, decisions, history>>
client == <<request, phase, answer, receipts, told, untold, sent>>
txnVars == <<tables, clock, up, client, txn, work, failures>>

Phases == {"idle", "sent", "running", "done", "failed"}

Tables == [snapshots |-> snapshots, decisions |-> decisions, history |-> history]

-----------------------------------------------------------------------------
(* The client's side. *)

Send(c) ==
  /\ phase[c] = "idle"
  /\ sent < MaxRequests
  /\ \E r \in Requests(c) : request' = [request EXCEPT ![c] = r]
  /\ phase' = [phase EXCEPT ![c] = "sent"]
  /\ sent' = sent + 1
  /\ UNCHANGED <<tables, clock, up, answer, txn, work, receipts, told, untold, failures>>

(* c stops waiting. *)
Forget(c) ==
  /\ request' = [request EXCEPT ![c] = Null]
  /\ phase' = [phase EXCEPT ![c] = "idle"]
  /\ answer' = [answer EXCEPT ![c] = Null]

Deliver(c) ==
  /\ phase[c] \in {"done", "failed"}
  /\ Forget(c)
  /\ receipts' = IF answer[c] = Null THEN receipts ELSE receipts \cup {answer[c]}
  /\ told' = IF answer[c] # Null /\ answer[c].wrote THEN [told EXCEPT ![c] = @ + 1] ELSE told
  /\ UNCHANGED <<tables, clock, up, txn, work, untold, sent, failures>>

(* The proxy or the network drops the answer. *)
LoseAnswer(c) ==
  /\ phase[c] \in {"done", "failed"}
  /\ failures < MaxFailures
  /\ failures' = failures + 1
  /\ Forget(c)
  /\ untold' = [untold EXCEPT ![c] = @ + 1]
  /\ UNCHANGED <<tables, clock, up, txn, work, receipts, told, sent>>

-----------------------------------------------------------------------------
(* What the handlers read and decide before BEGIN. *)

StoredAs(doc) == {i \in 1..Len(snapshots) : snapshots[i].generatedAt = doc.generatedAt}

(* The 200 of POST /api/ingest: the id, and the number of rows stored. *)
Posted(id, n, doc, wrote) ==
  [ kind |-> "post", id |-> id, items |-> n, generatedAt |-> doc.generatedAt, wrote |-> wrote ]

(* The 200 of PUT /api/decisions/:key: the row now in force, or null. *)
Decided(key, row, wrote) == [ kind |-> "put", key |-> key, row |-> row, wrote |-> wrote ]

Turn(c) == up /\ txn = Null /\ phase[c] = "sent"

Asks(c, kind) == Turn(c) /\ request[c].known /\ request[c].kind = kind

Finish(c, result) ==
  /\ phase' = [phase EXCEPT ![c] = IF result = Null THEN "failed" ELSE "done"]
  /\ answer' = [answer EXCEPT ![c] = result]

(* 401 or 422; of a document stored already the report is not checked. *)
Refuse(c) ==
  /\ Turn(c)
  /\ \/ ~request[c].known
     \/ request[c].kind = "put" /\ ~Valid(request[c].key, request[c].patch)
     \/ /\ request[c].kind = "post" /\ request[c].orphaned
        /\ StoredAs(request[c].doc) = {}
  /\ Finish(c, Null)
  /\ UNCHANGED <<tables, clock, up, request, txn, work, receipts, told, untold, sent, failures>>

(* 200 without a write: nothing to clear, or posted before. *)
Skip(c) ==
  /\ \/ /\ Asks(c, "put")
        /\ ~Writes(request[c].key, request[c].patch)
        /\ Finish(c, Decided(request[c].key, Null, FALSE))
     \/ /\ Asks(c, "post")
        /\ \E id \in StoredAs(request[c].doc) :
             Finish(c, Posted(id, Cardinality(DOMAIN snapshots[id].items), request[c].doc, FALSE))
  /\ UNCHANGED <<tables, clock, up, request, txn, work, receipts, told, untold, sent, failures>>

(* A write: BEGIN.  The bound of DecisionStore is never met here, because  *)
(* each accepted write has a request of its own (MaxRequests).             *)
BeginPut(c) ==
  /\ Asks(c, "put")
  /\ Len(history) < MaxHistory
  /\ LET key == request[c].key
         after == NextRow(key, request[c].patch, c)
     IN  /\ Valid(key, request[c].patch)
         /\ Writes(key, request[c].patch)
         /\ txn' = [ client |-> c, step |-> "row", left |-> {},
                     row |-> after, entry |-> Entry(key, after, c) ]
  /\ work' = Tables
  /\ phase' = [phase EXCEPT ![c] = "running"]
  /\ UNCHANGED <<tables, clock, up, request, answer, receipts, told, untold, sent, failures>>

(* Mutant: the posted document is not looked up first. *)
BeginPost_Unchecked(c) ==
  /\ Asks(c, "post")
  /\ ~request[c].orphaned
  /\ txn' = [ client |-> c, step |-> "snapshot", left |-> DOMAIN request[c].doc.items,
              row |-> Null, entry |-> Null ]
  /\ work' = Tables
  /\ phase' = [phase EXCEPT ![c] = "running"]
  /\ UNCHANGED <<tables, clock, up, request, answer, receipts, told, untold, sent, failures>>

BeginPost(c) ==
  /\ Asks(c, "post")
  /\ StoredAs(request[c].doc) = {}
  /\ ~request[c].orphaned
  /\ txn' = [ client |-> c, step |-> "snapshot", left |-> DOMAIN request[c].doc.items,
              row |-> Null, entry |-> Null ]
  /\ work' = Tables
  /\ phase' = [phase EXCEPT ![c] = "running"]
  /\ UNCHANGED <<tables, clock, up, request, answer, receipts, told, untold, sent, failures>>

-----------------------------------------------------------------------------
(* The statements of a transaction. *)

Step(step) == up /\ txn # Null /\ txn.step = step

(* Mutant: the statement runs outside the transaction. *)
WriteRow_Autocommit ==
  /\ Step("row")
  /\ decisions' = [decisions EXCEPT ![txn.entry.key] = txn.row]
  /\ work' = [work EXCEPT !.decisions[txn.entry.key] = txn.row]
  /\ txn' = [txn EXCEPT !.step = "entry"]
  /\ UNCHANGED <<snapshots, history, clock, up, client, failures>>

(* INSERT ... ON CONFLICT(key) DO UPDATE, or DELETE FROM decisions. *)
WriteRow ==
  /\ Step("row")
  /\ work' = [work EXCEPT !.decisions[txn.entry.key] = txn.row]
  /\ txn' = [txn EXCEPT !.step = "entry"]
  /\ UNCHANGED <<tables, clock, up, client, failures>>

InsertEntry ==
  /\ Step("entry")
  /\ work' = [work EXCEPT !.history = Append(@, txn.entry)]
  /\ txn' = [txn EXCEPT !.step = "commit"]
  /\ UNCHANGED <<tables, clock, up, client, failures>>

InsertSnapshot ==
  /\ Step("snapshot")
  /\ LET doc == request[txn.client].doc
     IN  work' = [work EXCEPT !.snapshots =
           Append(@, [doc EXCEPT !.items = [key \in {} |-> Null]])]
  /\ txn' = [txn EXCEPT !.step = "items"]
  /\ UNCHANGED <<tables, clock, up, client, failures>>

(* One iteration of the loop over the inventory. *)
InsertItem(key) ==
  /\ Step("items")
  /\ key \in txn.left
  /\ LET doc == request[txn.client].doc
         n == Len(work.snapshots)
         stored == DOMAIN work.snapshots[n].items \cup {key}
     IN  work' = [work EXCEPT !.snapshots[n].items = [k \in stored |-> doc.items[k]]]
  /\ txn' = [txn EXCEPT !.left = @ \ {key}]
  /\ UNCHANGED <<tables, clock, up, client, failures>>

(* Mutant: COMMIT stands before the loop that inserts the items. *)
Complete_BeforeItems == txn.step \in {"commit", "items"}

(* Every statement before COMMIT was run. *)
Complete == txn.step = "commit" \/ (txn.step = "items" /\ txn.left = {})

Install ==
  /\ snapshots' = work.snapshots
  /\ decisions' = work.decisions
  /\ history' = work.history

(* Mutant: the error of a failed transaction is swallowed, the request     *)
(* never answered.                                                         *)
Close_Unanswered(result) ==
  /\ txn' = Null
  /\ work' = Null
  /\ IF result = Null THEN UNCHANGED <<phase, answer>> ELSE Finish(txn.client, result)

(* The transaction is over, and its handler answers. *)
Close(result) ==
  /\ txn' = Null
  /\ work' = Null
  /\ Finish(txn.client, result)

CommitTxn ==
  /\ up /\ txn # Null /\ Complete
  /\ Install
  /\ LET r == request[txn.client]
     IN  Close(IF r.kind = "put" THEN Decided(r.key, txn.row, TRUE)
               ELSE Posted(Len(work.snapshots), Cardinality(DOMAIN r.doc.items), r.doc, TRUE))
  /\ UNCHANGED <<clock, up, request, receipts, told, untold, sent, failures>>

(* Mutant: COMMIT in a finally. *)
StatementFails_Commits ==
  /\ up /\ txn # Null
  /\ failures < MaxFailures
  /\ failures' = failures + 1
  /\ Install
  /\ Close(Null)
  /\ UNCHANGED <<clock, up, request, receipts, told, untold, sent>>

(* Mutant: no ROLLBACK, the transaction stays open. *)
StatementFails_LeavesOpen ==
  /\ up /\ txn # Null
  /\ failures < MaxFailures
  /\ failures' = failures + 1
  /\ Finish(txn.client, Null)
  /\ UNCHANGED <<tables, clock, up, request, txn, work, receipts, told, untold, sent>>

(* A statement, or COMMIT, throws: ROLLBACK, and a 500. *)
StatementFails ==
  /\ up /\ txn # Null
  /\ failures < MaxFailures
  /\ failures' = failures + 1
  /\ Close(Null)
  /\ UNCHANGED <<tables, clock, up, request, receipts, told, untold, sent>>

(* The process dies: what was not committed is gone, and every client sees *)
(* its connection drop.                                                    *)
Crash ==
  /\ up
  /\ failures < MaxFailures
  /\ failures' = failures + 1
  /\ up' = FALSE
  /\ txn' = Null
  /\ work' = Null
  /\ request' = [c \in Clients |-> Null]
  /\ phase' = [c \in Clients |-> "idle"]
  /\ answer' = [c \in Clients |-> Null]
  /\ untold' = [c \in Clients |-> untold[c] + IF phase[c] = "idle" THEN 0 ELSE 1]
  /\ UNCHANGED <<tables, clock, receipts, told, sent>>

Restart ==
  /\ ~up
  /\ up' = TRUE
  /\ UNCHANGED <<tables, clock, client, txn, work, failures>>

TickIdle ==
  /\ txn = Null
  /\ Tick
  /\ UNCHANGED <<up, client, txn, work, failures>>

-----------------------------------------------------------------------------

TxnInit ==
  /\ Init
  /\ up = TRUE
  /\ request = [c \in Clients |-> Null]
  /\ phase = [c \in Clients |-> "idle"]
  /\ answer = [c \in Clients |-> Null]
  /\ txn = Null
  /\ work = Null
  /\ receipts = {}
  /\ told = [c \in Clients |-> 0]
  /\ untold = [c \in Clients |-> 0]
  /\ sent = 0
  /\ failures = 0

Accept(c) == Refuse(c) \/ Skip(c) \/ BeginPut(c) \/ BeginPost(c)

Statement ==
  \/ WriteRow
  \/ InsertEntry
  \/ InsertSnapshot
  \/ \E key \in Keys : InsertItem(key)
  \/ CommitTxn

TxnNext ==
  \/ \E c \in Clients : Send(c) \/ Accept(c) \/ Deliver(c) \/ LoseAnswer(c)
  \/ Statement
  \/ StatementFails
  \/ Crash
  \/ Restart
  \/ TickIdle

TxnSpec == TxnInit /\ [][TxnNext]_txnVars

(* The event loop takes every request in its turn (strong: another handler *)
(* may be at work whenever it looks), runs a handler to its end and writes *)
(* its answer; the container is restarted (deploy/compose.yaml.example).   *)
TxnFairSpec ==
  /\ TxnSpec
  /\ \A c \in Clients : SF_txnVars(Accept(c)) /\ WF_txnVars(Deliver(c))
  /\ WF_txnVars(Statement)
  /\ WF_txnVars(Restart)

-----------------------------------------------------------------------------
(* Properties. *)

TablesOK(t) ==
  /\ t.decisions \in [Keys -> Row \cup {Null}]
  /\ t.history \in Seq(HistoryEntry)
  /\ \A i \in 1..Len(t.snapshots) : IsSnapshot(t.snapshots[i])

TxnTypeOK ==
  /\ TypeOK
  /\ up \in BOOLEAN
  /\ phase \in [Clients -> Phases]
  /\ \A c \in Clients :
       /\ request[c] = Null <=> phase[c] = "idle"
       /\ request[c] # Null => request[c] \in Requests(c)
       /\ answer[c] # Null => phase[c] = "done"
       /\ phase[c] = "running" <=> txn # Null /\ txn.client = c
  /\ txn \in Txn \cup {Null}
  /\ txn = Null => work = Null
  /\ txn # Null => up /\ TablesOK(work)
  /\ told \in [Clients -> 0..MaxRequests]
  /\ untold \in [Clients -> 0..MaxRequests]
  /\ sent \in 0..MaxRequests
  /\ failures \in 0..MaxFailures

(* Seen from outside, a handler is one atomic step of DecisionStore or     *)
(* nothing at all: no failure, crash or interleaving leaves a snapshot     *)
(* without some of its items, or a decision without its audit entry.       *)
Atomic == Spec

(* A 200 is a promise kept across failures and restarts: the snapshot it   *)
(* names stays stored under that id with as many items as it said, however *)
(* often it was posted; the row it shows was recorded by that write.       *)
AnswersHold ==
  \A a \in receipts :
    /\ a.kind = "post" =>
         /\ a.id \in 1..Len(snapshots)
         /\ snapshots[a.id].generatedAt = a.generatedAt
         /\ Cardinality(DOMAIN snapshots[a.id].items) = a.items
    /\ a.kind = "put" /\ a.wrote =>
         \E i \in 1..Len(history) : history[i].key = a.key /\ history[i].after = a.row

EntriesBy(user) == Cardinality({i \in 1..Len(history) : history[i].by = user})

Unread(c) == IF answer[c] # Null /\ answer[c].wrote THEN 1 ELSE 0

(* The audit trail counts right: a user has one entry for each write they  *)
(* were told of, none for a request answered 4xx or 500, and at most one   *)
(* for each request whose answer never came.                               *)
AuditCountsWrites ==
  \A user \in Users :
    LET known == told[user] + Unread(user)
    IN  EntriesBy(user) \in known..(known + untold[user])

(* A document is stored once, whatever was retried, lost or restarted.     *)
StoredOnce ==
  \A i, j \in 1..Len(snapshots) :
    snapshots[i].generatedAt = snapshots[j].generatedAt => i = j

(* Every request ends, answered or dropped: a failed transaction never     *)
(* leaves the next handlers waiting behind it.                             *)
EveryRequestEnds == \A c \in Clients : phase[c] # "idle" ~> phase[c] = "idle"
=============================================================================
