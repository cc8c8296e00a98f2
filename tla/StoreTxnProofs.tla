--------------------------- MODULE StoreTxnProofs ---------------------------
(***************************************************************************)
(* Theorems about StoreTxn: statement by statement, with failures and      *)
(* crashes, it implements DecisionStore, and so keeps what DecisionStore   *)
(* keeps -- for every set of clients, requests, keys and documents.        *)
(***************************************************************************)
EXTENDS StoreTxn, DecisionStoreProofs, FiniteSetTheorems

USE ClientsAssumption

Patches == VersionPatches \cup RemindPatches \cup AckPatches \cup {ClearPatch}

-----------------------------------------------------------------------------
(* What the open transaction sees: the committed tables and the statements *)
(* that ran so far.                                                        *)

(* Of a document, the items of some keys. *)
Partial(doc, keys) ==
  [generatedAt |-> doc.generatedAt, items |-> [k \in keys |-> doc.items[k]]]

RowWritten ==
  [ snapshots |-> snapshots,
    decisions |-> [decisions EXCEPT ![txn.entry.key] = txn.row],
    history |-> history ]

EntryInserted ==
  [ snapshots |-> snapshots,
    decisions |-> [decisions EXCEPT ![txn.entry.key] = txn.row],
    history |-> Append(history, txn.entry) ]

ItemsInserted(doc, keys) ==
  [ snapshots |-> Append(snapshots, Partial(doc, keys)),
    decisions |-> decisions,
    history |-> history ]

(* The transaction of putDecision. *)
OpenPutOf(key, patch, by) ==
  /\ txn.client = by
  /\ request[by].kind = "put" /\ request[by].key = key /\ request[by].patch = patch
  /\ Valid(key, patch) /\ Writes(key, patch)
  /\ Len(history) < MaxHistory
  /\ txn.row = NextRow(key, patch, by)
  /\ txn.entry = Entry(key, txn.row, by)
  /\ \/ txn.step = "row" /\ work = Tables
     \/ txn.step = "entry" /\ work = RowWritten
     \/ txn.step = "commit" /\ work = EntryInserted

OpenPut == \E key \in Keys, patch \in Patches, by \in Users : OpenPutOf(key, patch, by)

(* The transaction of ingest. *)
OpenPostOf(doc) ==
  /\ request[txn.client].kind = "post" /\ request[txn.client].doc = doc
  /\ StoredAs(doc) = {}
  /\ txn.left \subseteq DOMAIN doc.items
  /\ \/ txn.step = "snapshot" /\ work = Tables /\ txn.left = DOMAIN doc.items
     \/ txn.step = "items" /\ work = ItemsInserted(doc, DOMAIN doc.items \ txn.left)

OpenPost == \E doc \in Docs : OpenPostOf(doc)

RequestsInv ==
  /\ phase \in [Clients -> Phases]
  /\ request \in [Clients -> {Null} \cup PutRequest \cup PostRequest]
  /\ \A c \in Clients : phase[c] # "idle" => request[c] \in Requests(c)

TxnOpenInv ==
  txn # Null =>
    /\ txn = [ client |-> txn.client, step |-> txn.step, left |-> txn.left, row |-> txn.row,
               entry |-> txn.entry ]
    /\ txn.client \in Clients
    /\ phase[txn.client] = "running"
    /\ OpenPut \/ OpenPost

TxnInv == TypeOK /\ RequestsInv /\ TxnOpenInv

-----------------------------------------------------------------------------
(* The requests. *)

LEMMA RequestTypes ==
  ASSUME RequestsInv, NEW c \in Clients, phase[c] # "idle"
  PROVE  /\ request[c] \in PutRequest \cup PostRequest
         /\ request[c].kind = "put" => /\ c \in Users
                                       /\ request[c].key \in Keys
                                       /\ request[c].patch \in Patches
         /\ request[c].kind = "post" => request[c].doc \in Docs
<1>1. request[c] \in Requests(c)
  BY DEF RequestsInv
<1>2. CASE c = Publisher
  <2>1. request[c] \in PostRequest
    BY <1>1, <1>2 DEF Requests
  <2>. QED
    BY <2>1 DEF PostRequest
<1>3. CASE c # Publisher
  <2>1. c \in Users /\ request[c] \in PutRequest
    BY <1>1, <1>3 DEF Requests, Clients
  <2>. QED
    BY <2>1 DEF PutRequest, Patches
<1>. QED
  BY <1>2, <1>3

LEMMA RequestsKept ==
  ASSUME RequestsInv, TxnOpenInv, [TxnNext]_txnVars
  PROVE  RequestsInv'
<1>1. ASSUME NEW c \in Clients, Send(c) PROVE RequestsInv'
  <2>1. PICK r \in Requests(c) : request' = [request EXCEPT ![c] = r]
    BY <1>1 DEF Send
  <2>2. r \in PutRequest \cup PostRequest
    BY <2>1 DEF Requests, Clients
  <2>. QED
    BY <1>1, <2>1, <2>2 DEF Send, RequestsInv, Requests, Phases
<1>2. ASSUME NEW c \in Clients, Accept(c) PROVE RequestsInv'
  BY <1>2 DEF Accept, Refuse, Skip, BeginPut, BeginPost, Asks, Turn, Finish, RequestsInv, Requests, Phases
<1>3. ASSUME NEW c \in Clients, Deliver(c) \/ LoseAnswer(c) PROVE RequestsInv'
  BY <1>3 DEF Deliver, LoseAnswer, Forget, RequestsInv, Requests, Phases
<1>4. CASE WriteRow \/ InsertEntry \/ InsertSnapshot \/ \E key \in Keys : InsertItem(key)
  BY <1>4 DEF WriteRow, InsertEntry, InsertSnapshot, InsertItem, client, RequestsInv, Requests
<1>5. CASE CommitTxn
  <2>. DEFINE result == IF request[txn.client].kind = "put"
                        THEN Decided(request[txn.client].key, txn.row, TRUE)
                        ELSE Posted(Len(work.snapshots),
                                    Cardinality(DOMAIN request[txn.client].doc.items),
                                    request[txn.client].doc, TRUE)
  <2>1. txn # Null /\ txn.client \in Clients /\ phase[txn.client] = "running"
    BY <1>5 DEF CommitTxn, TxnOpenInv
  <2>2. /\ request' = request
        /\ phase' = [phase EXCEPT ![txn.client] = IF result = Null THEN "failed" ELSE "done"]
    BY <1>5 DEF CommitTxn, Close, Finish
  <2>. HIDE DEF result
  <2>. QED
    BY <2>1, <2>2 DEF RequestsInv, Requests, Phases
<1>6. CASE StatementFails
  <2>1. txn # Null /\ txn.client \in Clients /\ phase[txn.client] = "running"
    BY <1>6 DEF StatementFails, TxnOpenInv
  <2>2. request' = request /\ phase' = [phase EXCEPT ![txn.client] = "failed"]
    BY <1>6 DEF StatementFails, Close, Finish
  <2>. QED
    BY <2>1, <2>2 DEF RequestsInv, Requests, Phases
<1>7. CASE Crash
  BY <1>7 DEF Crash, RequestsInv, Phases
<1>8. CASE Restart \/ TickIdle \/ UNCHANGED txnVars
  BY <1>8 DEF Restart, TickIdle, client, txnVars, RequestsInv, Requests
<1>. QED
  BY <1>1, <1>2, <1>3, <1>4, <1>5, <1>6, <1>7, <1>8 DEF TxnNext, Statement

-----------------------------------------------------------------------------
(* The transaction. *)

(* What a write is checked against, and what it makes of it, depends on    *)
(* the tables and the clock only.                                          *)
LEMMA WriteUndisturbed ==
  ASSUME UNCHANGED vars, NEW key, NEW patch, NEW by
  PROVE  /\ Valid(key, patch)' <=> Valid(key, patch)
         /\ Writes(key, patch)' <=> Writes(key, patch)
         /\ NextRow(key, patch, by)' = NextRow(key, patch, by)
BY DEF vars, Valid, Writes, NextRow, AckRow, TrioRow, HasIdentity, KnownAdvisories, LatestItem,
       Acknowledged, PinnedNow

(* While the transaction is open nothing it was built from changes. *)
LEMMA OpenUndisturbed ==
  ASSUME RequestsInv, TxnOpenInv,
         txn' = txn, work' = work, UNCHANGED vars,
         txn # Null => /\ request'[txn.client] = request[txn.client]
                       /\ phase'[txn.client] = phase[txn.client]
  PROVE  TxnOpenInv'
<1>. SUFFICES ASSUME txn # Null
              PROVE  phase'[txn'.client] = "running" /\ (OpenPut' \/ OpenPost')
  BY DEF TxnOpenInv
<1>1. txn.client \in Clients /\ phase[txn.client] = "running" /\ (OpenPut \/ OpenPost)
  BY DEF TxnOpenInv
<1>2. ASSUME NEW key \in Keys, NEW patch \in Patches, NEW by \in Users,
             OpenPutOf(key, patch, by)
      PROVE  OpenPutOf(key, patch, by)'
  BY <1>2, WriteUndisturbed DEF OpenPutOf, vars, Entry, RowWritten, EntryInserted, Tables
<1>3. CASE OpenPut
  BY <1>1, <1>2, <1>3 DEF OpenPut
<1>4. ASSUME NEW doc \in Docs, OpenPostOf(doc)
      PROVE  OpenPostOf(doc)'
  BY <1>1, <1>4 DEF OpenPostOf, vars, StoredAs, ItemsInserted, Tables
<1>5. CASE OpenPost
  BY <1>1, <1>4, <1>5 DEF OpenPost
<1>. QED
  BY <1>1, <1>3, <1>5

LEMMA BeginPutOpens ==
  ASSUME RequestsInv, NEW by \in Clients, BeginPut(by)
  PROVE  TxnOpenInv'
<1>1. PICK key, patch : key = request[by].key /\ patch = request[by].patch
  OBVIOUS
<1>2. phase[by] = "sent" /\ request[by].kind = "put"
  BY DEF BeginPut, Asks, Turn
<1>3. by \in Users /\ key \in Keys /\ patch \in Patches
  BY <1>1, <1>2, RequestTypes
<1>4. /\ Valid(key, patch) /\ Writes(key, patch)
      /\ Len(history) < MaxHistory
      /\ txn' = [ client |-> by, step |-> "row", left |-> {}, row |-> NextRow(key, patch, by),
                  entry |-> Entry(key, NextRow(key, patch, by), by) ]
      /\ work' = Tables
      /\ phase' = [phase EXCEPT ![by] = "running"]
      /\ UNCHANGED <<tables, clock, request>>
  BY <1>1 DEF BeginPut
<1>5. UNCHANGED vars /\ phase'[by] = "running"
  BY <1>4 DEF tables, vars, RequestsInv
<1>6. OpenPutOf(key, patch, by)'
  BY <1>1, <1>2, <1>4, <1>5, WriteUndisturbed DEF OpenPutOf, vars, Entry, Tables
<1>7. /\ txn'.client = by
      /\ txn' = [ client |-> txn'.client, step |-> txn'.step, left |-> txn'.left,
                  row |-> txn'.row, entry |-> txn'.entry ]
  BY <1>4
<1>. QED
  BY <1>3, <1>5, <1>6, <1>7 DEF TxnOpenInv, OpenPut

LEMMA BeginPostOpens ==
  ASSUME RequestsInv, NEW c \in Clients, BeginPost(c)
  PROVE  TxnOpenInv'
<1>1. PICK doc : doc = request[c].doc
  OBVIOUS
<1>2. phase[c] = "sent" /\ request[c].kind = "post"
  BY DEF BeginPost, Asks, Turn
<1>3. doc \in Docs
  BY <1>1, <1>2, RequestTypes
<1>4. /\ StoredAs(doc) = {}
      /\ txn' = [ client |-> c, step |-> "snapshot", left |-> DOMAIN doc.items,
                  row |-> Null, entry |-> Null ]
      /\ work' = Tables
      /\ phase' = [phase EXCEPT ![c] = "running"]
      /\ UNCHANGED <<tables, clock, request>>
  BY <1>1 DEF BeginPost
<1>5. UNCHANGED vars /\ phase'[c] = "running"
  BY <1>4 DEF tables, vars, RequestsInv
<1>6. OpenPostOf(doc)'
  BY <1>1, <1>2, <1>4, <1>5 DEF OpenPostOf, vars, StoredAs, Tables
<1>7. /\ txn'.client = c
      /\ txn' = [ client |-> txn'.client, step |-> txn'.step, left |-> txn'.left,
                  row |-> txn'.row, entry |-> txn'.entry ]
  BY <1>4
<1>. QED
  BY <1>3, <1>5, <1>6, <1>7 DEF TxnOpenInv, OpenPost

LEMMA ItemsReplaced ==
  ASSUME NEW date, NEW old, NEW new
  PROVE  [[generatedAt |-> date, items |-> old] EXCEPT !.items = new]
           = [generatedAt |-> date, items |-> new]
OBVIOUS

LEMMA PartialGrows ==
  ASSUME NEW doc, NEW some, NEW more
  PROVE  [Partial(doc, some) EXCEPT !.items = [k \in more |-> doc.items[k]]] = Partial(doc, more)
<1>. DEFINE old == [k \in some |-> doc.items[k]]
            new == [k \in more |-> doc.items[k]]
<1>1. /\ Partial(doc, some) = [generatedAt |-> doc.generatedAt, items |-> old]
      /\ Partial(doc, more) = [generatedAt |-> doc.generatedAt, items |-> new]
  BY DEF Partial
<1>. HIDE DEF old, new
<1>2. [[generatedAt |-> doc.generatedAt, items |-> old] EXCEPT !.items = new]
        = [generatedAt |-> doc.generatedAt, items |-> new]
  BY ItemsReplaced
<1>3. [Partial(doc, some) EXCEPT !.items = new] = Partial(doc, more)
  BY <1>1, <1>2
<1>. QED
  BY <1>3 DEF new

LEMMA SeqIsFunction ==
  ASSUME NEW S, NEW seq \in Seq(S)
  PROVE  seq = [i \in 1..Len(seq) |-> seq[i]]
OBVIOUS

LEMMA LastAppended ==
  ASSUME NEW S, NEW seq \in Seq(S), NEW last
  PROVE  /\ Len(Append(seq, last)) = Len(seq) + 1
         /\ Append(seq, last)[Len(seq) + 1] = last
OBVIOUS

LEMMA LastReplaced ==
  ASSUME NEW S, NEW seq \in Seq(S), NEW old, NEW new
  PROVE  [Append(seq, old) EXCEPT ![Len(seq) + 1] = new] = Append(seq, new)
<1>. DEFINE T == S \cup {old, new}
            n == Len(seq) + 1
            longer == Append(seq, old)
            other == Append(seq, new)
<1>1. seq \in Seq(T)
  OBVIOUS
<1>2. longer \in Seq(T) /\ other \in Seq(T)
  BY <1>1
<1>3. /\ Len(longer) = n /\ Len(other) = n /\ n \in Nat
      /\ longer[n] = old /\ other[n] = new
      /\ \A i \in 1..Len(seq) : longer[i] = seq[i] /\ other[i] = seq[i]
  BY <1>1
<1>. HIDE DEF longer, other
<1>4. /\ longer = [i \in 1..n |-> longer[i]] /\ other = [i \in 1..n |-> other[i]]
  BY <1>2, <1>3, SeqIsFunction
<1>5. [longer EXCEPT ![n] = new] = [i \in 1..n |-> IF i = n THEN new ELSE longer[i]]
  BY <1>4
<1>6. \A i \in 1..n : other[i] = IF i = n THEN new ELSE longer[i]
  BY <1>3
<1>7. [longer EXCEPT ![n] = new] = other
  BY <1>4, <1>5, <1>6
<1>. QED
  BY <1>3, <1>7 DEF longer, other

(* Each statement adds its part to what the transaction sees. *)
LEMMA StatementsAdd ==
  ASSUME TypeOK, RequestsInv, TxnOpenInv,
         WriteRow \/ InsertEntry \/ InsertSnapshot \/ \E key \in Keys : InsertItem(key)
  PROVE  TxnOpenInv'
<1>1. /\ txn # Null /\ txn.client \in Clients /\ phase[txn.client] = "running"
      /\ txn = [ client |-> txn.client, step |-> txn.step, left |-> txn.left, row |-> txn.row,
                 entry |-> txn.entry ]
      /\ OpenPut \/ OpenPost
  BY DEF TxnOpenInv, WriteRow, InsertEntry, InsertSnapshot, InsertItem, Step
<1>2. UNCHANGED vars /\ UNCHANGED <<request, phase>>
  BY DEF WriteRow, InsertEntry, InsertSnapshot, InsertItem, tables, client, vars
<1>3. \E step, left :
        txn' = [ client |-> txn.client, step |-> step, left |-> left, row |-> txn.row,
                 entry |-> txn.entry ]
  <2>1. CASE WriteRow \/ InsertEntry \/ InsertSnapshot
    <3>1. \E step : txn' = [txn EXCEPT !.step = step]
      BY <2>1 DEF WriteRow, InsertEntry, InsertSnapshot
    <3>. QED
      BY <1>1, <3>1
  <2>2. CASE \E key \in Keys : InsertItem(key)
    <3>1. \E left : txn' = [txn EXCEPT !.left = left]
      BY <2>2 DEF InsertItem
    <3>. QED
      BY <1>1, <3>1
  <2>. QED
    BY <2>1, <2>2
<1>4. /\ txn' = [ client |-> txn'.client, step |-> txn'.step, left |-> txn'.left,
                  row |-> txn'.row, entry |-> txn'.entry ]
      /\ txn'.client = txn.client /\ txn'.row = txn.row /\ txn'.entry = txn.entry
  BY <1>3
<1>5. CASE WriteRow \/ InsertEntry
  <2>1. PICK key \in Keys, patch \in Patches, by \in Users : OpenPutOf(key, patch, by)
    BY <1>1, <1>5 DEF WriteRow, InsertEntry, Step, OpenPost, OpenPostOf, OpenPut
  <2>2. /\ Valid(key, patch)' /\ Writes(key, patch)' /\ (Len(history) < MaxHistory)'
        /\ txn'.row = NextRow(key, patch, by)'
        /\ txn'.entry = Entry(key, txn.row, by)'
    BY <1>2, <1>4, <2>1, WriteUndisturbed DEF OpenPutOf, vars, Entry
  <2>3. ASSUME WriteRow PROVE OpenPutOf(key, patch, by)'
    <3>1. /\ txn'.step = "entry"
          /\ work = Tables
          /\ work' = [work EXCEPT !.decisions[txn.entry.key] = txn.row]
      BY <1>1, <2>1, <2>3 DEF WriteRow, Step, OpenPutOf
    <3>2. work' = RowWritten
      BY <3>1 DEF Tables, RowWritten
    <3>3. work' = RowWritten'
      BY <1>2, <1>4, <3>2 DEF vars, RowWritten
    <3>. QED
      BY <1>2, <1>4, <2>1, <2>2, <3>1, <3>3 DEF OpenPutOf
  <2>4. ASSUME InsertEntry PROVE OpenPutOf(key, patch, by)'
    <3>1. /\ txn'.step = "commit"
          /\ work = RowWritten
          /\ work' = [work EXCEPT !.history = Append(@, txn.entry)]
      BY <1>1, <2>1, <2>4 DEF InsertEntry, Step, OpenPutOf
    <3>2. work' = EntryInserted
      BY <3>1 DEF RowWritten, EntryInserted
    <3>3. work' = EntryInserted'
      BY <1>2, <1>4, <3>2 DEF vars, EntryInserted
    <3>. QED
      BY <1>2, <1>4, <2>1, <2>2, <3>1, <3>3 DEF OpenPutOf
  <2>5. OpenPutOf(key, patch, by)'
    BY <1>5, <2>3, <2>4
  <2>. QED
    BY <1>1, <1>2, <1>4, <2>1, <2>5 DEF TxnOpenInv, OpenPut
<1>6. CASE InsertSnapshot
  <2>1. PICK doc \in Docs : OpenPostOf(doc)
    BY <1>1, <1>6 DEF InsertSnapshot, Step, OpenPut, OpenPutOf, OpenPost
  <2>2. /\ work = Tables /\ txn.left = DOMAIN doc.items
        /\ txn'.step = "items" /\ txn'.left = txn.left
        /\ work' = [work EXCEPT !.snapshots =
                      Append(@, [doc EXCEPT !.items = [key \in {} |-> Null]])]
    BY <1>1, <1>6, <2>1 DEF InsertSnapshot, Step, OpenPostOf
  <2>3. [doc EXCEPT !.items = [key \in {} |-> Null]] = Partial(doc, {})
    <3>1. doc = [generatedAt |-> doc.generatedAt, items |-> doc.items]
      BY ConstantsAssumption DEF IsSnapshot
    <3>2. [doc EXCEPT !.items = [key \in {} |-> Null]]
            = [generatedAt |-> doc.generatedAt, items |-> [key \in {} |-> Null]]
      BY <3>1
    <3>3. [key \in {} |-> Null] = [key \in {} |-> doc.items[key]]
      OBVIOUS
    <3>. QED
      BY <3>2, <3>3 DEF Partial
  <2>4. work' = ItemsInserted(doc, DOMAIN doc.items \ txn.left)
    <3>1. DOMAIN doc.items \ txn.left = {}
      BY <2>2
    <3>. QED
      BY <2>2, <2>3, <3>1 DEF Tables, ItemsInserted
  <2>5. OpenPostOf(doc)'
    BY <1>1, <1>2, <1>4, <2>1, <2>2, <2>4 DEF OpenPostOf, StoredAs, ItemsInserted, vars
  <2>. QED
    BY <1>1, <1>2, <1>4, <2>5 DEF TxnOpenInv, OpenPost
<1>7. ASSUME NEW key \in Keys, InsertItem(key)
      PROVE  TxnOpenInv'
  <2>1. PICK doc \in Docs : OpenPostOf(doc)
    BY <1>1, <1>7 DEF InsertItem, Step, OpenPut, OpenPutOf, OpenPost
  <2>. DEFINE kept == DOMAIN doc.items \ txn.left
              n == Len(work.snapshots)
              stored == DOMAIN work.snapshots[n].items \cup {key}
              last == [k \in stored |-> doc.items[k]]
  <2>2. /\ work = ItemsInserted(doc, kept)
        /\ key \in txn.left /\ txn.left \subseteq DOMAIN doc.items
        /\ txn'.step = "items" /\ txn'.left = txn.left \ {key}
        /\ work' = [work EXCEPT !.snapshots[n].items = last]
    BY <1>1, <1>7, <2>1 DEF InsertItem, Step, OpenPostOf
  <2>3. work.snapshots = Append(snapshots, Partial(doc, kept))
    BY <2>2 DEF ItemsInserted
  <2>4. /\ n = Len(snapshots) + 1
        /\ work.snapshots[n] = Partial(doc, kept)
    <3>1. snapshots \in Seq(Docs)
      BY DEF TypeOK
    <3>. DEFINE partial == Partial(doc, kept)
    <3>. HIDE DEF partial
    <3>2. /\ Len(Append(snapshots, partial)) = Len(snapshots) + 1
          /\ Append(snapshots, partial)[Len(snapshots) + 1] = partial
      BY <3>1, LastAppended
    <3>. QED
      BY <2>3, <3>2 DEF partial
  <2>5. stored = DOMAIN doc.items \ txn'.left
    <3>1. DOMAIN Partial(doc, kept).items = kept
      BY DEF Partial
    <3>2. stored = kept \cup {key}
      BY <2>4, <3>1
    <3>. QED
      BY <2>2, <3>2
  <2>. HIDE DEF stored, n
  <2>6. work'.snapshots = [work.snapshots EXCEPT ![n] = [work.snapshots[n] EXCEPT !.items = last]]
    BY <2>2 DEF ItemsInserted
  <2>7. [work.snapshots[n] EXCEPT !.items = last] = Partial(doc, stored)
    BY <2>4, PartialGrows
  <2>8. work'.snapshots = Append(snapshots, Partial(doc, stored))
    <3>1. snapshots \in Seq(Docs)
      BY DEF TypeOK
    <3>2. work'.snapshots = [Append(snapshots, Partial(doc, kept)) EXCEPT
                               ![Len(snapshots) + 1] = Partial(doc, stored)]
      BY <2>3, <2>4, <2>6, <2>7
    <3>. HIDE DEF kept
    <3>. QED
      BY <3>1, <3>2, LastReplaced
  <2>9. work' = ItemsInserted(doc, stored)
    BY <2>2, <2>8 DEF ItemsInserted
  <2>10. OpenPostOf(doc)'
    BY <1>1, <1>2, <1>4, <2>1, <2>2, <2>5, <2>9 DEF OpenPostOf, StoredAs, ItemsInserted, vars
  <2>. QED
    BY <1>1, <1>2, <1>4, <2>10 DEF TxnOpenInv, OpenPost
<1>. QED
  BY <1>5, <1>6, <1>7

LEMMA OpenKept ==
  ASSUME TypeOK, RequestsInv, TxnOpenInv, [TxnNext]_txnVars
  PROVE  TxnOpenInv'
<1>1. ASSUME NEW c \in Clients, Send(c) \/ Deliver(c) \/ LoseAnswer(c)
      PROVE  TxnOpenInv'
  <2>1. txn' = txn /\ work' = work /\ UNCHANGED vars /\ phase[c] # "running"
    BY <1>1 DEF Send, Deliver, LoseAnswer, tables, vars
  <2>2. \A d \in Clients : d # c => request'[d] = request[d] /\ phase'[d] = phase[d]
    BY <1>1 DEF Send, Deliver, LoseAnswer, Forget, RequestsInv
  <2>3. txn # Null => txn.client \in Clients /\ phase[txn.client] = "running"
    BY DEF TxnOpenInv
  <2>. QED
    BY <2>1, <2>2, <2>3, OpenUndisturbed
<1>2. ASSUME NEW c \in Clients, Refuse(c) \/ Skip(c)
      PROVE  TxnOpenInv'
  BY <1>2 DEF Refuse, Skip, Asks, Turn, TxnOpenInv
<1>3. ASSUME NEW c \in Clients, BeginPut(c) \/ BeginPost(c)
      PROVE  TxnOpenInv'
  BY <1>3, BeginPutOpens, BeginPostOpens
<1>4. CASE WriteRow \/ InsertEntry \/ InsertSnapshot \/ \E key \in Keys : InsertItem(key)
  BY <1>4, StatementsAdd
<1>5. CASE CommitTxn \/ StatementFails \/ Crash
  BY <1>5 DEF CommitTxn, StatementFails, Crash, Close, TxnOpenInv
<1>6. CASE TickIdle
  BY <1>6 DEF TickIdle, TxnOpenInv
<1>7. CASE Restart \/ UNCHANGED txnVars
  <2>1. txn' = txn /\ work' = work /\ request' = request /\ phase' = phase /\ UNCHANGED vars
    BY <1>7 DEF Restart, txnVars, tables, client, vars
  <2>. QED
    BY <2>1, OpenUndisturbed
<1>. QED
  BY <1>1, <1>2, <1>3, <1>4, <1>5, <1>6, <1>7 DEF TxnNext, Statement, Accept

-----------------------------------------------------------------------------
(* COMMIT installs what the statements did, and that is one step of        *)
(* DecisionStore; every other step but the clock's leaves the tables alone.*)

LEMMA WholeDocument ==
  ASSUME NEW doc \in Docs
  PROVE  Partial(doc, DOMAIN doc.items) = doc
<1>1. /\ doc = [generatedAt |-> doc.generatedAt, items |-> doc.items]
      /\ doc.items \in [DOMAIN doc.items -> Item]
  BY ConstantsAssumption DEF IsSnapshot
<1>. DEFINE items == doc.items
<1>2. items = [k \in DOMAIN items |-> items[k]]
  BY <1>1
<1>. QED
  BY <1>1, <1>2 DEF Partial

LEMMA CommitImplements ==
  ASSUME TypeOK, RequestsInv, TxnOpenInv, CommitTxn
  PROVE  Next
<1>1. /\ txn # Null /\ Complete /\ clock' = clock
      /\ snapshots' = work.snapshots /\ decisions' = work.decisions /\ history' = work.history
  BY DEF CommitTxn, Install
<1>2. OpenPut \/ OpenPost
  BY <1>1 DEF TxnOpenInv
<1>3. ASSUME NEW key \in Keys, NEW patch \in Patches, NEW by \in Users,
             OpenPutOf(key, patch, by)
      PROVE  Put
  <2>1. work = EntryInserted
    BY <1>1, <1>3 DEF OpenPutOf, Complete
  <2>2. /\ txn.row = NextRow(key, patch, by)
        /\ txn.entry = Entry(key, txn.row, by)
        /\ txn.entry.key = key
    BY <1>3 DEF OpenPutOf, Entry
  <2>3. Commit(key, NextRow(key, patch, by), by)
    BY <1>1, <1>3, <2>1, <2>2 DEF Commit, EntryInserted, OpenPutOf
  <2>4. PutDecision(key, patch, by)
    BY <1>3, <2>3 DEF PutDecision, OpenPutOf
  <2>. QED
    BY <2>4 DEF Put, Patches
<1>4. ASSUME NEW doc \in Docs, OpenPostOf(doc)
      PROVE  Ingest(doc)
  <2>1. work = ItemsInserted(doc, DOMAIN doc.items)
    BY <1>1, <1>4 DEF OpenPostOf, Complete
  <2>2. work = [snapshots |-> Append(snapshots, doc), decisions |-> decisions, history |-> history]
    BY <2>1, WholeDocument DEF ItemsInserted
  <2>3. \A i \in 1..Len(snapshots) : snapshots[i].generatedAt # doc.generatedAt
    BY <1>4 DEF OpenPostOf, StoredAs
  <2>. QED
    BY <1>1, <2>2, <2>3 DEF Ingest
<1>. QED
  BY <1>2, <1>3, <1>4 DEF OpenPut, OpenPost, Next

LEMMA StepImplements ==
  ASSUME TypeOK, RequestsInv, TxnOpenInv, [TxnNext]_txnVars
  PROVE  [Next]_vars
<1>1. ASSUME NEW c \in Clients, Send(c) \/ Accept(c) \/ Deliver(c) \/ LoseAnswer(c)
      PROVE  UNCHANGED vars
  BY <1>1 DEF Send, Accept, Refuse, Skip, BeginPut, BeginPost, Deliver, LoseAnswer, tables, vars
<1>2. CASE WriteRow \/ InsertEntry \/ InsertSnapshot \/ \E key \in Keys : InsertItem(key)
  BY <1>2 DEF WriteRow, InsertEntry, InsertSnapshot, InsertItem, tables, vars
<1>3. CASE CommitTxn
  BY <1>3, CommitImplements
<1>4. CASE StatementFails \/ Crash \/ Restart \/ UNCHANGED txnVars
  BY <1>4 DEF StatementFails, Crash, Restart, txnVars, tables, vars
<1>5. CASE TickIdle
  BY <1>5 DEF TickIdle, Next
<1>. QED
  BY <1>1, <1>2, <1>3, <1>4, <1>5 DEF TxnNext, Statement

LEMMA TxnInvariant == TxnSpec => []TxnInv
<1>1. TxnInit => TxnInv
  <2>1. Init => TypeOK
    BY DEF Init, TypeOK
  <2>2. TxnInit => RequestsInv /\ TxnOpenInv
    BY DEF TxnInit, RequestsInv, TxnOpenInv, Phases
  <2>. QED
    BY <2>1, <2>2 DEF TxnInit, TxnInv
<1>2. TxnInv /\ [TxnNext]_txnVars => TxnInv'
  <2>. SUFFICES ASSUME TxnInv, [TxnNext]_txnVars PROVE TxnInv'
    OBVIOUS
  <2>1. TypeOK'
    BY StepImplements, TypeKept DEF TxnInv
  <2>. QED
    BY <2>1, RequestsKept, OpenKept DEF TxnInv
<1>. QED
  BY <1>1, <1>2, PTL DEF TxnSpec

(* StoreTxn implements DecisionStore: whatever statement fails, whenever   *)
(* the process dies and however the handlers' turns fall, the committed    *)
(* tables move by whole writes of putDecision and ingest only.             *)
THEOREM Implements == TxnSpec => Atomic
<1>1. TxnInit => Init
  BY DEF TxnInit
<1>2. TxnInv /\ [TxnNext]_txnVars => [Next]_vars
  BY StepImplements DEF TxnInv
<1>. QED
  BY <1>1, <1>2, TxnInvariant, PTL DEF TxnSpec, Atomic, Spec

-----------------------------------------------------------------------------
(* What follows for the store under failures and restarts. *)

LEMMA StoredOnceKept ==
  ASSUME TypeOK, StoredOnce, [Next]_vars
  PROVE  StoredOnce'
<1>1. CASE snapshots' = snapshots
  BY <1>1 DEF StoredOnce
<1>2. ASSUME NEW doc \in Docs, Ingest(doc) PROVE StoredOnce'
  <2>1. /\ Len(snapshots') = Len(snapshots) + 1 /\ Len(snapshots) \in Nat
        /\ snapshots'[Len(snapshots) + 1] = doc
        /\ \A i \in 1..Len(snapshots) : snapshots'[i] = snapshots[i]
    BY <1>2 DEF Ingest, TypeOK
  <2>2. \A i \in 1..Len(snapshots) : snapshots[i].generatedAt # doc.generatedAt
    BY <1>2 DEF Ingest
  <2>3. SUFFICES ASSUME NEW i \in 1..Len(snapshots'), NEW j \in 1..Len(snapshots'),
                        snapshots'[i].generatedAt = snapshots'[j].generatedAt
                 PROVE  i = j
    BY DEF StoredOnce
  <2>4. CASE i \in 1..Len(snapshots) /\ j \in 1..Len(snapshots)
    BY <2>1, <2>3, <2>4 DEF StoredOnce
  <2>5. CASE i \notin 1..Len(snapshots) \/ j \notin 1..Len(snapshots)
    BY <2>1, <2>2, <2>3, <2>5
  <2>. QED
    BY <2>4, <2>5
<1>3. CASE Put \/ Tick \/ UNCHANGED vars
  BY <1>1, <1>3 DEF Put, PutDecision, Commit, Tick, vars
<1>. QED
  BY <1>2, <1>3 DEF Next

(* POST /api/ingest stores a document once, whatever was posted again,     *)
(* failed half-way, or was lost on the way back.                           *)
THEOREM StoredOnceHolds == TxnSpec => []StoredOnce
<1>1. Init => StoredOnce
  BY DEF Init, StoredOnce
<1>2. TypeOK /\ StoredOnce /\ [Next]_vars => StoredOnce'
  BY StoredOnceKept
<1>. QED
  BY <1>1, <1>2, Implements, TypeCorrect, PTL DEF Atomic, Spec

(* The audit trail can be replayed after any failure or restart too: no    *)
(* row is written without its entry.                                       *)
THEOREM AuditSurvivesFailures == TxnSpec => []AuditChain
BY Implements, AuditChainHolds, PTL DEF Atomic

-----------------------------------------------------------------------------
(* Answers. *)

AnswerTrue(a) ==
  /\ a.kind = "post" =>
       /\ a.id \in 1..Len(snapshots)
       /\ snapshots[a.id].generatedAt = a.generatedAt
       /\ Cardinality(DOMAIN snapshots[a.id].items) = a.items
  /\ a.kind = "put" /\ a.wrote =>
       \E i \in 1..Len(history) : history[i].key = a.key /\ history[i].after = a.row

AnswersInv ==
  /\ answer = [c \in Clients |-> answer[c]]
  /\ \A a \in receipts : AnswerTrue(a)
  /\ \A c \in Clients : answer[c] # Null => AnswerTrue(answer[c])

(* Snapshots and audit entries are only ever added. *)
LEMMA TablesGrow ==
  ASSUME TypeOK, [Next]_vars
  PROVE  /\ Len(snapshots) \in Nat /\ Len(snapshots') \in Nat /\ Len(snapshots) <= Len(snapshots')
         /\ \A i \in 1..Len(snapshots) : snapshots'[i] = snapshots[i]
         /\ Len(history) \in Nat /\ Len(history') \in Nat /\ Len(history) <= Len(history')
         /\ \A i \in 1..Len(history) : history'[i] = history[i]
<1>1. CASE Put
  <2>1. PICK key \in Keys, after \in Row \cup {Null}, by \in Users : Commit(key, after, by)
    BY <1>1, PutCommits
  <2>. QED
    BY <2>1, CommitAppends DEF TypeOK, Commit
<1>2. ASSUME NEW doc \in Docs, Ingest(doc)
      PROVE  /\ Len(snapshots') = Len(snapshots) + 1
             /\ \A i \in 1..Len(snapshots) : snapshots'[i] = snapshots[i]
             /\ history' = history
  BY <1>2 DEF TypeOK, Ingest
<1>3. CASE Tick \/ UNCHANGED vars
  BY <1>3 DEF TypeOK, Tick, vars
<1>. QED
  BY <1>1, <1>2, <1>3 DEF TypeOK, Next

LEMMA AnswersStayTrue ==
  ASSUME TypeOK, [Next]_vars, NEW a, AnswerTrue(a)
  PROVE  AnswerTrue(a)'
<1>1. ASSUME a.kind = "post"
      PROVE  /\ a.id \in 1..Len(snapshots')
             /\ snapshots'[a.id].generatedAt = a.generatedAt
             /\ Cardinality(DOMAIN snapshots'[a.id].items) = a.items
  <2>1. a.id \in 1..Len(snapshots) /\ snapshots'[a.id] = snapshots[a.id]
    BY <1>1, TablesGrow DEF AnswerTrue
  <2>. QED
    BY <1>1, <2>1, TablesGrow DEF AnswerTrue
<1>2. ASSUME a.kind = "put", a.wrote
      PROVE  \E i \in 1..Len(history') : history'[i].key = a.key /\ history'[i].after = a.row
  <2>1. PICK i \in 1..Len(history) : history[i].key = a.key /\ history[i].after = a.row
    BY <1>2 DEF AnswerTrue
  <2>2. i \in 1..Len(history') /\ history'[i] = history[i]
    BY TablesGrow
  <2>. QED
    BY <2>1, <2>2
<1>. QED
  BY <1>1, <1>2 DEF AnswerTrue

(* A handler that answers what holds keeps every answer true. *)
LEMMA TrueAnswerGiven ==
  ASSUME TypeOK, [Next]_vars, AnswersInv, NEW c \in Clients, NEW result,
         Finish(c, result), receipts' = receipts,
         result # Null => AnswerTrue(result)'
  PROVE  AnswersInv'
<1>1. answer' = [d \in Clients |-> IF d = c THEN result ELSE answer[d]]
  BY DEF Finish, AnswersInv
<1>2. \A a \in receipts' : AnswerTrue(a)'
  BY AnswersStayTrue DEF AnswersInv
<1>3. ASSUME NEW d \in Clients, d # c, answer[d] # Null
      PROVE  AnswerTrue(answer[d])'
  <2>1. PICK a : a = answer[d]
    OBVIOUS
  <2>2. AnswerTrue(a)'
    BY <1>3, <2>1, AnswersStayTrue DEF AnswersInv
  <2>. QED
    BY <1>1, <1>3, <2>1, <2>2
<1>. QED
  BY <1>1, <1>2, <1>3 DEF AnswersInv

(* The answer CommitTxn gives is true of the tables it installs. *)
LEMMA CommitAnswersTrue ==
  ASSUME TypeOK, RequestsInv, TxnOpenInv, AnswersInv, CommitTxn
  PROVE  AnswersInv'
<1>1. /\ txn # Null /\ Complete
      /\ snapshots' = work.snapshots /\ decisions' = work.decisions /\ history' = work.history
      /\ receipts' = receipts
  BY DEF CommitTxn, Install
<1>2. /\ txn.client \in Clients
      /\ OpenPut \/ OpenPost
  BY <1>1 DEF TxnOpenInv
<1>3. [Next]_vars
  BY CommitImplements
<1>4. ASSUME NEW key \in Keys, NEW patch \in Patches, NEW by \in Users,
             OpenPutOf(key, patch, by)
      PROVE  AnswersInv'
  <2>. DEFINE result == Decided(key, txn.row, TRUE)
  <2>1. /\ request[txn.client].kind = "put" /\ request[txn.client].key = key
        /\ txn.entry.key = key /\ txn.entry.after = txn.row
    BY <1>4 DEF OpenPutOf, Entry
  <2>2. Finish(txn.client, result)
    BY <2>1 DEF CommitTxn, Close
  <2>3. history' = Append(history, txn.entry)
    BY <1>1, <1>4 DEF OpenPutOf, Complete, EntryInserted
  <2>4. Len(history) + 1 \in 1..Len(history') /\ history'[Len(history) + 1] = txn.entry
    BY <2>3 DEF TypeOK
  <2>5. /\ result.kind = "put" /\ result.key = key /\ result.row = txn.row
    BY DEF Decided
  <2>. HIDE DEF result
  <2>6. PICK a : a = result
    OBVIOUS
  <2>7. AnswerTrue(a)'
    BY <2>1, <2>4, <2>5, <2>6 DEF AnswerTrue
  <2>. QED
    BY <1>1, <1>2, <1>3, <2>2, <2>6, <2>7, TrueAnswerGiven
<1>5. ASSUME NEW doc \in Docs, OpenPostOf(doc)
      PROVE  AnswersInv'
  <2>. DEFINE result == Posted(Len(work.snapshots), Cardinality(DOMAIN doc.items), doc, TRUE)
  <2>1. /\ request[txn.client].kind = "post" /\ request[txn.client].doc = doc
    BY <1>5 DEF OpenPostOf
  <2>2. Finish(txn.client, result)
    BY <2>1 DEF CommitTxn, Close
  <2>3. work = ItemsInserted(doc, DOMAIN doc.items)
    BY <1>1, <1>5 DEF OpenPostOf, Complete
  <2>4. snapshots' = Append(snapshots, doc)
    BY <1>1, <2>3, WholeDocument DEF ItemsInserted
  <2>5. /\ Len(snapshots') \in 1..Len(snapshots') /\ snapshots'[Len(snapshots')] = doc
    BY <2>4 DEF TypeOK
  <2>6. /\ result.kind = "post" /\ result.id = Len(snapshots')
        /\ result.items = Cardinality(DOMAIN doc.items)
        /\ result.generatedAt = doc.generatedAt
    BY <1>1 DEF Posted
  <2>. HIDE DEF result
  <2>7. PICK a : a = result
    OBVIOUS
  <2>8. AnswerTrue(a)'
    BY <2>5, <2>6, <2>7 DEF AnswerTrue
  <2>. QED
    BY <1>1, <1>2, <1>3, <2>2, <2>7, <2>8, TrueAnswerGiven
<1>. QED
  BY <1>2, <1>4, <1>5 DEF OpenPut, OpenPost

LEMMA AnswersKept ==
  ASSUME TypeOK, RequestsInv, TxnOpenInv, AnswersInv, [TxnNext]_txnVars
  PROVE  AnswersInv'
<1>. USE StepImplements
<1>1. ASSUME answer' = answer, receipts' = receipts PROVE AnswersInv'
  <2>1. \A a \in receipts : AnswerTrue(a)'
    BY AnswersStayTrue DEF AnswersInv
  <2>2. ASSUME NEW c \in Clients, answer[c] # Null PROVE AnswerTrue(answer[c])'
    <3>1. PICK a : a = answer[c]
      OBVIOUS
    <3>2. AnswerTrue(a)'
      BY <2>2, <3>1, AnswersStayTrue DEF AnswersInv
    <3>. QED
      BY <1>1, <3>1, <3>2
  <2>. QED
    BY <1>1, <2>1, <2>2 DEF AnswersInv
<1>2. ASSUME NEW c \in Clients, Deliver(c) \/ LoseAnswer(c) PROVE AnswersInv'
  <2>1. /\ answer' = [d \in Clients |-> IF d = c THEN Null ELSE answer[d]]
        /\ \A a \in receipts' : a \in receipts \/ (a = answer[c] /\ a # Null)
    BY <1>2 DEF Deliver, LoseAnswer, Forget, AnswersInv
  <2>2. \A a \in receipts' : AnswerTrue(a)'
    BY <2>1, AnswersStayTrue DEF AnswersInv
  <2>3. ASSUME NEW d \in Clients, answer'[d] # Null PROVE AnswerTrue(answer[d])'
    <3>1. PICK a : a = answer[d]
      OBVIOUS
    <3>2. answer'[d] = a /\ answer[d] # Null
      BY <2>1, <2>3, <3>1
    <3>3. AnswerTrue(a)'
      BY <3>1, <3>2, AnswersStayTrue DEF AnswersInv
    <3>. QED
      BY <3>2, <3>3
  <2>. QED
    BY <2>1, <2>2, <2>3 DEF AnswersInv
<1>3. ASSUME NEW c \in Clients, Refuse(c) PROVE AnswersInv'
  BY <1>3, TrueAnswerGiven DEF Refuse
<1>4. ASSUME NEW c \in Clients, Skip(c) PROVE AnswersInv'
  <2>1. \E result : Finish(c, result) /\ AnswerTrue(result)'
    <3>1. UNCHANGED <<snapshots, history>>
      BY <1>4 DEF Skip, tables
    <3>2. CASE Finish(c, Decided(request[c].key, Null, FALSE))
      <4>1. PICK a : a = Decided(request[c].key, Null, FALSE)
        OBVIOUS
      <4>2. AnswerTrue(a)'
        BY <4>1 DEF AnswerTrue, Decided
      <4>. QED
        BY <3>2, <4>1, <4>2
    <3>3. ASSUME NEW id \in StoredAs(request[c].doc),
                 Finish(c, Posted(id, Cardinality(DOMAIN snapshots[id].items), request[c].doc, FALSE))
          PROVE  \E result : Finish(c, result) /\ AnswerTrue(result)'
      <4>1. PICK a : a = Posted(id, Cardinality(DOMAIN snapshots[id].items), request[c].doc, FALSE)
        OBVIOUS
      <4>2. AnswerTrue(a)'
        BY <3>1, <3>3, <4>1 DEF AnswerTrue, Posted, StoredAs
      <4>. QED
        BY <3>3, <4>1, <4>2
    <3>. QED
      BY <1>4, <3>2, <3>3 DEF Skip
  <2>. QED
    BY <1>4, <2>1, TrueAnswerGiven DEF Skip
<1>5. CASE CommitTxn
  BY <1>5, CommitAnswersTrue
<1>6. CASE StatementFails
  <2>1. txn.client \in Clients /\ Finish(txn.client, Null) /\ receipts' = receipts
    BY <1>6 DEF StatementFails, Close, TxnOpenInv
  <2>. QED
    BY <2>1, TrueAnswerGiven
<1>7. CASE Crash
  <2>1. \A a \in receipts : AnswerTrue(a)'
    BY AnswersStayTrue DEF AnswersInv
  <2>. QED
    BY <1>7, <2>1 DEF Crash, AnswersInv
<1>8. ASSUME NEW c \in Clients, Send(c) \/ BeginPut(c) \/ BeginPost(c) PROVE AnswersInv'
  BY <1>1, <1>8 DEF Send, BeginPut, BeginPost
<1>9. CASE \/ WriteRow \/ InsertEntry \/ InsertSnapshot \/ \E key \in Keys : InsertItem(key)
           \/ Restart \/ TickIdle \/ UNCHANGED txnVars
  BY <1>1, <1>9 DEF WriteRow, InsertEntry, InsertSnapshot, InsertItem, Restart, TickIdle, txnVars,
                    client
<1>. QED
  BY <1>2, <1>3, <1>4, <1>5, <1>6, <1>7, <1>8, <1>9 DEF TxnNext, Statement, Accept

(* A 200 is kept: what an answer said of a snapshot or of a recorded       *)
(* decision stays true through every later failure, restart and retry.     *)
THEOREM AnswersHoldAlways == TxnSpec => []AnswersHold
<1>1. TxnInit => AnswersInv
  BY DEF TxnInit, AnswersInv
<1>2. TxnInv /\ AnswersInv /\ [TxnNext]_txnVars => AnswersInv'
  BY AnswersKept DEF TxnInv
<1>3. AnswersInv => AnswersHold
  BY DEF AnswersInv, AnswerTrue, AnswersHold
<1>. QED
  BY <1>1, <1>2, <1>3, TxnInvariant, PTL DEF TxnSpec
-----------------------------------------------------------------------------
(* The state of a request and of the one transaction. *)

Busy(c) == IF phase[c] = "idle" THEN 0 ELSE 1

(* What a client waits for, in step with its request, its answer and the   *)
(* transaction.                                                            *)
WaitingInv ==
  /\ answer = [c \in Clients |-> answer[c]]
  /\ \A c \in Clients :
       /\ request[c] = Null <=> phase[c] = "idle"
       /\ answer[c] # Null => phase[c] = "done"
       /\ phase[c] = "running" => txn # Null /\ txn.client = c
  /\ txn \in Txn \cup {Null}
  /\ txn = Null => work = Null
  /\ txn # Null => up
  /\ up \in BOOLEAN

(* Each request a client sent is with the server, was answered or was      *)
(* dropped, once.                                                          *)
SentInv ==
  /\ told \in [Clients -> Nat] /\ untold \in [Clients -> Nat]
  /\ sent \in 0..MaxRequests /\ failures \in 0..MaxFailures
  /\ \A c \in Clients : told[c] + untold[c] + Busy(c) <= sent

(* The tables of an open transaction are tables, and it is one of those    *)
(* the two handlers open.                                                  *)
LEMMA OpenTypes ==
  ASSUME TypeOK, RequestsInv, TxnOpenInv, txn # Null
  PROVE  txn.client \in Clients /\ TablesOK(work)
<1>1. txn.client \in Clients /\ (OpenPut \/ OpenPost)
  BY DEF TxnOpenInv
<1>2. \A i \in 1..Len(snapshots) : IsSnapshot(snapshots[i])
  BY ConstantsAssumption DEF TypeOK
<1>3. ASSUME NEW key \in Keys, NEW patch \in Patches, NEW by \in Users,
             OpenPutOf(key, patch, by)
      PROVE  TablesOK(work)
  <2>1. patch \in AnyPatches
    BY DEF Patches, AnyPatches, RemindPatches, Reminders
  <2>2. txn.row \in Row \cup {Null} /\ txn.entry = Entry(key, txn.row, by)
    BY <1>3, <2>1, NextRowType DEF OpenPutOf
  <2>3. txn.entry \in HistoryEntry /\ txn.entry.key = key
    BY <2>2 DEF Entry, HistoryEntry, TypeOK
  <2>4. [decisions EXCEPT ![key] = txn.row] \in [Keys -> Row \cup {Null}]
    BY <2>2 DEF TypeOK
  <2>5. Append(history, txn.entry) \in Seq(HistoryEntry)
    BY <2>3 DEF TypeOK
  <2>6. work.snapshots = snapshots
    BY <1>3 DEF OpenPutOf, Tables, RowWritten, EntryInserted
  <2>7. work.decisions \in [Keys -> Row \cup {Null}] /\ work.history \in Seq(HistoryEntry)
    <3>1. CASE work = Tables
      BY <3>1 DEF Tables, TypeOK
    <3>2. CASE work = RowWritten
      BY <2>3, <2>4, <3>2 DEF RowWritten, TypeOK
    <3>3. CASE work = EntryInserted
      BY <2>3, <2>4, <2>5, <3>3 DEF EntryInserted
    <3>. QED
      BY <1>3, <3>1, <3>2, <3>3 DEF OpenPutOf
  <2>. QED
    BY <1>2, <2>6, <2>7 DEF TablesOK
<1>4. ASSUME NEW doc \in Docs, OpenPostOf(doc)
      PROVE  TablesOK(work)
  <2>1. work.decisions = decisions /\ work.history = history
    BY <1>4 DEF OpenPostOf, Tables, ItemsInserted
  <2>2. ASSUME NEW keys, keys \subseteq DOMAIN doc.items
        PROVE  IsSnapshot(Partial(doc, keys))
    <3>1. IsSnapshot(doc)
      BY ConstantsAssumption
    <3>2. PICK part : part = [k \in keys |-> doc.items[k]]
      OBVIOUS
    <3>3. DOMAIN part = keys /\ part \in [keys -> Item] /\ keys \subseteq Keys
      BY <2>2, <3>1, <3>2 DEF IsSnapshot
    <3>4. Partial(doc, keys) = [generatedAt |-> doc.generatedAt, items |-> part]
      BY <3>2 DEF Partial
    <3>. QED
      BY <3>1, <3>3, <3>4 DEF IsSnapshot
  <2>3. CASE work = Tables
    BY <1>2, <2>1, <2>3 DEF Tables, TablesOK, TypeOK
  <2>4. ASSUME NEW keys, keys \subseteq DOMAIN doc.items, work = ItemsInserted(doc, keys)
        PROVE  TablesOK(work)
    <3>1. PICK part : part = Partial(doc, keys)
      OBVIOUS
    <3>2. work.snapshots = Append(snapshots, part) /\ IsSnapshot(part)
      BY <2>2, <2>4, <3>1 DEF ItemsInserted
    <3>3. \A i \in 1..Len(Append(snapshots, part)) : IsSnapshot(Append(snapshots, part)[i])
      BY <1>2, <3>2 DEF TypeOK
    <3>. QED
      BY <2>1, <3>2, <3>3 DEF TablesOK, TypeOK
  <2>. QED
    BY <1>4, <2>3, <2>4 DEF OpenPostOf
<1>. QED
  BY <1>1, <1>3, <1>4 DEF OpenPut, OpenPost

LEMMA WaitingKept ==
  ASSUME TypeOK, RequestsInv, TxnOpenInv, WaitingInv, [TxnNext]_txnVars
  PROVE  WaitingInv'
<1>. USE RecordsAssumption
<1>1. ASSUME NEW c \in Clients, Send(c) PROVE WaitingInv'
  <2>1. PICK r \in Requests(c) : request' = [request EXCEPT ![c] = r]
    BY <1>1 DEF Send
  <2>2. r # Null
    BY <2>1 DEF Requests, Clients
  <2>. QED
    BY <1>1, <2>1, <2>2 DEF Send, WaitingInv, RequestsInv
<1>2. ASSUME NEW c \in Clients, Deliver(c) \/ LoseAnswer(c) PROVE WaitingInv'
  BY <1>2 DEF Deliver, LoseAnswer, Forget, WaitingInv, RequestsInv
<1>3. ASSUME NEW c \in Clients, NEW result, Finish(c, result),
             UNCHANGED <<request, up>>, phase[c] # "idle",
             txn # Null => txn.client = c, txn' = Null, work' = Null
      PROVE  WaitingInv'
  BY <1>3 DEF Finish, WaitingInv, RequestsInv
<1>4. ASSUME NEW c \in Clients, Refuse(c) \/ Skip(c) PROVE WaitingInv'
  <2>1. /\ \E result : Finish(c, result)
        /\ txn = Null /\ phase[c] = "sent" /\ UNCHANGED <<request, txn, work, up>>
    BY <1>4 DEF Refuse, Skip, Asks, Turn
  <2>. QED
    BY <1>3, <2>1 DEF WaitingInv
<1>5. ASSUME NEW c \in Clients, BeginPut(c) PROVE WaitingInv'
  <2>1. PICK key, patch : key = request[c].key /\ patch = request[c].patch
    OBVIOUS
  <2>2. phase[c] = "sent" /\ request[c].kind = "put" /\ txn = Null /\ up
    BY <1>5 DEF BeginPut, Asks, Turn
  <2>3. c \in Users /\ key \in Keys /\ patch \in Patches
    BY <2>1, <2>2, RequestTypes
  <2>4. patch \in AnyPatches /\ Valid(key, patch)
    BY <1>5, <2>1, <2>3 DEF BeginPut, Patches, AnyPatches, RemindPatches, Reminders
  <2>5. PICK row : row = NextRow(key, patch, c)
    OBVIOUS
  <2>6. row \in Row \cup {Null}
    BY <2>3, <2>4, <2>5, NextRowType
  <2>7. Entry(key, row, c) \in HistoryEntry
    BY <2>3, <2>6 DEF Entry, HistoryEntry, TypeOK
  <2>8. /\ txn' = [ client |-> c, step |-> "row", left |-> {}, row |-> row,
                    entry |-> Entry(key, row, c) ]
        /\ phase' = [phase EXCEPT ![c] = "running"]
        /\ UNCHANGED <<request, answer, up>>
    BY <1>5, <2>1, <2>5 DEF BeginPut
  <2>9. txn' \in Txn /\ txn'.client = c
    BY <2>6, <2>7, <2>8 DEF Txn
  <2>. QED
    BY <2>2, <2>8, <2>9 DEF WaitingInv, RequestsInv
<1>6. ASSUME NEW c \in Clients, BeginPost(c) PROVE WaitingInv'
  <2>1. phase[c] = "sent" /\ request[c].kind = "post" /\ txn = Null /\ up
    BY <1>6 DEF BeginPost, Asks, Turn
  <2>2. PICK left : left = DOMAIN request[c].doc.items
    OBVIOUS
  <2>3. left \subseteq Keys
    BY <2>1, <2>2, RequestTypes, ConstantsAssumption DEF IsSnapshot
  <2>4. /\ txn' = [ client |-> c, step |-> "snapshot", left |-> left, row |-> Null,
                    entry |-> Null ]
        /\ phase' = [phase EXCEPT ![c] = "running"]
        /\ UNCHANGED <<request, answer, up>>
    BY <1>6, <2>2 DEF BeginPost
  <2>5. txn' \in Txn /\ txn'.client = c
    BY <2>3, <2>4 DEF Txn
  <2>. QED
    BY <2>1, <2>4, <2>5 DEF WaitingInv, RequestsInv
<1>7. CASE WriteRow \/ InsertEntry \/ InsertSnapshot \/ \E key \in Keys : InsertItem(key)
  <2>1. /\ txn # Null /\ txn \in Txn /\ up /\ UNCHANGED <<request, phase, answer, up>>
    BY <1>7 DEF WriteRow, InsertEntry, InsertSnapshot, InsertItem, Step, client, WaitingInv
  <2>2. \/ \E step \in {"entry", "commit", "items"} : txn' = [txn EXCEPT !.step = step]
        \/ \E key : txn' = [txn EXCEPT !.left = txn.left \ {key}]
    BY <1>7 DEF WriteRow, InsertEntry, InsertSnapshot, InsertItem
  <2>3. txn' \in Txn /\ txn'.client = txn.client
    BY <2>1, <2>2 DEF Txn
  <2>. QED
    BY <2>1, <2>3 DEF WaitingInv
<1>8. CASE CommitTxn \/ StatementFails
  <2>1. /\ txn # Null /\ \E result : Finish(txn.client, result)
        /\ txn' = Null /\ work' = Null /\ UNCHANGED <<request, up>>
    BY <1>8 DEF CommitTxn, StatementFails, Close
  <2>2. txn.client \in Clients /\ phase[txn.client] = "running"
    BY <2>1 DEF TxnOpenInv
  <2>. QED
    BY <1>3, <2>1, <2>2
<1>9. CASE Crash
  BY <1>9 DEF Crash, WaitingInv
<1>10. CASE Restart \/ TickIdle \/ UNCHANGED txnVars
  BY <1>10 DEF Restart, TickIdle, txnVars, client, WaitingInv
<1>. QED
  BY <1>1, <1>2, <1>4, <1>5, <1>6, <1>7, <1>8, <1>9, <1>10 DEF TxnNext, Statement, Accept

LEMMA SentKept ==
  ASSUME RequestsInv, TxnOpenInv, WaitingInv, SentInv, [TxnNext]_txnVars
  PROVE  SentInv'
<1>1. ASSUME NEW c \in Clients, Send(c) PROVE SentInv'
  BY <1>1, ClientsAssumption DEF Send, SentInv, Busy, RequestsInv
<1>2. ASSUME NEW c \in Clients, Deliver(c) PROVE SentInv'
  <2>1. told' = told \/ told' = [told EXCEPT ![c] = told[c] + 1]
    BY <1>2 DEF Deliver
  <2>2. phase[c] # "idle" /\ phase' = [phase EXCEPT ![c] = "idle"]
        /\ UNCHANGED <<untold, sent, failures>>
    BY <1>2 DEF Deliver, Forget
  <2>. QED
    BY <2>1, <2>2 DEF SentInv, Busy, RequestsInv
<1>3. ASSUME NEW c \in Clients, LoseAnswer(c) PROVE SentInv'
  BY <1>3, ClientsAssumption DEF LoseAnswer, Forget, SentInv, Busy, RequestsInv
<1>4. ASSUME UNCHANGED <<told, untold, sent>>, failures' \in 0..MaxFailures,
             \A c \in Clients : Busy(c)' = Busy(c)
      PROVE  SentInv'
  BY <1>4 DEF SentInv
<1>5. ASSUME NEW c \in Clients, Accept(c) PROVE SentInv'
  <2>1. /\ phase[c] = "sent" /\ UNCHANGED <<told, untold, sent, failures>>
        /\ \E p \in {"failed", "done", "running"} : phase' = [phase EXCEPT ![c] = p]
    BY <1>5 DEF Accept, Refuse, Skip, BeginPut, BeginPost, Asks, Turn, Finish
  <2>. QED
    BY <1>4, <2>1 DEF Busy, RequestsInv, SentInv
<1>6. CASE CommitTxn \/ StatementFails
  <2>1. /\ txn # Null /\ UNCHANGED <<told, untold, sent>>
        /\ failures' = failures \/ (failures < MaxFailures /\ failures' = failures + 1)
        /\ \E p \in {"failed", "done"} : phase' = [phase EXCEPT ![txn.client] = p]
    BY <1>6 DEF CommitTxn, StatementFails, Close, Finish
  <2>2. txn.client \in Clients /\ phase[txn.client] = "running"
    BY <2>1 DEF TxnOpenInv
  <2>3. failures' \in 0..MaxFailures
    BY <2>1, ClientsAssumption DEF SentInv
  <2>. QED
    BY <1>4, <2>1, <2>2, <2>3 DEF Busy, RequestsInv
<1>7. CASE Crash
  BY <1>7, ClientsAssumption DEF Crash, SentInv, Busy
<1>8. CASE \/ WriteRow \/ InsertEntry \/ InsertSnapshot \/ \E key \in Keys : InsertItem(key)
           \/ Restart \/ TickIdle \/ UNCHANGED txnVars
  <2>1. UNCHANGED <<told, untold, sent, failures, phase>>
    BY <1>8 DEF WriteRow, InsertEntry, InsertSnapshot, InsertItem, Restart, TickIdle, txnVars, client
  <2>. QED
    BY <1>4, <2>1 DEF Busy, SentInv
<1>. QED
  BY <1>1, <1>2, <1>3, <1>5, <1>6, <1>7, <1>8 DEF TxnNext, Statement

LEMMA WaitingInvariant == TxnSpec => [](WaitingInv /\ SentInv)
<1>1. TxnInit => WaitingInv /\ SentInv
  BY ClientsAssumption DEF TxnInit, WaitingInv, SentInv, Busy
<1>2. TxnInv /\ WaitingInv /\ SentInv /\ [TxnNext]_txnVars => WaitingInv' /\ SentInv'
  BY WaitingKept, SentKept DEF TxnInv
<1>. QED
  BY <1>1, <1>2, TxnInvariant, PTL DEF TxnSpec

(* Handlers, transaction and process stay in step through every failure:   *)
(* exactly the client of the open transaction is being served, a process   *)
(* that is down has none, and what it has done so far are tables.          *)
THEOREM TxnTypeCorrect == TxnSpec => []TxnTypeOK
<1>1. TxnInv /\ WaitingInv /\ SentInv => TxnTypeOK
  <2>. SUFFICES ASSUME TxnInv, WaitingInv, SentInv PROVE TxnTypeOK
    OBVIOUS
  <2>1. TypeOK /\ RequestsInv /\ TxnOpenInv
    BY DEF TxnInv
  <2>2. txn # Null => TablesOK(work) /\ phase[txn.client] = "running"
    BY <2>1, OpenTypes DEF TxnOpenInv
  <2>3. told \in [Clients -> 0..MaxRequests] /\ untold \in [Clients -> 0..MaxRequests]
    <3>1. ASSUME NEW c \in Clients
          PROVE  told[c] \in 0..MaxRequests /\ untold[c] \in 0..MaxRequests
      BY ClientsAssumption DEF SentInv, Busy
    <3>. QED
      BY <3>1 DEF SentInv
  <2>. QED
    BY <2>1, <2>2, <2>3 DEF TxnTypeOK, WaitingInv, SentInv, RequestsInv
<1>. QED
  BY <1>1, TxnInvariant, WaitingInvariant, PTL

-----------------------------------------------------------------------------
(* What the audit trail says of a user, and what that user knows.          *)

EntriesOf(log, user) == {i \in 1..Len(log) : log[i].by = user}

LEMMA EntriesAppended ==
  ASSUME NEW S, NEW log \in Seq(S), NEW entry, NEW user
  PROVE  /\ Cardinality(EntriesOf(log, user)) \in Nat
         /\ Cardinality(EntriesOf(Append(log, entry), user))
              = Cardinality(EntriesOf(log, user)) + IF entry.by = user THEN 1 ELSE 0
<1>. DEFINE n == Len(log)
            longer == Append(log, entry)
<1>1. /\ n \in Nat /\ Len(longer) = n + 1 /\ longer[n + 1] = entry
      /\ \A i \in 1..n : longer[i] = log[i]
  OBVIOUS
<1>2. IsFiniteSet(1..n)
  <2>. HIDE DEF n, longer
  <2>1. 1 \in Int /\ n \in Int
    BY <1>1
  <2>. QED
    BY <2>1, FS_Interval
<1>3. IsFiniteSet(EntriesOf(log, user))
  BY <1>2, FS_Subset DEF EntriesOf
<1>4. Cardinality(EntriesOf(log, user)) \in Nat
  BY <1>3, FS_CardinalityType
<1>. HIDE DEF longer
<1>5. CASE entry.by = user
  <2>1. EntriesOf(longer, user) = EntriesOf(log, user) \cup {n + 1}
    BY <1>1, <1>5 DEF EntriesOf
  <2>2. n + 1 \notin EntriesOf(log, user)
    BY <1>1 DEF EntriesOf
  <2>. QED
    BY <1>3, <1>4, <1>5, <2>1, <2>2, FS_AddElement DEF longer
<1>6. CASE entry.by # user
  <2>1. EntriesOf(longer, user) = EntriesOf(log, user)
    BY <1>1, <1>6 DEF EntriesOf
  <2>. QED
    BY <1>4, <1>6, <2>1 DEF longer
<1>. QED
  BY <1>5, <1>6

(* A user posts no snapshot, and the publisher decides nothing.            *)
LEMMA PostsByPublisher ==
  ASSUME RequestsInv, NEW c \in Clients, phase[c] # "idle", request[c].kind = "post"
  PROVE  c \notin Users
<1>1. request[c] \in Requests(c)
  BY DEF RequestsInv
<1>2. ASSUME c \in Users PROVE FALSE
  <2>1. request[c] \in PutRequest
    BY <1>1, <1>2 DEF Requests
  <2>. QED
    BY <2>1 DEF PutRequest
<1>. QED
  BY <1>2

LEMMA AuditCountsKept ==
  ASSUME TypeOK, RequestsInv, TxnOpenInv, WaitingInv, SentInv, AuditCountsWrites,
         [TxnNext]_txnVars
  PROVE  AuditCountsWrites'
<1>1. ASSUME NEW user \in Users
      PROVE  /\ user \in Clients /\ EntriesBy(user) \in Nat
             /\ EntriesBy(user) = Cardinality(EntriesOf(history, user))
             /\ told[user] \in Nat /\ untold[user] \in Nat
             /\ told[user] + Unread(user) <= EntriesBy(user)
             /\ EntriesBy(user) <= told[user] + Unread(user) + untold[user]
  <2>1. EntriesBy(user) = Cardinality(EntriesOf(history, user))
    BY DEF EntriesBy, EntriesOf
  <2>2. EntriesBy(user) \in Nat
    BY <2>1, EntriesAppended DEF TypeOK
  <2>3. user \in Clients /\ told[user] \in Nat /\ untold[user] \in Nat
    BY DEF Clients, SentInv
  <2>. QED
    BY <2>1, <2>2, <2>3 DEF AuditCountsWrites, Unread
(* What a user knows of may shrink by an answer that is counted as lost.   *)
<1>2. ASSUME history' = history,
             \A user \in Users :
               /\ told'[user] \in Nat /\ untold'[user] \in Nat
               /\ told'[user] + Unread(user)' <= told[user] + Unread(user)
               /\ told[user] + Unread(user) + untold[user]
                    <= told'[user] + Unread(user)' + untold'[user]
      PROVE  AuditCountsWrites'
  <2>1. ASSUME NEW user \in Users
        PROVE  /\ told'[user] + Unread(user)' <= EntriesBy(user)'
               /\ EntriesBy(user)' <= told'[user] + Unread(user)' + untold'[user]
               /\ EntriesBy(user)' \in Int
    <3>1. EntriesBy(user)' = EntriesBy(user)
      BY <1>2 DEF EntriesBy
    <3>2. Unread(user) \in {0, 1} /\ Unread(user)' \in {0, 1}
      BY DEF Unread
    <3>. QED
      BY <1>1, <1>2, <3>1, <3>2
  <2>2. ASSUME NEW user \in Users PROVE Unread(user)' \in {0, 1}
    BY DEF Unread
  <2>. QED
    BY <1>2, <2>1, <2>2 DEF AuditCountsWrites
<1>3. ASSUME UNCHANGED <<history, told, untold>>,
             \A user \in Users : Unread(user)' = Unread(user)
      PROVE  AuditCountsWrites'
  <2>1. ASSUME NEW user \in Users PROVE Unread(user) \in {0, 1}
    BY DEF Unread
  <2>. QED
    BY <1>1, <1>2, <1>3, <2>1
<1>4. ASSUME UNCHANGED <<history, told, untold, answer>> PROVE AuditCountsWrites'
  BY <1>3, <1>4 DEF Unread
<1>5. ASSUME NEW c \in Clients, Deliver(c) PROVE AuditCountsWrites'
  <2>1. /\ answer' = [answer EXCEPT ![c] = Null] /\ UNCHANGED <<history, untold>>
        /\ told' = IF Unread(c) = 1 THEN [told EXCEPT ![c] = told[c] + 1] ELSE told
    BY <1>5 DEF Deliver, Forget, tables, Unread
  <2>2. ASSUME NEW user \in Users
        PROVE  /\ told'[user] \in Nat
               /\ told'[user] + Unread(user)' = told[user] + Unread(user)
               /\ Unread(user) \in {0, 1}
    <3>1. Unread(user) \in {0, 1} /\ told = [d \in Clients |-> told[d]]
      BY DEF Unread, SentInv
    <3>2. Unread(user)' = IF user = c THEN 0 ELSE Unread(user)
      BY <1>1, <2>1 DEF Unread, WaitingInv
    <3>3. told'[user] = IF user = c /\ Unread(user) = 1 THEN told[user] + 1 ELSE told[user]
      BY <1>1, <2>1, <3>1
    <3>. QED
      BY <1>1, <3>1, <3>2, <3>3
  <2>. QED
    BY <1>1, <1>2, <2>1, <2>2
<1>6. ASSUME NEW c \in Clients, LoseAnswer(c) PROVE AuditCountsWrites'
  <2>1. /\ answer' = [answer EXCEPT ![c] = Null] /\ UNCHANGED <<history, told>>
        /\ untold' = [untold EXCEPT ![c] = untold[c] + 1]
    BY <1>6 DEF LoseAnswer, Forget, tables
  <2>2. ASSUME NEW user \in Users
        PROVE  /\ untold'[user] = IF user = c THEN untold[user] + 1 ELSE untold[user]
               /\ Unread(user)' = IF user = c THEN 0 ELSE Unread(user)
               /\ Unread(user) \in {0, 1}
    BY <1>1, <2>1 DEF Unread, WaitingInv, SentInv
  <2>. QED
    BY <1>1, <1>2, <2>1, <2>2
<1>7. CASE Crash
  <2>1. /\ answer' = [c \in Clients |-> Null] /\ UNCHANGED <<history, told>>
        /\ untold' = [c \in Clients |-> untold[c] + IF phase[c] = "idle" THEN 0 ELSE 1]
    BY <1>7 DEF Crash, tables
  <2>2. ASSUME NEW user \in Users
        PROVE  /\ untold'[user] \in Nat
               /\ untold'[user] >= untold[user] + Unread(user)
               /\ Unread(user)' = 0 /\ Unread(user) \in {0, 1}
    <3>1. /\ Unread(user) \in {0, 1}
          /\ Unread(user) = 1 => phase[user] # "idle"
      BY <1>1 DEF Unread, WaitingInv
    <3>2. Unread(user)' = 0
      BY <1>1, <2>1 DEF Unread
    <3>3. untold'[user] = untold[user] + IF phase[user] = "idle" THEN 0 ELSE 1
      BY <1>1, <2>1
    <3>. QED
      BY <1>1, <3>1, <3>2, <3>3
  <2>. QED
    <3>1. ASSUME NEW user \in Users
          PROVE  /\ told'[user] \in Nat /\ untold'[user] \in Nat
                 /\ told'[user] + Unread(user)' <= told[user] + Unread(user)
                 /\ told[user] + Unread(user) + untold[user]
                      <= told'[user] + Unread(user)' + untold'[user]
      BY <1>1, <2>1, <2>2
    <3>. QED
      BY <1>2, <2>1, <3>1
<1>8. ASSUME NEW c \in Clients, Refuse(c) \/ Skip(c) PROVE AuditCountsWrites'
  <2>1. /\ UNCHANGED <<history, told, untold>> /\ phase[c] = "sent"
        /\ \E result : /\ answer' = [answer EXCEPT ![c] = result]
                       /\ result = Null \/ result.wrote = FALSE
    BY <1>8 DEF Refuse, Skip, Asks, Turn, Finish, Decided, Posted, tables
  <2>2. ASSUME NEW user \in Users PROVE Unread(user)' = Unread(user)
    BY <1>1, <2>1 DEF Unread, WaitingInv
  <2>. QED
    BY <1>3, <2>1, <2>2
<1>9. CASE StatementFails
  <2>1. /\ UNCHANGED <<history, told, untold>> /\ phase[txn.client] = "running"
        /\ answer' = [answer EXCEPT ![txn.client] = Null]
    BY <1>9 DEF StatementFails, Close, Finish, tables, TxnOpenInv
  <2>2. ASSUME NEW user \in Users PROVE Unread(user)' = Unread(user)
    BY <1>1, <2>1 DEF Unread, WaitingInv
  <2>. QED
    BY <1>3, <2>1, <2>2
<1>10. CASE CommitTxn
  <2>1. PICK c : c = txn.client
    OBVIOUS
  <2>2. /\ c \in Clients /\ phase[c] = "running" /\ (OpenPut \/ OpenPost)
    BY <1>10, <2>1 DEF CommitTxn, TxnOpenInv
  <2>3. history' = work.history /\ UNCHANGED <<told, untold>>
    BY <1>10 DEF CommitTxn, Install
  <2>4. answer[c] = Null
    BY <2>2 DEF WaitingInv
  <2>5. CASE OpenPut
    <3>1. PICK key \in Keys, patch \in Patches, by \in Users : OpenPutOf(key, patch, by)
      BY <2>5 DEF OpenPut
    <3>2. c = by /\ request[c].kind = "put" /\ txn.step \in {"row", "entry", "commit"}
      BY <2>1, <3>1 DEF OpenPutOf
    <3>3. txn.step = "commit"
      BY <1>10, <3>2 DEF CommitTxn, Complete
    <3>4. work = EntryInserted /\ txn.entry.by = c
      BY <3>1, <3>2, <3>3 DEF OpenPutOf, Entry
    <3>5. history' = Append(history, txn.entry)
      BY <2>3, <3>4 DEF EntryInserted
    <3>6. PICK a : a = Decided(request[c].key, txn.row, TRUE)
      OBVIOUS
    <3>7. a # Null /\ a.wrote
      <4>1. txn.row \in Row \cup {Null}
        BY <1>10 DEF WaitingInv, Txn, CommitTxn
      <4>2. request[c].key \in Keys
        BY <2>2, <3>2, RequestTypes
      <4>3. a \in PutAnswer
        BY <3>6, <4>1, <4>2 DEF Decided, PutAnswer
      <4>. QED
        BY <3>6, <4>3, RecordsAssumption DEF Decided
    <3>8. answer' = [answer EXCEPT ![c] = a]
      BY <1>10, <2>1, <3>2, <3>6 DEF CommitTxn, Close, Finish
    <3>9. ASSUME NEW user \in Users
          PROVE  /\ EntriesBy(user)' = EntriesBy(user) + (IF user = c THEN 1 ELSE 0)
                 /\ Unread(user)' = Unread(user) + (IF user = c THEN 1 ELSE 0)
                 /\ Unread(user) \in {0, 1}
      <4>1. EntriesBy(user)' = Cardinality(EntriesOf(history', user))
        BY DEF EntriesBy, EntriesOf
      <4>2. EntriesBy(user)' = EntriesBy(user) + (IF user = c THEN 1 ELSE 0)
        BY <1>1, <3>4, <3>5, <4>1, EntriesAppended DEF TypeOK
      <4>3. /\ Unread(user)' = Unread(user) + (IF user = c THEN 1 ELSE 0)
            /\ Unread(user) \in {0, 1}
        BY <1>1, <2>4, <3>7, <3>8 DEF Unread, WaitingInv
      <4>. QED
        BY <4>2, <4>3
    <3>. QED
      BY <1>1, <2>3, <3>9 DEF AuditCountsWrites
  <2>6. CASE OpenPost
    <3>1. PICK doc \in Docs : OpenPostOf(doc)
      BY <2>6 DEF OpenPost
    <3>2. request[c].kind = "post" /\ work.history = history
      BY <2>1, <3>1 DEF OpenPostOf, Tables, ItemsInserted
    <3>3. c \notin Users
      BY <2>2, <3>2, PostsByPublisher
    <3>4. \E result : answer' = [answer EXCEPT ![c] = result]
      BY <1>10, <2>1 DEF CommitTxn, Close, Finish
    <3>5. ASSUME NEW user \in Users PROVE Unread(user)' = Unread(user)
      BY <1>1, <3>3, <3>4 DEF Unread, WaitingInv
    <3>. QED
      BY <1>3, <2>3, <3>2, <3>5
  <2>. QED
    BY <2>2, <2>5, <2>6
<1>11. ASSUME NEW c \in Clients, Send(c) \/ BeginPut(c) \/ BeginPost(c)
       PROVE  AuditCountsWrites'
  BY <1>4, <1>11 DEF Send, BeginPut, BeginPost, tables
<1>12. CASE \/ WriteRow \/ InsertEntry \/ InsertSnapshot \/ \E key \in Keys : InsertItem(key)
            \/ Restart \/ TickIdle \/ UNCHANGED txnVars
  BY <1>4, <1>12 DEF WriteRow, InsertEntry, InsertSnapshot, InsertItem, Restart, TickIdle, Tick,
                     txnVars, client, tables
<1>. QED
  BY <1>5, <1>6, <1>7, <1>8, <1>9, <1>10, <1>11, <1>12 DEF TxnNext, Statement, Accept

(* The audit trail counts right for every client, every failure and every  *)
(* restart: a write that was answered 200 has its entry, a refused or a    *)
(* failed request none, and only an answer that never came leaves a user   *)
(* in doubt.                                                               *)
THEOREM AuditCountsWritesHolds == TxnSpec => []AuditCountsWrites
<1>1. TxnInit => AuditCountsWrites
  <2>. SUFFICES ASSUME TxnInit, NEW user \in Users
                PROVE  EntriesBy(user) \in (told[user] + Unread(user))..
                                           (told[user] + Unread(user) + untold[user])
    BY DEF AuditCountsWrites
  <2>1. {i \in 1..Len(history) : history[i].by = user} = {}
    BY DEF TxnInit, Init
  <2>2. EntriesBy(user) = 0
    BY <2>1, FS_EmptySet DEF EntriesBy
  <2>3. told[user] = 0 /\ untold[user] = 0 /\ Unread(user) = 0
    BY DEF TxnInit, Unread, Clients
  <2>. QED
    BY <2>2, <2>3
<1>2. TxnInv /\ WaitingInv /\ SentInv /\ AuditCountsWrites /\ [TxnNext]_txnVars
        => AuditCountsWrites'
  BY AuditCountsKept DEF TxnInv
<1>. QED
  BY <1>1, <1>2, TxnInvariant, WaitingInvariant, PTL DEF TxnSpec
=============================================================================
