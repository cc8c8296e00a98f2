---------------------------- MODULE DecisionStore ----------------------------
(***************************************************************************)
(* The server's store, seen one request at a time: snapshots published by  *)
(* Tooling (ingest.ts), decisions recorded by users (decisions.ts) and the *)
(* append-only decision_history, with the read side that says which        *)
(* decision applies to an item of a snapshot.                              *)
(*                                                                         *)
(* node:sqlite is synchronous and the server is one process, so a handler  *)
(* runs from its first read to its COMMIT without another handler in       *)
(* between: one accepted request is one action here.  Module StoreTxn      *)
(* splits it into SQL statements, with failures and crashes, and           *)
(* implements this module.  A rejected request (401, 422) and a no-op      *)
(* (clearing nothing, posting a snapshot again) change nothing and are     *)
(* stuttering steps: the guard that rejects them is the code's condition.  *)
(***************************************************************************)
EXTENDS Suppression

CONSTANTS
  Keys,             \* item keys; the order of numbers is the order of strings
  RepoKindName,     \* [Keys -> name]: the repo|kind|name part of a key
  WellFormedKeys,   \* the keys parseKeyFallback can take apart
  VersionStrings,   \* what a PUT may carry as a version
  Pins,             \* the pinned strings of the inventory
  Advisories,       \* advisory ids
  Users,            \* identities a decision can be attributed to
  Docs,             \* the snapshots Tooling may publish
  MaxHistory,       \* bound: accepted writes
  MaxClock          \* bound: instants

Item ==
  [ pinned : Pins,
    latest : VersionStrings \cup {Null},
    gap : ActionableGaps \cup {"none", "unknown", Null},
    advisoryStatus : {"affected", "historical-only", "range-floor", "none", "unknown", Null},
    advisories : SUBSET [id : Advisories, affected : BOOLEAN] ]

(* A row of the decisions table; the key and the identity columns it       *)
(* determines are left to the function `decisions`.  Only a version that   *)
(* parseVersion recognises is ever stored.                                 *)
Version == {v \in VersionStrings : IsVersion(v)}

Row ==
  [ skippedVersion : Version \cup {Null},
    remindAt : Nat \cup {Null},
    approvedVersion : Version \cup {Null},
    approvedFromPinned : Pins \cup {Null},
    acknowledgedAdvisories : {Null} \cup SUBSET Advisories,
    updatedAt : Nat,
    updatedBy : Users ]

HistoryEntry ==
  [ key : Keys, before : Row \cup {Null}, after : Row \cup {Null}, at : Nat, by : Users ]

IsSnapshot(doc) ==
  /\ doc = [generatedAt |-> doc.generatedAt, items |-> doc.items]
  /\ doc.generatedAt \in Nat
  /\ DOMAIN doc.items \subseteq Keys
  /\ doc.items \in [DOMAIN doc.items -> Item]

ASSUME ConstantsAssumption ==
  /\ Keys \subseteq Nat
  /\ WellFormedKeys \subseteq Keys
  /\ \A doc \in Docs : IsSnapshot(doc)
  /\ MaxHistory \in Nat
  /\ MaxClock \in Nat

(* Null is a value of its own. *)
ASSUME NullAssumption ==
  /\ Null \notin Row
  /\ Null \notin Item
  /\ Null \notin Keys
  /\ Null \notin Nat
  /\ Null \notin VersionStrings
  /\ Null \notin Pins
  /\ \A ids \in SUBSET Advisories : Null # ids

VARIABLES
  snapshots,   \* the snapshots and items tables; the id is the index
  decisions,   \* the decisions table: a row, or Null, for each key
  history,     \* the decision_history table
  clock        \* the server's Date

vars == <<snapshots, decisions, history, clock>>

-----------------------------------------------------------------------------
(* What a write reads. *)

(* latestItemByKey: the item in the snapshot with the highest id. *)
LatestItem(key) ==
  IF snapshots = <<>> THEN Null
  ELSE LET items == snapshots[Len(snapshots)].items
       IN  IF key \in DOMAIN items THEN items[key] ELSE Null

KnownAdvisories_OfAnyItem(key) == Advisories   \* mutant: ids not checked against the item

KnownAdvisories(key) ==
  IF LatestItem(key) = Null THEN {} ELSE {a.id : a \in LatestItem(key).advisories}

(* item ?? parseKeyFallback(key): without either, the write is a 422. *)
HasIdentity(key) == LatestItem(key) # Null \/ key \in WellFormedKeys

Acknowledged(key) ==
  IF decisions[key] = Null THEN Null ELSE decisions[key].acknowledgedAdvisories

PinnedNow(key) == IF LatestItem(key) = Null THEN Null ELSE LatestItem(key).pinned

-----------------------------------------------------------------------------
(* The rows putDecision writes. *)

(* What the body of a PUT /api/decisions/:key may be (DecisionPatch). *)
VersionPatches == [field : {"skippedVersion", "approvedVersion"}, value : VersionStrings]
RemindPatches == [field : {"remindAt"}, value : 0..MaxClock]
AckPatches == [field : {"acknowledgedAdvisories"}, value : SUBSET Advisories]
ClearPatch == [field |-> "clear"]

(* Mutant: the version is stored without being parsed. *)
Valid_Unparsed(key, patch) ==
  /\ patch.field = "remindAt" => patch.value > clock
  /\ patch.field = "acknowledgedAdvisories" => patch.value \subseteq KnownAdvisories(key)
  /\ patch.field = "clear" \/ HasIdentity(key)

(* The validation of putDecision: anything else is a 422. *)
Valid(key, patch) ==
  /\ patch.field \in {"skippedVersion", "approvedVersion"} => IsVersion(patch.value)
  /\ patch.field = "remindAt" => patch.value > clock
  /\ patch.field = "acknowledgedAdvisories" => patch.value \subseteq KnownAdvisories(key)
  /\ patch.field = "clear" \/ HasIdentity(key)

(* Mutant: the row is rebuilt from nothing, dropping the acknowledgement. *)
TrioRow_DropsAck(key, patch, by) ==
  [ skippedVersion |-> IF patch.field = "skippedVersion" THEN patch.value ELSE Null,
    remindAt |-> IF patch.field = "remindAt" THEN patch.value ELSE Null,
    approvedVersion |-> IF patch.field = "approvedVersion" THEN patch.value ELSE Null,
    approvedFromPinned |-> IF patch.field = "approvedVersion" THEN PinnedNow(key) ELSE Null,
    acknowledgedAdvisories |-> Null,
    updatedAt |-> clock,
    updatedBy |-> by ]

(* A trio write sets one of the three fields, resets the other two and     *)
(* keeps the acknowledgement.                                              *)
TrioRow(key, patch, by) ==
  [ skippedVersion |-> IF patch.field = "skippedVersion" THEN patch.value ELSE Null,
    remindAt |-> IF patch.field = "remindAt" THEN patch.value ELSE Null,
    approvedVersion |-> IF patch.field = "approvedVersion" THEN patch.value ELSE Null,
    approvedFromPinned |-> IF patch.field = "approvedVersion" THEN PinnedNow(key) ELSE Null,
    acknowledgedAdvisories |-> Acknowledged(key),
    updatedAt |-> clock,
    updatedBy |-> by ]

NoTrio ==
  [ skippedVersion |-> Null, remindAt |-> Null,
    approvedVersion |-> Null, approvedFromPinned |-> Null ]

(* An acknowledgement replaces the previous one and keeps the trio. *)
AckRow(key, patch, by) ==
  LET kept == IF decisions[key] = Null THEN NoTrio ELSE decisions[key]
  IN  [ skippedVersion |-> kept.skippedVersion,
        remindAt |-> kept.remindAt,
        approvedVersion |-> kept.approvedVersion,
        approvedFromPinned |-> kept.approvedFromPinned,
        acknowledgedAdvisories |-> patch.value,
        updatedAt |-> clock,
        updatedBy |-> by ]

(* What a valid patch leaves in the table: a row, or nothing. *)
NextRow(key, patch, by) ==
  IF patch.field = "clear" THEN Null
  ELSE IF patch.field = "acknowledgedAdvisories" THEN AckRow(key, patch, by)
  ELSE TrioRow(key, patch, by)

(* Mutant: the previous row is read back after the upsert. *)
Entry_ReadsTooLate(key, after, by) ==
  [ key |-> key, before |-> after, after |-> after, at |-> clock, by |-> by ]

Entry(key, after, by) ==
  [ key |-> key, before |-> decisions[key], after |-> after, at |-> clock, by |-> by ]

(* Clearing a key without a decision is answered without a write. *)
Writes(key, patch) == patch.field = "clear" => decisions[key] # Null

-----------------------------------------------------------------------------
(* The actions. *)

(* The transaction both write paths end in: the row, and its audit entry. *)
Commit(key, after, by) ==
  /\ Len(history) < MaxHistory
  /\ decisions' = [decisions EXCEPT ![key] = after]
  /\ history' = Append(history, Entry(key, after, by))
  /\ UNCHANGED <<snapshots, clock>>

PutDecision(key, patch, by) ==
  /\ Valid(key, patch)
  /\ Writes(key, patch)
  /\ Commit(key, NextRow(key, patch, by), by)

(* POST /api/ingest: idempotent on generatedAt. *)
Ingest(doc) ==
  /\ \A i \in 1..Len(snapshots) : snapshots[i].generatedAt # doc.generatedAt
  /\ snapshots' = Append(snapshots, doc)
  /\ UNCHANGED <<decisions, history, clock>>

Tick ==
  /\ clock < MaxClock
  /\ clock' = clock + 1
  /\ UNCHANGED <<snapshots, decisions, history>>

Init ==
  /\ snapshots = <<>>
  /\ decisions = [k \in Keys |-> Null]
  /\ history = <<>>
  /\ clock = 0

Put ==
  \E key \in Keys, by \in Users :
    \/ \E patch \in VersionPatches : PutDecision(key, patch, by)
    \/ \E patch \in RemindPatches : PutDecision(key, patch, by)
    \/ \E patch \in AckPatches : PutDecision(key, patch, by)
    \/ PutDecision(key, ClearPatch, by)

Next ==
  \/ Put
  \/ \E doc \in Docs : Ingest(doc)
  \/ Tick

Spec == Init /\ [][Next]_vars

(* Time passes whatever the users do. *)
FairSpec == Spec /\ WF_vars(Tick)

-----------------------------------------------------------------------------
(* The read side: which decision applies to an item. *)

(* countByRepoKindName above 1, for an item of `items`: another live item  *)
(* has the same repo|kind|name.                                            *)
Ambiguous(key, items) ==
  \E k \in DOMAIN items : k # key /\ RepoKindName[k] = RepoKindName[key]

Candidates(key) ==
  {k \in Keys : decisions[k] # Null /\ RepoKindName[k] = RepoKindName[key]}

(* The newest candidate; rows come ordered by key, and a later one has to  *)
(* be strictly newer to replace the one kept so far.                       *)
NewestCandidate(key) ==
  CHOOSE k \in Candidates(key) :
    \A c \in Candidates(key) :
      \/ decisions[c].updatedAt < decisions[k].updatedAt
      \/ decisions[c].updatedAt = decisions[k].updatedAt /\ k <= c

(* Mutant: the fallback without its ambiguity gate. *)
MatchedKey_IgnoresSiblings(key, items) ==
  IF decisions[key] # Null THEN key
  ELSE IF Candidates(key) = {} THEN Null
  ELSE NewestCandidate(key)

(* findDecisionForItem, as the key of the row it returns. *)
MatchedKey(key, items) ==
  IF decisions[key] # Null THEN key
  ELSE IF Ambiguous(key, items) \/ Candidates(key) = {} THEN Null
  ELSE NewestCandidate(key)

DecisionFor(key, items) ==
  LET k == MatchedKey(key, items) IN IF k = Null THEN Null ELSE decisions[k]

LatestItems ==
  IF snapshots = <<>> THEN <<>> ELSE snapshots[Len(snapshots)].items

LatestDecisionFor(key) == DecisionFor(key, LatestItems)

-----------------------------------------------------------------------------
(* Properties. *)

TypeOK ==
  /\ snapshots \in Seq(Docs)
  /\ decisions \in [Keys -> Row \cup {Null}]
  /\ history \in Seq(HistoryEntry)
  /\ clock \in Nat

(* `row` is what the first n entries of `log` leave recorded for `key`. *)
LeftBy(log, n, key, row) ==
  \/ /\ row = Null
     /\ \A j \in 1..n : log[j].key # key
  \/ \E j \in 1..n :
       /\ log[j].key = key
       /\ log[j].after = row
       /\ \A m \in (j+1)..n : log[m].key # key

(* The audit trail (decision_history, "who changed what, when") can be     *)
(* replayed: every entry starts from what the previous one on its key      *)
(* left, and the decisions table is what the last entries left.  Both      *)
(* paths of putDecision, the write and the clear, keep it.                 *)
AuditChain ==
  /\ \A i \in 1..Len(history) :
       LeftBy(history, i - 1, history[i].key, history[i].before)
  /\ \A key \in Keys : LeftBy(history, Len(history), key, decisions[key])

TrioOf(row) ==
  IF row = Null THEN NoTrio
  ELSE [ skippedVersion |-> row.skippedVersion, remindAt |-> row.remindAt,
         approvedVersion |-> row.approvedVersion,
         approvedFromPinned |-> row.approvedFromPinned ]

AckOf(row) == IF row = Null THEN Null ELSE row.acknowledgedAdvisories

(* At most one of the three targets holds, and the pin an approval started *)
(* from is kept with that approval only.                                   *)
OneTarget(row) ==
  /\ row.skippedVersion # Null => row.remindAt = Null /\ row.approvedVersion = Null
  /\ row.remindAt # Null => row.approvedVersion = Null
  /\ row.approvedFromPinned # Null => row.approvedVersion # Null

(* The version trio and the acknowledgement are independent axes           *)
(* (decisions.ts, putDecision): no accepted PUT, whatever came before it,  *)
(* changes both, and every row ever recorded has one target at most.       *)
AxesIndependent ==
  \A i \in 1..Len(history) :
    LET e == history[i]
    IN  e.after # Null =>
          /\ OneTarget(e.after)
          /\ TrioOf(e.after) = TrioOf(e.before) \/ AckOf(e.after) = AckOf(e.before)

(* What a row says about an item was published about that very item:       *)
(* every acknowledged advisory and the pin an approval started from stand  *)
(* in some snapshot under the row's own key, however the item moved since. *)
RowsCiteSnapshots ==
  \A key \in Keys : decisions[key] # Null =>
    /\ AckOf(decisions[key]) # Null =>
         \A id \in AckOf(decisions[key]) : \E i \in 1..Len(snapshots) :
           /\ key \in DOMAIN snapshots[i].items
           /\ \E a \in snapshots[i].items[key].advisories : a.id = id
    /\ decisions[key].approvedFromPinned # Null =>
         \E i \in 1..Len(snapshots) :
           /\ key \in DOMAIN snapshots[i].items
           /\ snapshots[i].items[key].pinned = decisions[key].approvedFromPinned

(* No advisory disappears from the dashboard unless somebody acknowledged  *)
(* it: when the status of an affected item reads otherwise, each advisory  *)
(* that affects it is in a recorded acknowledgement of this item, or of    *)
(* one with its repo|kind|name when no sibling is live beside it.          *)
SilencedWasAcknowledged ==
  \A i \in 1..Len(snapshots) : \A key \in DOMAIN snapshots[i].items :
    LET items == snapshots[i].items
        item == items[key]
    IN  EffectiveAdvisoryStatus(item, DecisionFor(key, items)) # item.advisoryStatus =>
          \A a \in item.advisories : a.affected =>
            \E j \in 1..Len(history) :
              /\ AckOf(history[j].after) # Null
              /\ a.id \in AckOf(history[j].after)
              /\ \/ history[j].key = key
                 \/ /\ RepoKindName[history[j].key] = RepoKindName[key]
                    /\ ~Ambiguous(key, items)

(* Deciding one item never changes what applies to another, except to the  *)
(* sole live item of the same repo|kind|name (the carry-over after a       *)
(* moved source line).  "deciding one workspace package's occurrence made  *)
(* a sibling package's identical-name occurrence read as decided too" is   *)
(* the regression findDecisionForItem guards against.                      *)
WritesStayWithTheItem ==
  \A key \in DOMAIN LatestItems :
    (history' # history /\ LatestDecisionFor(key)' # LatestDecisionFor(key)) =>
      LET decided == history'[Len(history')].key
      IN  \/ decided = key
          \/ /\ RepoKindName[decided] = RepoKindName[key]
             /\ ~Ambiguous(key, LatestItems)

SiblingIsolation == [][WritesStayWithTheItem]_vars

(* A snoozed item comes back: a reminder that hides an item stops hiding   *)
(* it, by coming due or because the decision was replaced or cleared.      *)
Snoozed(key) ==
  LET d == LatestDecisionFor(key)
  IN  /\ key \in DOMAIN LatestItems
      /\ TrioOf(d).remindAt # Null
      /\ SuppressionState(LatestItem(key), d, clock) = "suppressed"

SnoozeEnds == \A key \in Keys : Snoozed(key) ~> ~Snoozed(key)

-----------------------------------------------------------------------------
(* A claim of the repository the code does not keep. *)

(* findDecisionForItem carries a decision over to "an item whose source    *)
(* line moves", and must not "apply one item's skip/acknowledge to an      *)
(* entirely different, never-reviewed item": an item that was live beside  *)
(* the decided one did not move from it.                                   *)
CarriedOnlyAfterMove ==
  \A key \in DOMAIN LatestItems :
    LET from == MatchedKey(key, LatestItems)
    IN  from # Null /\ from # key =>
          ~\E i \in 1..Len(snapshots) : {key, from} \subseteq DOMAIN snapshots[i].items
=============================================================================
