-------------------------------- MODULE Ingest --------------------------------
(***************************************************************************)
(* POST /api/ingest (ingest.ts): the join of Tooling's inventory and       *)
(* report into the rows of one snapshot.  DecisionStore takes its Docs     *)
(* from here: a document there is what this module stores.                 *)
(*                                                                         *)
(* Of an inventory item the pin stands for all columns the inventory       *)
(* fills, of a report item `latest` for all the report fills.  The bodies  *)
(* are schema-valid and carry the token: anything else is a 401 or a 422   *)
(* before ingest() runs, and changes nothing.                              *)
(***************************************************************************)
EXTENDS Naturals, Sequences, SequencesExt

CONSTANTS
  Null,
  Posts,     \* the bodies that may be posted: [generatedAt, inventory, report]
  MaxPosts   \* bound: requests

ASSUME PostsAssumption ==
  /\ MaxPosts \in Nat
  /\ \A p \in Posts :
       /\ p.inventory \in Seq(Range(p.inventory)) /\ p.report \in Seq(Range(p.report))
       /\ \A i \in 1..Len(p.inventory) : p.inventory[i].pinned # Null

VARIABLES
  snapshots,  \* the snapshots and items tables; the id is the index
  answer,     \* the last answer, with the body it answers, or Null
  posts

vars == <<snapshots, answer, posts>>

KeysOf(list) == {list[i].key : i \in 1..Len(list)}

(* Mutant: the first entry of a key wins. *)
ByKey_FirstWins(list) ==
  FoldRight(LAMBDA item, map :
              [k \in DOMAIN map \cup {item.key} |-> IF k = item.key THEN item ELSE map[k]],
            list, <<>>)

(* new Map(list.map(it => [it.key, it])), and the loop of set()s. *)
ByKey(list) ==
  FoldLeft(LAMBDA map, item :
             [k \in DOMAIN map \cup {item.key} |-> IF k = item.key THEN item ELSE map[k]],
           <<>>, list)

(* Mutant: only the items of the report are stored. *)
Rows_OfReport(inventory, report) ==
  [ key \in DOMAIN report |->
      [ pinned |-> inventory[key].pinned, latest |-> report[key].latest, reported |-> TRUE ] ]

(* One row for each inventory key, with its report item or "not in report". *)
Rows(inventory, report) ==
  [ key \in DOMAIN inventory |->
      IF key \in DOMAIN report
      THEN [pinned |-> inventory[key].pinned, latest |-> report[key].latest, reported |-> TRUE]
      ELSE [pinned |-> inventory[key].pinned, latest |-> Null, reported |-> FALSE] ]

(* A report item without an inventory item. *)
Orphaned(p) == ~(KeysOf(p.report) \subseteq KeysOf(p.inventory))

Stored(p) == {i \in 1..Len(snapshots) : snapshots[i].generatedAt = p.generatedAt}

CountRows(items) == Cardinality(DOMAIN items)

Ok(p, id, n) ==
  [ post |-> p, ok |-> TRUE, id |-> id, items |-> n,
    duplicates |-> Len(p.inventory) - CountRows(ByKey(p.inventory)) ]

(* Mutant: a body posted again is counted by its own inventory. *)
Repost_CountsBody(p) ==
  \E id \in Stored(p) :
    /\ answer' = Ok(p, id, CountRows(ByKey(p.inventory)))
    /\ UNCHANGED snapshots

(* Posted before: whatever the body holds, the stored snapshot is named. *)
Repost(p) ==
  \E id \in Stored(p) :
    /\ answer' = Ok(p, id, CountRows(snapshots[id].items))
    /\ UNCHANGED snapshots

Refuse(p) ==
  /\ Stored(p) = {}
  /\ Orphaned(p)
  /\ answer' = [post |-> p, ok |-> FALSE]
  /\ UNCHANGED snapshots

(* Mutant: the report is not checked against the inventory. *)
Store_Unchecked(p) ==
  /\ Stored(p) = {}
  /\ LET items == Rows(ByKey(p.inventory), ByKey(p.report))
     IN  /\ snapshots' = Append(snapshots, [generatedAt |-> p.generatedAt, items |-> items])
         /\ answer' = Ok(p, Len(snapshots'), CountRows(items))

Store(p) ==
  /\ Stored(p) = {}
  /\ ~Orphaned(p)
  /\ LET items == Rows(ByKey(p.inventory), ByKey(p.report))
     IN  /\ snapshots' = Append(snapshots, [generatedAt |-> p.generatedAt, items |-> items])
         /\ answer' = Ok(p, Len(snapshots'), CountRows(items))

Init ==
  /\ snapshots = <<>>
  /\ answer = Null
  /\ posts = 0

Post(p) ==
  /\ posts < MaxPosts
  /\ posts' = posts + 1
  /\ Repost(p) \/ Refuse(p) \/ Store(p)

Next == \E p \in Posts : Post(p)

Spec == Init /\ [][Next]_vars

-----------------------------------------------------------------------------
(* Properties. *)

(* item is the entry of its key that a list ends up with. *)
LastOf(list, key, item) ==
  \E i \in 1..Len(list) :
    /\ list[i] = item
    /\ item.key = key
    /\ \A j \in (i+1)..Len(list) : list[j].key # key

(* row is the join of the two documents of p for the key. *)
Joined(p, key, row) ==
  /\ \E item \in Range(p.inventory) :
       LastOf(p.inventory, key, item) /\ row.pinned = item.pinned
  /\ IF key \in KeysOf(p.report)
     THEN \E item \in Range(p.report) : LastOf(p.report, key, item) /\ row.latest = item.latest
     ELSE row.latest = Null
  /\ row.reported <=> key \in KeysOf(p.report)

(* "the inventory, not the report, defines what exists": what a post adds  *)
(* to the store is the full join of its own body, a row for each inventory *)
(* key and no other, of duplicates the last ("last write wins"), with      *)
(* nothing of its report left out, and no stored snapshot ever changes.    *)
StoresJoin ==
  snapshots' # snapshots =>
    LET p == answer'.post
        new == snapshots'[Len(snapshots) + 1]
    IN  /\ SubSeq(snapshots', 1, Len(snapshots)) = snapshots
        /\ Len(snapshots') = Len(snapshots) + 1
        /\ new.generatedAt = p.generatedAt
        /\ DOMAIN new.items = KeysOf(p.inventory)
        /\ KeysOf(p.report) \subseteq KeysOf(p.inventory)
        /\ \A key \in KeysOf(p.inventory) : Joined(p, key, new.items[key])

SnapshotIsJoin == [][StoresJoin]_vars

(* A 200 tells the truth about the store, for a body stored now as for one *)
(* posted again with other contents: the id holds a snapshot of that       *)
(* generatedAt, with that many items.                                      *)
AnswerIsTrue ==
  (answer # Null /\ answer.ok) =>
    /\ answer.id \in 1..Len(snapshots)
    /\ snapshots[answer.id].generatedAt = answer.post.generatedAt
    /\ answer.items = CountRows(snapshots[answer.id].items)
=============================================================================
