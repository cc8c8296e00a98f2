------------------------- MODULE DecisionStoreProofs -------------------------
(***************************************************************************)
(* Theorems about DecisionStore, and about the verdicts of Suppression it  *)
(* is read with, for every set of keys, users, versions and published      *)
(* documents.                                                              *)
(***************************************************************************)
EXTENDS DecisionStore, SequenceTheorems, WellFoundedInduction, TLAPS

-----------------------------------------------------------------------------
(* The order of versions. *)

(* `n` decides that candidate is newer than baseline. *)
DecidesAt(candidate, baseline, n) ==
  /\ n \in DOMAIN ParseVersion[candidate]
  /\ NumberAt(candidate, n) > NumberAt(baseline, n)
  /\ \A j \in 1..(n-1) : NumberAt(candidate, j) = NumberAt(baseline, j)

LEMMA NewerDecides ==
  ASSUME NEW candidate, NEW baseline
  PROVE  IsNewer(candidate, baseline) <=>
           /\ candidate # Null /\ baseline # Null
           /\ IsVersion(candidate) /\ IsVersion(baseline)
           /\ \E n \in Nat \ {0} : DecidesAt(candidate, baseline, n)
<1>1. ASSUME IsVersion(candidate)
      PROVE  DOMAIN ParseVersion[candidate] \subseteq Nat \ {0}
  BY <1>1, ParseVersionAssumption DEF IsVersion
<1>. QED
  BY <1>1 DEF IsNewer, DecidesAt

(* The padded list of a version has a natural number at every position,    *)
(* and a zero where the version has none.                                  *)
LEMMA NumberAtType ==
  ASSUME NEW v, IsVersion(v), NEW i \in Nat \ {0}
  PROVE  /\ NumberAt(v, i) \in Nat
         /\ NumberAt(v, i) # 0 => i \in DOMAIN ParseVersion[v]
BY ParseVersionAssumption DEF IsVersion, NumberAt

(* isNewer is a strict order (suppression.ts): no version is newer than    *)
(* itself, of two at most one is newer than the other, and what is newer   *)
(* than a newer one is newer.                                              *)
THEOREM NewerIsStrictOrder ==
  ASSUME NEW a, NEW b, NEW c
  PROVE  /\ ~IsNewer(a, a)
         /\ IsNewer(a, b) => ~IsNewer(b, a)
         /\ IsNewer(a, b) /\ IsNewer(b, c) => IsNewer(a, c)
<1>1. ASSUME IsNewer(a, a) PROVE FALSE
  <2>1. PICK n \in Nat \ {0} : IsVersion(a) /\ DecidesAt(a, a, n)
    BY <1>1, NewerDecides
  <2>. QED
    BY <2>1, NumberAtType DEF DecidesAt
<1>2. ASSUME IsNewer(a, b), IsNewer(b, c) PROVE IsNewer(a, c)
  <2>1. a # Null /\ b # Null /\ c # Null /\ IsVersion(a) /\ IsVersion(b) /\ IsVersion(c)
    BY <1>2, NewerDecides
  <2>2. PICK m \in Nat \ {0} : DecidesAt(a, b, m)
    BY <1>2, NewerDecides
  <2>3. PICK n \in Nat \ {0} : DecidesAt(b, c, n)
    BY <1>2, NewerDecides
  <2>. DEFINE first == IF m <= n THEN m ELSE n
  <2>4. first \in Nat \ {0} /\ first <= m /\ first <= n
    OBVIOUS
  <2>5. /\ NumberAt(a, first) \in Nat /\ NumberAt(b, first) \in Nat
        /\ NumberAt(c, first) \in Nat
    BY <2>1, <2>4, NumberAtType
  <2>6. NumberAt(a, first) > NumberAt(c, first)
    <3>1. CASE m < n
      BY <2>2, <2>3, <2>5, <3>1 DEF DecidesAt
    <3>2. CASE m = n
      BY <2>2, <2>3, <2>5, <3>2 DEF DecidesAt
    <3>3. CASE n < m
      BY <2>2, <2>3, <2>5, <3>3 DEF DecidesAt
    <3>. QED
      BY <3>1, <3>2, <3>3
  <2>7. \A j \in 1..(first-1) : NumberAt(a, j) = NumberAt(c, j)
    <3>1. ASSUME NEW j \in 1..(first-1)
          PROVE  j \in 1..(m-1) /\ j \in 1..(n-1)
      BY <2>4
    <3>. QED
      BY <2>2, <2>3, <3>1 DEF DecidesAt
  <2>8. first \in DOMAIN ParseVersion[a]
    BY <2>1, <2>4, <2>5, <2>6, NumberAtType
  <2>9. DecidesAt(a, c, first)
    BY <2>6, <2>7, <2>8 DEF DecidesAt
  <2>. QED
    BY <2>1, <2>4, <2>9, NewerDecides
<1>3. ASSUME IsNewer(a, b), IsNewer(b, a) PROVE FALSE
  <2>1. IsVersion(a) /\ IsVersion(b)
    BY <1>3, NewerDecides
  <2>2. PICK m \in Nat \ {0} : DecidesAt(a, b, m)
    BY <1>3, NewerDecides
  <2>3. PICK n \in Nat \ {0} : DecidesAt(b, a, n)
    BY <1>3, NewerDecides
  <2>4. /\ NumberAt(a, m) \in Nat /\ NumberAt(b, m) \in Nat
        /\ NumberAt(a, n) \in Nat /\ NumberAt(b, n) \in Nat
    BY <2>1, NumberAtType
  <2>. QED
    BY <2>2, <2>3, <2>4 DEF DecidesAt
<1>. QED
  BY <1>1, <1>2, <1>3

(* Two recognised versions are one newer than the other, or the same up to *)
(* trailing zeros: nothing a release may be called compares as neither     *)
(* ("2" and "2.0" are the same).                                           *)
THEOREM NewerIsTotal ==
  ASSUME NEW a, NEW b, a # Null, b # Null, IsVersion(a), IsVersion(b),
         ~IsNewer(a, b), ~IsNewer(b, a)
  PROVE  \A i \in Nat \ {0} : NumberAt(a, i) = NumberAt(b, i)
<1>. DEFINE Differ == {i \in Nat \ {0} : NumberAt(a, i) # NumberAt(b, i)}
<1>1. CASE Differ = {}
  BY <1>1
<1>2. CASE Differ # {}
  <2>1. PICK n \in Differ : \A j \in Differ : ~(<<j, n>> \in OpToRel(<, Nat))
    <3>1. IsWellFoundedOn(OpToRel(<, Nat), Nat)
      BY NatLessThanWellFounded
    <3>2. Differ \subseteq Nat
      OBVIOUS
    <3>. QED
      BY <1>2, <3>1, <3>2, WFMin
  <2>2. \A j \in 1..(n-1) : NumberAt(a, j) = NumberAt(b, j)
    <3>1. ASSUME NEW j \in 1..(n-1), NumberAt(a, j) # NumberAt(b, j) PROVE FALSE
      <4>1. j \in Differ /\ j < n
        BY <3>1
      <4>. QED
        BY <2>1, <4>1 DEF OpToRel
    <3>. QED
      BY <3>1
  <2>3. NumberAt(a, n) \in Nat /\ NumberAt(b, n) \in Nat /\ NumberAt(a, n) # NumberAt(b, n)
    BY NumberAtType
  <2>4. CASE NumberAt(a, n) > NumberAt(b, n)
    <3>1. DecidesAt(a, b, n)
      BY <2>2, <2>3, <2>4, NumberAtType DEF DecidesAt
    <3>. QED
      BY <3>1, NewerDecides
  <2>5. CASE NumberAt(b, n) > NumberAt(a, n)
    <3>1. DecidesAt(b, a, n)
      BY <2>2, <2>3, <2>5, NumberAtType DEF DecidesAt
    <3>. QED
      BY <3>1, NewerDecides
  <2>. QED
    BY <2>3, <2>4, <2>5
<1>. QED
  BY <1>1, <1>2

-----------------------------------------------------------------------------
(* Types. *)

USE ConstantsAssumption, NullAssumption

(* The latest item of a key is an item of the last snapshot, or Null. *)
LEMMA LatestItemType ==
  ASSUME TypeOK, NEW key \in Keys
  PROVE  /\ LatestItem(key) \in Item \cup {Null}
         /\ LatestItem(key) # Null =>
              /\ Len(snapshots) \in 1..Len(snapshots)
              /\ key \in DOMAIN snapshots[Len(snapshots)].items
              /\ LatestItem(key) = snapshots[Len(snapshots)].items[key]
<1>1. CASE snapshots = <<>>
  BY <1>1 DEF LatestItem
<1>2. CASE snapshots # <<>>
  <2>1. Len(snapshots) \in 1..Len(snapshots)
    BY <1>2 DEF TypeOK
  <2>2. IsSnapshot(snapshots[Len(snapshots)])
    BY <2>1 DEF TypeOK
  <2>. QED
    BY <1>2, <2>1, <2>2 DEF LatestItem, IsSnapshot
<1>. QED
  BY <1>1, <1>2

(* What a PUT may carry, reminders at any instant included: the bound that *)
(* RemindPatches puts on them is of the model.                             *)
Reminders == [field : {"remindAt"}, value : Nat]
TrioPatches ==
  [field : {"skippedVersion", "approvedVersion"}, value : Version] \cup Reminders
AnyPatches == VersionPatches \cup Reminders \cup AckPatches \cup {ClearPatch}

LEMMA RowType ==
  ASSUME TypeOK, NEW key \in Keys, NEW by \in Users
  PROVE  /\ \A patch \in TrioPatches : TrioRow(key, patch, by) \in Row
         /\ \A patch \in AckPatches : AckRow(key, patch, by) \in Row
<1>1. Acknowledged(key) \in {Null} \cup SUBSET Advisories
  BY DEF TypeOK, Acknowledged, Row
<1>2. PinnedNow(key) \in Pins \cup {Null}
  BY LatestItemType DEF PinnedNow, Item
<1>3. ASSUME NEW patch \in AckPatches
      PROVE  AckRow(key, patch, by) \in Row
  BY DEF TypeOK, AckPatches, AckRow, NoTrio, Row
<1>4. ASSUME NEW patch \in TrioPatches
      PROVE  TrioRow(key, patch, by) \in Row
  <2>1. CASE patch \in Reminders
    BY <1>1, <2>1 DEF Reminders, TypeOK, TrioRow, Row
  <2>2. CASE patch \in [field : {"skippedVersion", "approvedVersion"}, value : Version]
    BY <1>1, <1>2, <2>2 DEF TypeOK, TrioRow, Row
  <2>. QED
    BY <2>1, <2>2 DEF TrioPatches
<1>. QED
  BY <1>3, <1>4

(* What a valid patch leaves is a row, or nothing if it was a clear. *)
LEMMA NextRowType ==
  ASSUME TypeOK, NEW key \in Keys, NEW by \in Users, NEW patch \in AnyPatches,
         Valid(key, patch)
  PROVE  /\ NextRow(key, patch, by) \in Row \cup {Null}
         /\ patch # ClearPatch => NextRow(key, patch, by) \in Row
<1>1. CASE patch \in VersionPatches
  <2>1. patch \in TrioPatches
    BY <1>1 DEF Valid, VersionPatches, TrioPatches, Version
  <2>. QED
    BY <1>1, <2>1, RowType DEF NextRow, VersionPatches
<1>2. CASE patch \in Reminders
  <2>1. patch \in TrioPatches
    BY <1>2 DEF TrioPatches
  <2>. QED
    BY <1>2, <2>1, RowType DEF NextRow, Reminders
<1>3. CASE patch \in AckPatches
  BY <1>3, RowType DEF NextRow, AckPatches
<1>4. CASE patch = ClearPatch
  BY <1>4 DEF NextRow, ClearPatch
<1>. QED
  BY <1>1, <1>2, <1>3, <1>4 DEF AnyPatches

LEMMA PatchCommits ==
  ASSUME TypeOK, NEW key \in Keys, NEW by \in Users, NEW patch \in AnyPatches,
         PutDecision(key, patch, by)
  PROVE  /\ Commit(key, NextRow(key, patch, by), by)
         /\ NextRow(key, patch, by) \in Row \cup {Null}
         /\ patch # ClearPatch => NextRow(key, patch, by) \in Row
BY NextRowType DEF PutDecision

(* Every accepted PUT is one of three kinds of commit. *)
LEMMA PutCases ==
  ASSUME TypeOK, Put
  PROVE  \E key \in Keys, by \in Users :
           \/ \E patch \in TrioPatches : Commit(key, TrioRow(key, patch, by), by)
           \/ \E patch \in AckPatches :
                /\ patch.value \subseteq KnownAdvisories(key)
                /\ Commit(key, AckRow(key, patch, by), by)
           \/ Commit(key, Null, by)
<1>1. PICK key \in Keys, by \in Users :
        \/ \E patch \in VersionPatches : PutDecision(key, patch, by)
        \/ \E patch \in RemindPatches : PutDecision(key, patch, by)
        \/ \E patch \in AckPatches : PutDecision(key, patch, by)
        \/ PutDecision(key, ClearPatch, by)
  BY DEF Put
<1>2. ASSUME NEW patch \in VersionPatches, PutDecision(key, patch, by)
      PROVE  patch \in TrioPatches /\ Commit(key, TrioRow(key, patch, by), by)
  BY <1>2 DEF PutDecision, VersionPatches, TrioPatches, Valid, Version, NextRow
<1>3. ASSUME NEW patch \in RemindPatches, PutDecision(key, patch, by)
      PROVE  patch \in TrioPatches /\ Commit(key, TrioRow(key, patch, by), by)
  BY <1>3 DEF PutDecision, RemindPatches, Reminders, TrioPatches, NextRow
<1>4. ASSUME NEW patch \in AckPatches, PutDecision(key, patch, by)
      PROVE  /\ patch.value \subseteq KnownAdvisories(key)
             /\ Commit(key, AckRow(key, patch, by), by)
  BY <1>4 DEF PutDecision, AckPatches, Valid, NextRow
<1>5. CASE PutDecision(key, ClearPatch, by)
  BY <1>5 DEF PutDecision, ClearPatch, NextRow
<1>. QED
  BY <1>1, <1>2, <1>3, <1>4, <1>5

LEMMA PutCommits ==
  ASSUME TypeOK, Put
  PROVE  \E key \in Keys, after \in Row \cup {Null}, by \in Users : Commit(key, after, by)
BY PutCases, RowType

LEMMA CommitType ==
  ASSUME TypeOK, NEW key \in Keys, NEW after \in Row \cup {Null}, NEW by \in Users,
         Commit(key, after, by)
  PROVE  TypeOK'
<1>1. Entry(key, after, by) \in HistoryEntry
  BY DEF TypeOK, Entry, HistoryEntry
<1>. QED
  BY <1>1 DEF TypeOK, Commit

LEMMA TypeKept == TypeOK /\ [Next]_vars => TypeOK'
<1>. SUFFICES ASSUME TypeOK, [Next]_vars PROVE TypeOK'
  OBVIOUS
<1>1. CASE Put
  BY <1>1, PutCommits, CommitType
<1>2. ASSUME NEW doc \in Docs, Ingest(doc) PROVE TypeOK'
  BY <1>2 DEF TypeOK, Ingest
<1>3. CASE Tick
  BY <1>3 DEF TypeOK, Tick
<1>4. CASE UNCHANGED vars
  BY <1>4 DEF TypeOK, vars
<1>. QED
  BY <1>1, <1>2, <1>3, <1>4 DEF Next

(* Every reachable state has the types of the tables; in particular only   *)
(* recognised versions are ever stored (decisions.ts, putDecision).        *)
THEOREM TypeCorrect == Spec => []TypeOK
<1>1. Init => TypeOK
  BY DEF Init, TypeOK
<1>. QED
  BY <1>1, TypeKept, PTL DEF Spec

-----------------------------------------------------------------------------
(* The audit trail. *)

(* What a commit appends, and that it leaves the earlier entries alone. *)
LEMMA CommitAppends ==
  ASSUME TypeOK, NEW key \in Keys, NEW after \in Row \cup {Null}, NEW by \in Users,
         Commit(key, after, by)
  PROVE  /\ Len(history') = Len(history) + 1
         /\ \A i \in 1..Len(history) : history'[i] = history[i]
         /\ history'[Len(history) + 1] = Entry(key, after, by)
         /\ \A k \in Keys : decisions'[k] = IF k = key THEN after ELSE decisions[k]
BY DEF TypeOK, Commit

(* Only the first n entries of a log matter to what they left. *)
LEMMA LeftByPrefix ==
  ASSUME NEW log, NEW longer, NEW n \in Nat, NEW key, NEW row,
         \A i \in 1..n : longer[i] = log[i],
         LeftBy(log, n, key, row)
  PROVE  LeftBy(longer, n, key, row)
<1>1. CASE row = Null /\ \A j \in 1..n : log[j].key # key
  BY <1>1 DEF LeftBy
<1>2. ASSUME NEW j \in 1..n, log[j].key = key, log[j].after = row,
             \A m \in (j+1)..n : log[m].key # key
      PROVE  LeftBy(longer, n, key, row)
  <2>1. \A m \in (j+1)..n : longer[m].key # key
    BY <1>2
  <2>. QED
    BY <1>2, <2>1 DEF LeftBy
<1>. QED
  BY <1>1, <1>2 DEF LeftBy

(* An entry about another key leaves the row of this one. *)
LEMMA LeftByOtherKey ==
  ASSUME NEW log, NEW n \in Nat, NEW key, NEW row, LeftBy(log, n, key, row),
         log[n+1].key # key
  PROVE  LeftBy(log, n + 1, key, row)
<1>1. CASE row = Null /\ \A j \in 1..n : log[j].key # key
  BY <1>1 DEF LeftBy
<1>2. ASSUME NEW j \in 1..n, log[j].key = key, log[j].after = row,
             \A m \in (j+1)..n : log[m].key # key
      PROVE  LeftBy(log, n + 1, key, row)
  <2>1. \A m \in (j+1)..(n+1) : log[m].key # key
    BY <1>2
  <2>. QED
    BY <1>2, <2>1 DEF LeftBy
<1>. QED
  BY <1>1, <1>2 DEF LeftBy

LEMMA LeftByLastEntry ==
  ASSUME NEW log, NEW n \in Nat
  PROVE  LeftBy(log, n + 1, log[n+1].key, log[n+1].after)
BY DEF LeftBy

LEMMA CommitKeepsAuditChain ==
  ASSUME TypeOK, AuditChain, NEW key \in Keys, NEW after \in Row \cup {Null},
         NEW by \in Users, Commit(key, after, by)
  PROVE  AuditChain'
<1>. DEFINE n == Len(history)
<1>1. /\ n \in Nat
      /\ Len(history') = n + 1
      /\ \A i \in 1..n : history'[i] = history[i]
      /\ history'[n + 1].key = key
      /\ history'[n + 1].before = decisions[key]
      /\ history'[n + 1].after = after
      /\ \A k \in Keys : decisions'[k] = IF k = key THEN after ELSE decisions[k]
  <2>1. n \in Nat
    BY DEF TypeOK
  <2>2. history'[n + 1] = Entry(key, after, by)
    BY CommitAppends
  <2>. QED
    BY <2>1, <2>2, CommitAppends DEF Entry
<1>. HIDE DEF n
<1>2. /\ \A i \in 1..n : LeftBy(history, i - 1, history[i].key, history[i].before)
      /\ \A k \in Keys : LeftBy(history, n, k, decisions[k])
  BY DEF AuditChain, n
<1>3. ASSUME NEW k, NEW row, NEW m \in 0..n, LeftBy(history, m, k, row)
      PROVE  LeftBy(history', m, k, row)
  <2>1. m \in Nat /\ \A i \in 1..m : history'[i] = history[i]
    BY <1>1
  <2>. QED
    BY <1>3, <2>1, LeftByPrefix
<1>4. ASSUME NEW i \in 1..(n + 1)
      PROVE  LeftBy(history', i - 1, history'[i].key, history'[i].before)
  <2>1. CASE i \in 1..n
    <3>1. history'[i] = history[i] /\ i - 1 \in 0..n
      BY <1>1, <2>1
    <3>. QED
      BY <1>2, <1>3, <2>1, <3>1
  <2>2. CASE i = n + 1
    <3>1. i - 1 = n /\ n \in 0..n
      BY <1>1, <2>2
    <3>. QED
      BY <1>1, <1>2, <1>3, <2>2, <3>1
  <2>. QED
    BY <1>1, <2>1, <2>2
<1>5. ASSUME NEW k \in Keys
      PROVE  LeftBy(history', n + 1, k, decisions'[k])
  <2>1. CASE k = key
    BY <1>1, <2>1, LeftByLastEntry
  <2>2. CASE k # key
    <3>1. LeftBy(history', n, k, decisions[k])
      BY <1>1, <1>2, <1>3
    <3>. QED
      BY <1>1, <2>2, <3>1, LeftByOtherKey
  <2>. QED
    BY <2>1, <2>2
<1>. QED
  BY <1>1, <1>4, <1>5 DEF AuditChain

(* The decision_history of every reachable store replays to its decisions  *)
(* table, entry by entry (decisions.ts, putDecision).                      *)
THEOREM AuditChainHolds == Spec => []AuditChain
<1>1. Init => AuditChain
  BY DEF Init, AuditChain, LeftBy
<1>2. TypeOK /\ AuditChain /\ [Next]_vars => AuditChain'
  <2>. SUFFICES ASSUME TypeOK, AuditChain, [Next]_vars PROVE AuditChain'
    OBVIOUS
  <2>1. CASE Put
    BY <2>1, PutCommits, CommitKeepsAuditChain
  <2>2. CASE UNCHANGED <<decisions, history>>
    BY <2>2 DEF AuditChain, LeftBy
  <2>. QED
    BY <2>1, <2>2 DEF Next, Ingest, Tick, vars
<1>. QED
  BY <1>1, <1>2, TypeCorrect, PTL DEF Spec

-----------------------------------------------------------------------------
(* The two axes of a decision. *)

(* Every row on record is what some entry left, so it has one target. *)
AxesInv ==
  /\ AxesIndependent
  /\ \A key \in Keys : decisions[key] # Null => OneTarget(decisions[key])

(* What a PUT of one field does to the row it replaces. *)
LEMMA PutChangesOneAxis ==
  ASSUME TypeOK, AxesInv, Put
  PROVE  \E key \in Keys, after \in Row \cup {Null}, by \in Users :
           /\ Commit(key, after, by)
           /\ after # Null =>
                /\ OneTarget(after)
                /\ \/ TrioOf(after) = TrioOf(decisions[key])
                   \/ AckOf(after) = AckOf(decisions[key])
<1>1. PICK key \in Keys, by \in Users :
        \/ \E patch \in TrioPatches : Commit(key, TrioRow(key, patch, by), by)
        \/ \E patch \in AckPatches :
             /\ patch.value \subseteq KnownAdvisories(key)
             /\ Commit(key, AckRow(key, patch, by), by)
        \/ Commit(key, Null, by)
  BY PutCases
<1>2. ASSUME NEW patch \in TrioPatches, Commit(key, TrioRow(key, patch, by), by)
      PROVE  \E after \in Row :
               /\ Commit(key, after, by)
               /\ OneTarget(after)
               /\ AckOf(after) = AckOf(decisions[key])
  <2>. DEFINE after == TrioRow(key, patch, by)
  <2>1. after \in Row
    BY RowType
  <2>2. after # Null
    BY <2>1 DEF NullAssumption
  <2>3. patch.field = "approvedVersion" => patch.value # Null
    BY DEF TrioPatches, Reminders, Version, NullAssumption
  <2>4. OneTarget(after)
    BY <2>3 DEF OneTarget, TrioRow
  <2>5. AckOf(after) = AckOf(decisions[key])
    BY <2>2 DEF AckOf, TrioRow, Acknowledged
  <2>. QED
    BY <1>2, <2>1, <2>4, <2>5
<1>3. ASSUME NEW patch \in AckPatches, Commit(key, AckRow(key, patch, by), by)
      PROVE  \E after \in Row :
               /\ Commit(key, after, by)
               /\ OneTarget(after)
               /\ TrioOf(after) = TrioOf(decisions[key])
  <2>. DEFINE after == AckRow(key, patch, by)
  <2>1. after \in Row
    BY RowType
  <2>2. after # Null
    BY <2>1 DEF NullAssumption
  <2>3. TrioOf(after) = TrioOf(decisions[key])
    BY <2>2 DEF TrioOf, AckRow, NoTrio
  <2>4. OneTarget(after)
    BY DEF AxesInv, OneTarget, AckRow, NoTrio
  <2>. QED
    BY <1>3, <2>1, <2>3, <2>4
<1>. QED
  BY <1>1, <1>2, <1>3

LEMMA AxesInvariant == Spec => [](TypeOK /\ AxesInv)
<1>1. Init => AxesInv
  BY DEF Init, AxesInv, AxesIndependent
<1>2. TypeOK /\ AxesInv /\ [Next]_vars => AxesInv'
  <2>. SUFFICES ASSUME TypeOK, AxesInv, [Next]_vars PROVE AxesInv'
    OBVIOUS
  <2>1. CASE Put
    <3>1. PICK key \in Keys, after \in Row \cup {Null}, by \in Users :
            /\ Commit(key, after, by)
            /\ after # Null =>
                 /\ OneTarget(after)
                 /\ \/ TrioOf(after) = TrioOf(decisions[key])
                    \/ AckOf(after) = AckOf(decisions[key])
      BY <2>1, PutChangesOneAxis
    <3>. DEFINE n == Len(history)
    <3>2. /\ n \in Nat
          /\ Len(history') = n + 1
          /\ \A i \in 1..n : history'[i] = history[i]
          /\ history'[n + 1] = Entry(key, after, by)
          /\ \A k \in Keys : decisions'[k] = IF k = key THEN after ELSE decisions[k]
      <4>1. n \in Nat
        BY DEF TypeOK
      <4>. QED
        BY <3>1, <4>1, CommitAppends
    <3>3. AxesIndependent'
      <4>. SUFFICES ASSUME NEW i \in 1..(n + 1), history'[i].after # Null
                    PROVE  /\ OneTarget(history'[i].after)
                           /\ \/ TrioOf(history'[i].after) = TrioOf(history'[i].before)
                              \/ AckOf(history'[i].after) = AckOf(history'[i].before)
        BY <3>2 DEF AxesIndependent, OneTarget, TrioOf, AckOf
      <4>1. CASE i \in 1..n
        BY <3>2, <4>1 DEF AxesInv, AxesIndependent
      <4>2. CASE i = n + 1
        BY <3>1, <3>2, <4>2 DEF Entry
      <4>. QED
        BY <3>2, <4>1, <4>2
    <3>4. ASSUME NEW k \in Keys, decisions'[k] # Null
          PROVE  OneTarget(decisions'[k])
      BY <3>1, <3>2, <3>4 DEF AxesInv
    <3>. QED
      BY <3>3, <3>4 DEF AxesInv, OneTarget
  <2>2. CASE UNCHANGED <<decisions, history>>
    BY <2>2 DEF AxesInv, AxesIndependent, OneTarget, TrioOf, AckOf
  <2>. QED
    BY <2>1, <2>2 DEF Next, Ingest, Tick, vars
<1>. QED
  BY <1>1, <1>2, TypeCorrect, PTL DEF Spec

(* No accepted PUT changes both axes, and no row has two targets. *)
THEOREM AxesIndependentHolds == Spec => []AxesIndependent
<1>1. AxesInv => AxesIndependent
  BY DEF AxesInv
<1>. QED
  BY <1>1, AxesInvariant, PTL

-----------------------------------------------------------------------------
(* What a row cites was published under its own key. *)

PublishedAdvisory(log, key, id) ==
  \E i \in 1..Len(log) :
    /\ key \in DOMAIN log[i].items
    /\ \E a \in log[i].items[key].advisories : a.id = id

PublishedPin(log, key, pin) ==
  \E i \in 1..Len(log) :
    /\ key \in DOMAIN log[i].items
    /\ log[i].items[key].pinned = pin

Cites(log, key, row) ==
  /\ AckOf(row) # Null => \A id \in AckOf(row) : PublishedAdvisory(log, key, id)
  /\ row.approvedFromPinned # Null => PublishedPin(log, key, row.approvedFromPinned)

LEMMA RowsCite ==
  RowsCiteSnapshots <=>
    \A key \in Keys : decisions[key] # Null => Cites(snapshots, key, decisions[key])
BY DEF RowsCiteSnapshots, Cites, PublishedAdvisory, PublishedPin

(* The row a PUT records cites the latest snapshot, or what it replaced. *)
LEMMA PutCites ==
  ASSUME TypeOK, RowsCiteSnapshots, Put
  PROVE  \E key \in Keys, after \in Row \cup {Null}, by \in Users :
           /\ Commit(key, after, by)
           /\ after # Null => Cites(snapshots, key, after)
<1>1. PICK key \in Keys, by \in Users :
        \/ \E patch \in TrioPatches : Commit(key, TrioRow(key, patch, by), by)
        \/ \E patch \in AckPatches :
             /\ patch.value \subseteq KnownAdvisories(key)
             /\ Commit(key, AckRow(key, patch, by), by)
        \/ Commit(key, Null, by)
  BY PutCases
<1>2. ASSUME NEW patch \in TrioPatches, Commit(key, TrioRow(key, patch, by), by)
      PROVE  \E after \in Row : Commit(key, after, by) /\ Cites(snapshots, key, after)
  <2>. DEFINE after == TrioRow(key, patch, by)
  <2>1. after \in Row
    BY RowType
  <2>2. after # Null
    BY <2>1 DEF NullAssumption
  <2>3. AckOf(after) = AckOf(decisions[key])
    BY <2>2 DEF AckOf, TrioRow, Acknowledged
  <2>4. ASSUME AckOf(after) # Null, NEW id \in AckOf(after)
        PROVE  PublishedAdvisory(snapshots, key, id)
    <3>1. decisions[key] # Null
      BY <2>3, <2>4 DEF AckOf
    <3>. QED
      BY <2>3, <2>4, <3>1, RowsCite DEF Cites
  <2>5. ASSUME after.approvedFromPinned # Null
        PROVE  PublishedPin(snapshots, key, after.approvedFromPinned)
    <3>1. after.approvedFromPinned = PinnedNow(key)
      BY <2>5 DEF TrioRow
    <3>2. LatestItem(key) # Null
      BY <2>5, <3>1 DEF PinnedNow
    <3>. QED
      BY <3>1, <3>2, LatestItemType DEF PinnedNow, PublishedPin
  <2>. QED
    BY <1>2, <2>1, <2>4, <2>5 DEF Cites
<1>3. ASSUME NEW patch \in AckPatches, patch.value \subseteq KnownAdvisories(key),
             Commit(key, AckRow(key, patch, by), by)
      PROVE  \E after \in Row : Commit(key, after, by) /\ Cites(snapshots, key, after)
  <2>. DEFINE after == AckRow(key, patch, by)
  <2>1. after \in Row
    BY RowType
  <2>2. after # Null
    BY <2>1 DEF NullAssumption
  <2>3. ASSUME NEW id \in AckOf(after)
        PROVE  PublishedAdvisory(snapshots, key, id)
    <3>1. id \in KnownAdvisories(key)
      BY <1>3, <2>2, <2>3 DEF AckOf, AckRow
    <3>2. LatestItem(key) # Null /\ \E a \in LatestItem(key).advisories : a.id = id
      BY <3>1 DEF KnownAdvisories
    <3>. QED
      BY <3>2, LatestItemType DEF PublishedAdvisory
  <2>4. ASSUME after.approvedFromPinned # Null
        PROVE  PublishedPin(snapshots, key, after.approvedFromPinned)
    BY <2>4, RowsCite DEF AckRow, NoTrio, Cites
  <2>. QED
    BY <1>3, <2>1, <2>3, <2>4 DEF Cites
<1>. QED
  BY <1>1, <1>2, <1>3

(* A later snapshot takes nothing back. *)
LEMMA IngestKeepsCites ==
  ASSUME TypeOK, NEW doc \in Docs, Ingest(doc), NEW key \in Keys, NEW row,
         Cites(snapshots, key, row)
  PROVE  Cites(snapshots', key, row)
<1>1. /\ Len(snapshots') = Len(snapshots) + 1
      /\ \A i \in 1..Len(snapshots) : snapshots'[i] = snapshots[i]
  BY DEF TypeOK, Ingest
<1>2. 1..Len(snapshots) \subseteq 1..Len(snapshots')
  BY <1>1 DEF TypeOK
<1>3. ASSUME NEW id, PublishedAdvisory(snapshots, key, id)
      PROVE  PublishedAdvisory(snapshots', key, id)
  BY <1>1, <1>2, <1>3 DEF PublishedAdvisory
<1>4. ASSUME NEW pin, PublishedPin(snapshots, key, pin)
      PROVE  PublishedPin(snapshots', key, pin)
  BY <1>1, <1>2, <1>4 DEF PublishedPin
<1>. QED
  BY <1>3, <1>4 DEF Cites

(* Every acknowledged advisory, and the pin an approval started from, was  *)
(* published under the row's own key (decisions.ts, putDecision).          *)
THEOREM RowsCiteSnapshotsHolds == Spec => []RowsCiteSnapshots
<1>1. Init => RowsCiteSnapshots
  BY DEF Init, RowsCiteSnapshots
<1>2. TypeOK /\ RowsCiteSnapshots /\ [Next]_vars => RowsCiteSnapshots'
  <2>. SUFFICES ASSUME TypeOK, RowsCiteSnapshots, [Next]_vars PROVE RowsCiteSnapshots'
    OBVIOUS
  <2>. SUFFICES ASSUME NEW k \in Keys, decisions'[k] # Null
                PROVE  Cites(snapshots', k, decisions'[k])
    BY DEF RowsCiteSnapshots, Cites, PublishedAdvisory, PublishedPin, AckOf
  <2>1. CASE Put
    <3>1. PICK key \in Keys, after \in Row \cup {Null}, by \in Users :
            /\ Commit(key, after, by)
            /\ after # Null => Cites(snapshots, key, after)
      BY <2>1, PutCites
    <3>2. snapshots' = snapshots /\ decisions'[k] = IF k = key THEN after ELSE decisions[k]
      <4>1. snapshots' = snapshots
        BY <3>1 DEF Commit
      <4>. QED
        BY <3>1, <4>1, CommitAppends
    <3>. QED
      BY <3>1, <3>2, RowsCite
  <2>2. ASSUME NEW doc \in Docs, Ingest(doc)
        PROVE  Cites(snapshots', k, decisions'[k])
    BY <2>2, RowsCite, IngestKeepsCites DEF Ingest
  <2>3. CASE UNCHANGED <<snapshots, decisions>>
    BY <2>3, RowsCite
  <2>. QED
    BY <2>1, <2>2, <2>3 DEF Next, Tick, vars
<1>. QED
  BY <1>1, <1>2, TypeCorrect, PTL DEF Spec

-----------------------------------------------------------------------------
(* Which decisions a change of one key can reach, and what must be on      *)
(* record before an advisory disappears.                                   *)

(* No row is dated in the future. *)
RowsDated ==
  \A k \in Keys : decisions[k] # Null => decisions[k].updatedAt <= clock

LEMMA PutKeepsDates ==
  ASSUME TypeOK, RowsDated, NEW key \in Keys, NEW patch, NEW by, PutDecision(key, patch, by)
  PROVE  RowsDated'
<1>1. PICK row : row = NextRow(key, patch, by)
  OBVIOUS
<1>2. row # Null => row.updatedAt = clock
  BY <1>1 DEF NextRow, AckRow, TrioRow
<1>3. clock' = clock /\ \A k \in Keys : decisions'[k] = IF k = key THEN row ELSE decisions[k]
  BY <1>1 DEF PutDecision, Commit, TypeOK
<1>4. ASSUME NEW k \in Keys, decisions'[k] # Null PROVE decisions'[k].updatedAt <= clock
  <2>. clock \in Nat
    BY DEF TypeOK
  <2>1. CASE k = key
    BY <1>2, <1>3, <1>4, <2>1
  <2>2. CASE k # key
    BY <1>3, <1>4, <2>2 DEF RowsDated
  <2>. QED
    BY <2>1, <2>2
<1>. QED
  BY <1>3, <1>4 DEF RowsDated

LEMMA RowsDatedKept == TypeOK /\ RowsDated /\ [Next]_vars => RowsDated'
<1>. SUFFICES ASSUME TypeOK, RowsDated, [Next]_vars PROVE RowsDated'
  OBVIOUS
<1>1. CASE Put
  BY <1>1, PutKeepsDates DEF Put
<1>2. CASE Tick
  BY <1>2 DEF Tick, RowsDated, TypeOK, Row
<1>3. ASSUME NEW doc \in Docs, Ingest(doc) PROVE RowsDated'
  BY <1>3 DEF Ingest, RowsDated
<1>4. CASE UNCHANGED vars
  BY <1>4 DEF vars, RowsDated
<1>. QED
  BY <1>1, <1>2, <1>3, <1>4 DEF Next

LEMMA DatedInvariant == Spec => [](TypeOK /\ RowsDated)
<1>1. Init => RowsDated
  BY DEF Init, RowsDated
<1>. QED
  BY <1>1, RowsDatedKept, TypeCorrect, PTL DEF Spec

-----------------------------------------------------------------------------
(* The newest candidate. *)

Older(c, k) ==
  \/ decisions[c].updatedAt < decisions[k].updatedAt
  \/ decisions[c].updatedAt = decisions[k].updatedAt /\ k <= c

IsNewest(k, key) == k \in Candidates(key) /\ \A c \in Candidates(key) : Older(c, k)

LEMMA LeastNumber ==
  ASSUME NEW S, S \subseteq Nat, S # {}
  PROVE  \E n \in S : \A m \in S : n <= m
<1>1. IsWellFoundedOn(OpToRel(<, Nat), Nat)
  BY NatLessThanWellFounded
<1>2. PICK n \in S : \A m \in S : ~(<<m, n>> \in OpToRel(<, Nat))
  BY <1>1, WFMin
<1>3. \A m \in S : ~(m < n)
  BY <1>2 DEF OpToRel
<1>. QED
  BY <1>3

LEMMA CandidateTypes ==
  ASSUME TypeOK, RowsDated, NEW key, NEW k \in Candidates(key)
  PROVE  /\ k \in Keys /\ k \in Nat /\ decisions[k] # Null
         /\ decisions[k].updatedAt \in Nat /\ decisions[k].updatedAt <= clock
         /\ RepoKindName[k] = RepoKindName[key]
BY ConstantsAssumption DEF Candidates, TypeOK, RowsDated, Row

(* Of the candidates one was decided last, or was first by key among them. *)
LEMMA NewestExists ==
  ASSUME TypeOK, RowsDated, NEW key, Candidates(key) # {}
  PROVE  \E k : IsNewest(k, key)
<1>. DEFINE C == Candidates(key)
            ages == {clock - decisions[k].updatedAt : k \in C}
<1>1. ages \subseteq Nat /\ ages # {}
  BY CandidateTypes DEF TypeOK
<1>2. PICK age \in ages : \A m \in ages : age <= m
  BY <1>1, LeastNumber
<1>. DEFINE L == {k \in C : clock - decisions[k].updatedAt = age}
<1>3. L \subseteq Nat /\ L # {}
  BY <1>2, CandidateTypes
<1>4. PICK k \in L : \A m \in L : k <= m
  BY <1>3, LeastNumber
<1>5. ASSUME NEW c \in C PROVE Older(c, k)
  <2>1. clock - decisions[k].updatedAt <= clock - decisions[c].updatedAt
    BY <1>2, <1>4
  <2>2. decisions[c].updatedAt <= decisions[k].updatedAt
    BY <2>1, <1>4, CandidateTypes DEF TypeOK
  <2>3. decisions[c].updatedAt = decisions[k].updatedAt => c \in L
    BY <1>4
  <2>. QED
    BY <1>4, <2>2, <2>3, CandidateTypes DEF Older
<1>. QED
  BY <1>4, <1>5 DEF IsNewest

NewestIsChosen ==
  \A key : Candidates(key) # {} => IsNewest(NewestCandidate(key), key)

LEMMA NewestChosen == TypeOK /\ RowsDated => NewestIsChosen
<1>. SUFFICES ASSUME TypeOK, RowsDated, NEW key, Candidates(key) # {}
              PROVE  IsNewest(NewestCandidate(key), key)
  BY DEF NewestIsChosen
<1>1. \E k \in Candidates(key) : \A c \in Candidates(key) : Older(c, k)
  BY NewestExists DEF IsNewest
<1>. QED
  BY <1>1 DEF NewestCandidate, IsNewest, Older

(* A carried decision is one of the same repo|kind|name. *)
LEMMA MatchedKeyTypes ==
  ASSUME TypeOK, RowsDated, NEW key \in Keys, NEW items, MatchedKey(key, items) # Null
  PROVE  /\ MatchedKey(key, items) \in Keys
         /\ decisions[MatchedKey(key, items)] # Null
         /\ \/ MatchedKey(key, items) = key
            \/ /\ RepoKindName[MatchedKey(key, items)] = RepoKindName[key]
               /\ ~Ambiguous(key, items)
<1>1. CASE decisions[key] # Null
  BY <1>1 DEF MatchedKey
<1>2. CASE decisions[key] = Null
  <2>1. /\ ~Ambiguous(key, items) /\ Candidates(key) # {}
        /\ MatchedKey(key, items) = NewestCandidate(key)
    BY <1>2 DEF MatchedKey
  <2>2. NewestCandidate(key) \in Candidates(key)
    BY <2>1, NewestChosen DEF NewestIsChosen, IsNewest
  <2>. QED
    BY <2>1, <2>2, CandidateTypes
<1>. QED
  BY <1>1, <1>2

(* No advisory disappears from the dashboard unless somebody acknowledged  *)
(* it: findDecisionForItem only ever finds a row whose acknowledgement is  *)
(* in the audit trail, of this item or of one it may be carried over from. *)
THEOREM SilencedWasAcknowledgedHolds == Spec => []SilencedWasAcknowledged
<1>1. TypeOK /\ RowsDated /\ AuditChain => SilencedWasAcknowledged
  <2>. SUFFICES ASSUME TypeOK, RowsDated, AuditChain,
                       NEW i \in 1..Len(snapshots), NEW key \in DOMAIN snapshots[i].items,
                       NEW items, items = snapshots[i].items,
                       EffectiveAdvisoryStatus(items[key], DecisionFor(key, items))
                         # items[key].advisoryStatus,
                       NEW a \in items[key].advisories, a.affected
                PROVE  \E j \in 1..Len(history) :
                         /\ AckOf(history[j].after) # Null
                         /\ a.id \in AckOf(history[j].after)
                         /\ \/ history[j].key = key
                            \/ /\ RepoKindName[history[j].key] = RepoKindName[key]
                               /\ ~Ambiguous(key, items)
    BY DEF SilencedWasAcknowledged
  <2>1. key \in Keys
    <3>1. snapshots[i] \in Docs
      BY DEF TypeOK
    <3>. QED
      BY <3>1, ConstantsAssumption DEF IsSnapshot
  <2>2. a.id \in AcknowledgedIds(DecisionFor(key, items))
    BY DEF EffectiveAdvisoryStatus
  <2>3. PICK from : from = MatchedKey(key, items)
    OBVIOUS
  <2>4. /\ from # Null /\ DecisionFor(key, items) = decisions[from]
        /\ AckOf(decisions[from]) # Null /\ a.id \in AckOf(decisions[from])
    BY <2>2, <2>3 DEF DecisionFor, AcknowledgedIds, AckOf
  <2>5. /\ from \in Keys /\ decisions[from] # Null
        /\ from = key \/ (RepoKindName[from] = RepoKindName[key] /\ ~Ambiguous(key, items))
    BY <2>1, <2>3, <2>4, MatchedKeyTypes
  <2>6. PICK j \in 1..Len(history) : history[j].key = from /\ history[j].after = decisions[from]
    BY <2>5 DEF AuditChain, LeftBy
  <2>. QED
    BY <2>4, <2>5, <2>6
<1>. QED
  BY <1>1, DatedInvariant, AuditChainHolds, PTL

-----------------------------------------------------------------------------
(* Which decisions a write can reach. *)

(* Rows other than those of `key` and its candidates play no part in what  *)
(* is decided about it.                                                    *)
LEMMA SameCandidatesSameMatch ==
  ASSUME TypeOK, RowsDated, TypeOK', RowsDated',
         NEW key \in Keys, NEW items,
         decisions'[key] = decisions[key],
         \A k \in Keys : RepoKindName[k] = RepoKindName[key] => decisions'[k] = decisions[k]
  PROVE  DecisionFor(key, items)' = DecisionFor(key, items)
<1>1. Candidates(key)' = Candidates(key)
  BY DEF Candidates
<1>2. CASE decisions[key] # Null
  BY <1>2 DEF DecisionFor, MatchedKey
<1>3. CASE decisions[key] = Null /\ (Ambiguous(key, items) \/ Candidates(key) = {})
  BY <1>1, <1>3 DEF DecisionFor, MatchedKey, Ambiguous
<1>4. CASE decisions[key] = Null /\ ~Ambiguous(key, items) /\ Candidates(key) # {}
  <2>1. PICK k : k = NewestCandidate(key)
    OBVIOUS
  <2>2. PICK l : l = NewestCandidate(key)'
    OBVIOUS
  <2>3. NewestIsChosen /\ NewestIsChosen'
    BY NewestChosen, PTL
  <2>4. /\ k \in Candidates(key) /\ \A c \in Candidates(key) : Older(c, k)
        /\ l \in Candidates(key) /\ \A c \in Candidates(key) : Older(c, l)'
    <3>1. IsNewest(NewestCandidate(key), key)'
      BY <1>1, <1>4, <2>3 DEF NewestIsChosen
    <3>2. IsNewest(NewestCandidate(key), key)
      BY <1>4, <2>3 DEF NewestIsChosen
    <3>. QED
      BY <1>1, <2>1, <2>2, <3>1, <3>2 DEF IsNewest
  <2>5. Older(l, k) /\ Older(k, l)
    BY <2>4, CandidateTypes DEF Older
  <2>6. k = l
    BY <2>4, <2>5, CandidateTypes DEF Older
  <2>7. DecisionFor(key, items) = decisions[k] /\ DecisionFor(key, items)' = decisions'[l]
    BY <1>1, <1>4, <2>1, <2>2, <2>4, CandidateTypes, NullAssumption
       DEF DecisionFor, MatchedKey, Ambiguous
  <2>. QED
    BY <2>4, <2>6, <2>7, CandidateTypes
<1>. QED
  BY <1>2, <1>3, <1>4

(* A write to one key changes what applies to that item, and to the sole   *)
(* live item of the same repo|kind|name, and to no other.                  *)
LEMMA WriteReaches ==
  ASSUME TypeOK, RowsDated, TypeOK', RowsDated',
         NEW written \in Keys, NEW after \in Row \cup {Null}, NEW by \in Users,
         Commit(written, after, by),
         NEW key \in Keys, LatestDecisionFor(key)' # LatestDecisionFor(key)
  PROVE  \/ written = key
         \/ RepoKindName[written] = RepoKindName[key] /\ ~Ambiguous(key, LatestItems)
<1>1. PICK items : items = LatestItems
  OBVIOUS
<1>2. /\ LatestDecisionFor(key) = DecisionFor(key, items)
      /\ LatestDecisionFor(key)' = DecisionFor(key, items)'
  BY <1>1 DEF LatestDecisionFor, LatestItems, Commit
<1>3. \A k \in Keys : k # written => decisions'[k] = decisions[k]
  BY CommitAppends
<1>4. CASE written # key /\ RepoKindName[written] # RepoKindName[key]
  BY <1>2, <1>3, <1>4, SameCandidatesSameMatch
<1>5. CASE written # key /\ Ambiguous(key, items)
  BY <1>1, <1>2, <1>3, <1>5 DEF DecisionFor, MatchedKey, Ambiguous
<1>. QED
  BY <1>1, <1>4, <1>5

(* Deciding one item never decides another that was not moved from it: the *)
(* ambiguity gate of findDecisionForItem holds for every estate.           *)
THEOREM SiblingIsolationHolds == Spec => SiblingIsolation
<1>1. TypeOK /\ RowsDated /\ TypeOK' /\ RowsDated' /\ [Next]_vars => [WritesStayWithTheItem]_vars
  <2>. SUFFICES ASSUME TypeOK, RowsDated, TypeOK', RowsDated', [Next]_vars,
                       NEW key \in DOMAIN LatestItems,
                       history' # history, LatestDecisionFor(key)' # LatestDecisionFor(key)
                PROVE  LET decided == history'[Len(history')].key
                       IN  \/ decided = key
                           \/ /\ RepoKindName[decided] = RepoKindName[key]
                              /\ ~Ambiguous(key, LatestItems)
    BY DEF WritesStayWithTheItem
  <2>1. key \in Keys
    <3>1. snapshots # <<>> => snapshots[Len(snapshots)] \in Docs
      BY DEF TypeOK
    <3>2. CASE snapshots = <<>>
      BY <3>2 DEF LatestItems
    <3>3. CASE snapshots # <<>>
      BY <3>1, <3>3, ConstantsAssumption DEF LatestItems, IsSnapshot
    <3>. QED
      BY <3>2, <3>3
  <2>2. Put
    BY DEF Next, Ingest, Tick, vars
  <2>3. PICK written \in Keys, after \in Row \cup {Null}, by \in Users : Commit(written, after, by)
    BY <2>2, PutCommits
  <2>4. history'[Len(history')].key = written
    <3>1. Len(history') = Len(history) + 1
      BY <2>3, CommitAppends
    <3>2. history'[Len(history) + 1] = Entry(written, after, by)
      BY <2>3, CommitAppends
    <3>. QED
      BY <3>1, <3>2 DEF Entry
  <2>. QED
    BY <2>1, <2>3, <2>4, WriteReaches
<1>. QED
  BY <1>1, DatedInvariant, PTL DEF Spec, SiblingIsolation
=============================================================================
