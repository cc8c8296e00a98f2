---------------------------- MODULE IngestProofs ----------------------------
(***************************************************************************)
(* Theorems about Ingest, for inventories and reports of any length.       *)
(***************************************************************************)
EXTENDS Ingest, WellFoundedInduction, TLAPS

-----------------------------------------------------------------------------
(* Numbers. *)

LEMMA LeastNumber ==
  ASSUME NEW S, S \subseteq Nat, S # {}
  PROVE  \E n \in S : \A m \in S : n <= m
<1>1. IsWellFoundedOn(OpToRel(<, Nat), Nat)
  BY NatLessThanWellFounded
<1>2. PICK n \in S : \A m \in S : ~(<<m, n>> \in OpToRel(<, Nat))
  BY <1>1, WFMin
<1>3. \A m \in S : ~(m < n)
  BY <1>2 DEF OpToRel
<1>. QED
  BY <1>3

LEMMA LargestIs ==
  ASSUME NEW n \in Nat, NEW s, s \subseteq 1..n, s # {}
  PROVE  Max(s) \in s /\ \A x \in s : x <= Max(s)
<1>. DEFINE below == {n - x : x \in s}
<1>1. below \subseteq Nat /\ below # {}
  <2>1. \A x \in s : x \in 1..n
    OBVIOUS
  <2>2. \A x \in 1..n : n - x \in Nat
    OBVIOUS
  <2>. QED
    BY <2>1, <2>2
<1>2. PICK least \in below : \A m \in below : least <= m
  <2>. HIDE DEF below
  <2>. QED
    BY <1>1, LeastNumber
<1>3. PICK most \in s : least = n - most
  BY <1>2
<1>4. \A x \in s : n - most <= n - x
  BY <1>2, <1>3
<1>5. \A x \in s : most >= x
  BY <1>4
<1>. QED
  BY <1>5 DEF Max

-----------------------------------------------------------------------------
(* The map a list makes.  ByKey folds set() over the positions of a list,  *)
(* the last one outermost.                                                 *)

Set(map, item) ==
  [k \in DOMAIN map \cup {item.key} |-> IF k = item.key THEN item ELSE map[k]]

Step(list, maps, s) ==
  IF s = {} THEN <<>> ELSE Set(maps[s \ {Max(s)}], list[Max(s)])

Maps(list) == CHOOSE maps : maps = [s \in SUBSET DOMAIN list |-> Step(list, maps, s)]

LEMMA ByKeyIs == ASSUME NEW list PROVE ByKey(list) = Maps(list)[DOMAIN list]
BY Zenon DEF Maps, Step, Set, ByKey, FoldLeft, MapThenFoldSet

(* The recursion has a solution: up to any position, hence for all. *)
Solves(list, n, maps) == maps = [s \in SUBSET (1..n) |-> Step(list, maps, s)]

LEMMA SolutionGrows ==
  ASSUME NEW list, NEW n \in Nat, NEW maps, Solves(list, n, maps)
  PROVE  \E more : Solves(list, n + 1, more)
<1>. DEFINE more == [s \in SUBSET (1..(n+1)) |-> Step(list, maps, s)]
<1>1. \A s \in SUBSET (1..n) : s \in SUBSET (1..(n+1)) /\ more[s] = maps[s]
  BY DEF Solves
<1>2. ASSUME NEW s \in SUBSET (1..(n+1)), s # {} PROVE s \ {Max(s)} \in SUBSET (1..n)
  <2>1. PICK most : most = Max(s)
    OBVIOUS
  <2>2. n + 1 \in Nat /\ s \subseteq 1..(n+1)
    OBVIOUS
  <2>3. most \in s /\ \A x \in s : x <= most
    BY <1>2, <2>1, <2>2, LargestIs
  <2>4. ASSUME NEW x \in s \ {most} PROVE x \in 1..n
    BY <2>2, <2>3
  <2>. QED
    BY <2>1, <2>4
<1>3. ASSUME NEW s \in SUBSET (1..(n+1)) PROVE Step(list, maps, s) = Step(list, more, s)
  BY <1>1, <1>2 DEF Step
<1>4. more = [s \in SUBSET (1..(n+1)) |-> Step(list, more, s)]
  BY <1>3
<1>. QED
  BY <1>4 DEF Solves

LEMMA SolutionExists ==
  ASSUME NEW list, NEW n \in Nat
  PROVE  \E maps : Solves(list, n, maps)
<1>. DEFINE bad == {m \in Nat : ~\E maps : Solves(list, m, maps)}
<1>1. SUFFICES ASSUME bad # {} PROVE FALSE
  OBVIOUS
<1>2. PICK m \in bad : \A k \in bad : m <= k
  BY <1>1, LeastNumber
<1>3. CASE m = 0
  <2>. DEFINE maps == [s \in {{}} |-> <<>>]
  <2>1. SUBSET (1..0) = {{}}
    OBVIOUS
  <2>2. Solves(list, 0, maps)
    BY <2>1 DEF Solves, Step
  <2>. QED
    BY <1>2, <1>3, <2>2
<1>4. CASE m # 0
  <2>1. m - 1 \in Nat /\ m - 1 \notin bad /\ (m - 1) + 1 = m
    BY <1>2, <1>4
  <2>2. PICK maps : Solves(list, m - 1, maps)
    BY <2>1
  <2>3. \E more : Solves(list, m, more)
    BY <2>1, <2>2, SolutionGrows
  <2>. QED
    BY <1>2, <2>3
<1>. QED
  BY <1>3, <1>4

LEMMA MapsIs ==
  ASSUME NEW list, NEW n \in Nat, DOMAIN list = 1..n
  PROVE  \A s \in SUBSET (1..n) : Maps(list)[s] = Step(list, Maps(list), s)
<1>1. \E maps : maps = [s \in SUBSET DOMAIN list |-> Step(list, maps, s)]
  <2>1. \E maps : maps = [s \in SUBSET (1..n) |-> Step(list, maps, s)]
    BY SolutionExists DEF Solves
  <2>. QED
    BY <2>1, Zenon
<1>2. PICK maps : maps = Maps(list)
  OBVIOUS
<1>3. maps = [s \in SUBSET DOMAIN list |-> Step(list, maps, s)]
  BY <1>1, <1>2, Zenon DEF Maps
<1>. QED
  BY <1>2, <1>3

(* The map holds, for each key among the first n entries, the last of them *)
(* with that key.                                                          *)
LastWins(list, n, map) ==
  /\ DOMAIN map = {list[i].key : i \in 1..n}
  /\ \A key \in DOMAIN map : \E i \in 1..n :
       /\ list[i] = map[key] /\ list[i].key = key
       /\ \A j \in (i+1)..n : list[j].key # key

LEMMA SetKeepsLast ==
  ASSUME NEW list, NEW n \in Nat \ {0}, NEW map, LastWins(list, n - 1, map)
  PROVE  LastWins(list, n, Set(map, list[n]))
<1>. DEFINE new == Set(map, list[n])
<1>1. DOMAIN new = {list[i].key : i \in 1..n}
  <2>1. 1..n = (1..(n-1)) \cup {n}
    OBVIOUS
  <2>. QED
    BY <2>1 DEF LastWins, Set
<1>2. ASSUME NEW key \in DOMAIN new
      PROVE  \E i \in 1..n : /\ list[i] = new[key] /\ list[i].key = key
                             /\ \A j \in (i+1)..n : list[j].key # key
  <2>1. CASE key = list[n].key
    <3>1. list[n] = new[key] /\ n \in 1..n /\ (n+1)..n = {}
      BY <2>1 DEF Set
    <3>. QED
      BY <2>1, <3>1
  <2>2. CASE key # list[n].key
    <3>1. key \in DOMAIN map /\ new[key] = map[key]
      BY <1>2, <2>2 DEF Set
    <3>2. PICK i \in 1..(n-1) : /\ list[i] = map[key] /\ list[i].key = key
                                /\ \A j \in (i+1)..(n-1) : list[j].key # key
      BY <3>1 DEF LastWins
    <3>3. i \in 1..n /\ \A j \in (i+1)..n : j \in (i+1)..(n-1) \/ j = n
      OBVIOUS
    <3>. QED
      BY <2>2, <3>1, <3>2, <3>3
  <2>. QED
    BY <2>1, <2>2
<1>. QED
  BY <1>1, <1>2 DEF LastWins

LEMMA ByKeyKeepsLast ==
  ASSUME NEW list, NEW n \in Nat, DOMAIN list = 1..n
  PROVE  LastWins(list, n, ByKey(list))
<1>1. PICK maps : maps = Maps(list)
  OBVIOUS
<1>2. \A s \in SUBSET (1..n) : maps[s] = Step(list, maps, s)
  BY <1>1, MapsIs
<1>. DEFINE bad == {m \in 0..n : ~LastWins(list, m, maps[1..m])}
<1>3. bad = {}
  <2>1. SUFFICES ASSUME bad # {} PROVE FALSE
    OBVIOUS
  <2>2. bad \subseteq Nat
    OBVIOUS
  <2>3. PICK m \in bad : \A k \in bad : m <= k
    <3>. HIDE DEF bad
    <3>. QED
      BY <2>1, <2>2, LeastNumber
  <2>4. CASE m = 0
    <3>1. 1..0 = {} /\ {} \in SUBSET (1..n)
      OBVIOUS
    <3>2. maps[1..0] = <<>>
      BY <1>2, <3>1 DEF Step
    <3>3. LastWins(list, 0, <<>>)
      BY DEF LastWins
    <3>. QED
      BY <2>3, <2>4, <3>2, <3>3
  <2>5. CASE m # 0
    <3>1. m \in Nat \ {0} /\ m <= n /\ m - 1 \in 0..n /\ m - 1 \notin bad
      BY <2>3, <2>5
    <3>2. LastWins(list, m - 1, maps[1..(m-1)])
      BY <3>1
    <3>3. Max(1..m) = m
      <4>1. PICK s : s = 1..m
        OBVIOUS
      <4>2. s \subseteq 1..m /\ m \in s
        BY <3>1, <4>1
      <4>3. PICK most : most = Max(s)
        OBVIOUS
      <4>4. most \in s /\ \A x \in s : x <= most
        BY <3>1, <4>2, <4>3, LargestIs
      <4>5. most \in 1..m /\ m <= most
        BY <4>1, <4>2, <4>4
      <4>. QED
        BY <3>1, <4>1, <4>3, <4>5
    <3>4. /\ 1..m \in SUBSET (1..n) /\ 1..m # {}
          /\ (1..m) \ {m} = 1..(m-1)
      BY <3>1
    <3>5. maps[1..m] = Set(maps[1..(m-1)], list[m])
      BY <1>2, <3>3, <3>4 DEF Step
    <3>6. LastWins(list, m, maps[1..m])
      BY <3>1, <3>2, <3>5, SetKeepsLast
    <3>. QED
      BY <2>3, <3>6
  <2>. QED
    BY <2>4, <2>5
<1>4. LastWins(list, n, maps[1..n])
  BY <1>3
<1>. QED
  BY <1>1, <1>4, ByKeyIs

-----------------------------------------------------------------------------
(* The rows of a body. *)

LEMMA ListsType ==
  ASSUME NEW p \in Posts, NEW list, list = p.inventory \/ list = p.report
  PROVE  /\ Len(list) \in Nat /\ DOMAIN list = 1..Len(list)
         /\ \A i \in 1..Len(list) : list[i] \in Range(list)
<1>1. list \in Seq(Range(list))
  BY PostsAssumption
<1>2. PICK S : S = Range(list)
  OBVIOUS
<1>3. list \in Seq(S)
  BY <1>1, <1>2
<1>. QED
  BY <1>2, <1>3

LEMMA MapIsLast ==
  ASSUME NEW p \in Posts, NEW list, list = p.inventory \/ list = p.report
  PROVE  /\ DOMAIN ByKey(list) = KeysOf(list)
         /\ \A key \in KeysOf(list) : /\ ByKey(list)[key] \in Range(list)
                                      /\ LastOf(list, key, ByKey(list)[key])
<1>1. PICK n \in Nat : n = Len(list) /\ DOMAIN list = 1..n
  BY ListsType
<1>2. PICK map : map = ByKey(list) /\ LastWins(list, n, map)
  BY <1>1, ByKeyKeepsLast
<1>3. DOMAIN map = KeysOf(list)
  BY <1>1, <1>2 DEF LastWins, KeysOf
<1>4. ASSUME NEW key \in DOMAIN map
      PROVE  map[key] \in Range(list) /\ LastOf(list, key, map[key])
  <2>1. PICK i \in 1..n : /\ list[i] = map[key] /\ list[i].key = key
                          /\ \A j \in (i+1)..n : list[j].key # key
    BY <1>2 DEF LastWins
  <2>2. list[i] \in Range(list)
    BY <1>1, ListsType
  <2>3. LastOf(list, key, map[key])
    BY <1>1, <2>1 DEF LastOf
  <2>. QED
    BY <2>1, <2>2, <2>3
<1>. QED
  BY <1>2, <1>3, <1>4

LEMMA RowsJoin ==
  ASSUME NEW p \in Posts, NEW items, items = Rows(ByKey(p.inventory), ByKey(p.report))
  PROVE  /\ DOMAIN items = KeysOf(p.inventory)
         /\ \A key \in KeysOf(p.inventory) : Joined(p, key, items[key])
<1>1. PICK inventory, report : inventory = ByKey(p.inventory) /\ report = ByKey(p.report)
  OBVIOUS
<1>2. /\ DOMAIN inventory = KeysOf(p.inventory)
      /\ \A key \in KeysOf(p.inventory) : /\ inventory[key] \in Range(p.inventory)
                                          /\ LastOf(p.inventory, key, inventory[key])
  BY <1>1, MapIsLast
<1>3. /\ DOMAIN report = KeysOf(p.report)
      /\ \A key \in KeysOf(p.report) : /\ report[key] \in Range(p.report)
                                       /\ LastOf(p.report, key, report[key])
  BY <1>1, MapIsLast
<1>4. items = Rows(inventory, report)
  BY <1>1
<1>5. DOMAIN items = KeysOf(p.inventory)
  BY <1>2, <1>4 DEF Rows
<1>6. ASSUME NEW key \in KeysOf(p.inventory) PROVE Joined(p, key, items[key])
  <2>1. items[key].pinned = inventory[key].pinned
    BY <1>2, <1>4 DEF Rows
  <2>2. CASE key \in KeysOf(p.report)
    <3>1. items[key].latest = report[key].latest /\ items[key].reported = TRUE
      BY <1>2, <1>3, <1>4, <2>2 DEF Rows
    <3>. QED
      BY <1>2, <1>3, <2>1, <2>2, <3>1 DEF Joined
  <2>3. CASE key \notin KeysOf(p.report)
    <3>1. items[key].latest = Null /\ items[key].reported = FALSE
      BY <1>2, <1>3, <1>4, <2>3 DEF Rows
    <3>. QED
      BY <1>2, <2>1, <2>3, <3>1 DEF Joined
  <2>. QED
    BY <2>2, <2>3
<1>. QED
  BY <1>5, <1>6

-----------------------------------------------------------------------------
(* The store. *)

SnapshotOf(p) ==
  [generatedAt |-> p.generatedAt, items |-> Rows(ByKey(p.inventory), ByKey(p.report))]

StoreOK == snapshots \in Seq({SnapshotOf(p) : p \in Posts})

(* What storing a body does to the table. *)
LEMMA StoreAppends ==
  ASSUME StoreOK, NEW p \in Posts, Store(p)
  PROVE  /\ snapshots' = Append(snapshots, SnapshotOf(p))
         /\ Len(snapshots) \in Nat /\ Len(snapshots') = Len(snapshots) + 1
         /\ snapshots'[Len(snapshots) + 1] = SnapshotOf(p)
         /\ SubSeq(snapshots', 1, Len(snapshots)) = snapshots
         /\ StoreOK'
         /\ answer'.post = p
         /\ answer'.id = Len(snapshots) + 1
         /\ answer'.items = CountRows(SnapshotOf(p).items)
<1>1. PICK new : new = SnapshotOf(p)
  OBVIOUS
<1>2. PICK S : S = {SnapshotOf(q) : q \in Posts}
  OBVIOUS
<1>3. snapshots \in Seq(S) /\ new \in S /\ snapshots' = Append(snapshots, new)
  BY <1>1, <1>2 DEF StoreOK, Store, SnapshotOf
<1>4. /\ Len(snapshots) \in Nat /\ Len(snapshots') = Len(snapshots) + 1
      /\ snapshots'[Len(snapshots) + 1] = new
      /\ SubSeq(snapshots', 1, Len(snapshots)) = snapshots
      /\ snapshots' \in Seq(S)
  BY <1>3
<1>5. StoreOK'
  BY <1>2, <1>4 DEF StoreOK, SnapshotOf
<1>6. answer' = Ok(p, Len(snapshots'), CountRows(new.items))
  BY <1>1 DEF Store, SnapshotOf
<1>. QED
  BY <1>1, <1>3, <1>4, <1>5, <1>6 DEF Ok

LEMMA StoreInvariant == Spec => []StoreOK
<1>1. Init => StoreOK
  BY DEF Init, StoreOK
<1>2. StoreOK /\ [Next]_vars => StoreOK'
  <2>. SUFFICES ASSUME StoreOK, [Next]_vars PROVE StoreOK'
    OBVIOUS
  <2>1. ASSUME NEW p \in Posts, Store(p) PROVE StoreOK'
    BY <2>1, StoreAppends
  <2>2. CASE UNCHANGED snapshots
    BY <2>2 DEF StoreOK, SnapshotOf
  <2>. QED
    BY <2>1, <2>2 DEF Next, Post, Repost, Refuse, vars
<1>. QED
  BY <1>1, <1>2, PTL DEF Spec

(* "the inventory, not the report, defines what exists" (ingest.ts): what  *)
(* any accepted body adds is the full join of its own two lists, however   *)
(* long and whatever they repeat, and what was stored stays as it is.      *)
THEOREM SnapshotIsJoinHolds == Spec => SnapshotIsJoin
<1>1. StoreOK /\ [Next]_vars => StoresJoin
  <2>. SUFFICES ASSUME StoreOK, [Next]_vars, snapshots' # snapshots PROVE StoresJoin
    BY DEF StoresJoin
  <2>1. PICK p \in Posts : Store(p)
    BY DEF Next, Post, Repost, Refuse, vars
  <2>2. /\ SubSeq(snapshots', 1, Len(snapshots)) = snapshots
        /\ Len(snapshots') = Len(snapshots) + 1
        /\ snapshots'[Len(snapshots) + 1] = SnapshotOf(p)
        /\ answer'.post = p
    BY <2>1, StoreAppends
  <2>3. KeysOf(p.report) \subseteq KeysOf(p.inventory)
    BY <2>1 DEF Store, Orphaned
  <2>4. PICK new : new = SnapshotOf(p)
    OBVIOUS
  <2>5. /\ new.generatedAt = p.generatedAt
        /\ new.items = Rows(ByKey(p.inventory), ByKey(p.report))
    BY <2>4 DEF SnapshotOf
  <2>6. /\ DOMAIN new.items = KeysOf(p.inventory)
        /\ \A key \in KeysOf(p.inventory) : Joined(p, key, new.items[key])
    BY <2>5, RowsJoin
  <2>. QED
    BY <2>2, <2>3, <2>4, <2>5, <2>6 DEF StoresJoin
<1>. QED
  BY <1>1, StoreInvariant, PTL DEF Spec, SnapshotIsJoin

(* A 200 tells the truth about the store, for a body stored now and for    *)
(* one whose generatedAt is taken, whatever else it holds.                 *)
THEOREM AnswerIsTrueHolds == Spec => []AnswerIsTrue
<1>1. Init => AnswerIsTrue
  BY DEF Init, AnswerIsTrue
<1>2. StoreOK /\ AnswerIsTrue /\ [Next]_vars => AnswerIsTrue'
  <2>. SUFFICES ASSUME StoreOK, AnswerIsTrue, [Next]_vars PROVE AnswerIsTrue'
    OBVIOUS
  <2>1. ASSUME NEW p \in Posts, Repost(p) PROVE AnswerIsTrue'
    <3>1. PICK id \in Stored(p) :
            answer' = Ok(p, id, CountRows(snapshots[id].items)) /\ snapshots' = snapshots
      BY <2>1 DEF Repost
    <3>2. answer'.post = p /\ answer'.id = id /\ answer'.items = CountRows(snapshots[id].items)
      BY <3>1 DEF Ok
    <3>3. id \in 1..Len(snapshots) /\ snapshots[id].generatedAt = p.generatedAt
      BY DEF Stored
    <3>. QED
      BY <3>1, <3>2, <3>3 DEF AnswerIsTrue, CountRows
  <2>2. ASSUME NEW p \in Posts, Refuse(p) PROVE AnswerIsTrue'
    BY <2>2 DEF Refuse, AnswerIsTrue
  <2>3. ASSUME NEW p \in Posts, Store(p) PROVE AnswerIsTrue'
    <3>1. /\ Len(snapshots) \in Nat /\ Len(snapshots') = Len(snapshots) + 1
          /\ snapshots'[Len(snapshots) + 1] = SnapshotOf(p)
          /\ answer'.post = p /\ answer'.id = Len(snapshots) + 1
          /\ answer'.items = CountRows(SnapshotOf(p).items)
      BY <2>3, StoreAppends
    <3>2. SnapshotOf(p).generatedAt = p.generatedAt
      BY DEF SnapshotOf
    <3>. QED
      BY <3>1, <3>2 DEF AnswerIsTrue, CountRows
  <2>4. CASE UNCHANGED vars
    BY <2>4 DEF vars, AnswerIsTrue, CountRows
  <2>. QED
    BY <2>1, <2>2, <2>3, <2>4 DEF Next, Post
<1>. QED
  BY <1>1, <1>2, StoreInvariant, PTL DEF Spec
=============================================================================
