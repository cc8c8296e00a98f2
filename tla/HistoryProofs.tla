---------------------------- MODULE HistoryProofs ----------------------------
(***************************************************************************)
(* Theorems about the counts of Soundness and the trends and histories of  *)
(* History, for every estate, every published document and every store of  *)
(* decisions.                                                              *)
(***************************************************************************)
EXTENDS History, DecisionStoreProofs, FiniteSetTheorems

-----------------------------------------------------------------------------
(* The rows of a snapshot. *)

LEMMA ItemsType ==
  ASSUME TypeOK, NEW id \in Snapshots
  PROVE  /\ DOMAIN Items(id) \subseteq Keys
         /\ Items(id) \in [DOMAIN Items(id) -> Item]
         /\ IsFiniteSet(DOMAIN Items(id))
<1>1. snapshots[id] \in Docs
  BY DEF TypeOK, Snapshots
<1>. QED
  BY <1>1, ConstantsAssumption, DocumentsAssumption DEF Items, IsSnapshot

LEMMA AllRows ==
  ASSUME TypeOK, NEW id \in Snapshots
  PROVE  ItemRows(id, Repos) = Items(id)
<1>1. {k \in DOMAIN Items(id) : RepoOf[k] \in Repos} = DOMAIN Items(id)
  BY ItemsType, ReposAssumption
<1>. QED
  BY <1>1, ItemsType DEF ItemRows

(* What is found for an item depends on the rows of its own repo only. *)
LEMMA ScopedDecision ==
  ASSUME NEW repo, NEW rows, NEW all,
         DOMAIN all \subseteq Keys,
         DOMAIN rows = Mine(all, repo),
         NEW key \in Mine(all, repo)
  PROVE  DecisionFor(key, rows) = DecisionFor(key, all)
<1>1. Ambiguous(key, rows) <=> Ambiguous(key, all)
  BY ReposAssumption DEF Ambiguous, Mine
<1>2. MatchedKey(key, rows) = MatchedKey(key, all)
  BY <1>1 DEF MatchedKey
<1>. QED
  BY <1>2 DEF DecisionFor

(* Counting one repo from its own rows or from all rows is the same. *)
LEMMA ScopedRows ==
  ASSUME TypeOK, NEW id \in Snapshots, NEW repo \in Repos
  PROVE  Summary(ItemRows(id, {repo}), repo) = Summary(Items(id), repo)
<1>. DEFINE all == Items(id)
            rows == ItemRows(id, {repo})
            mine == Mine(all, repo)
<1>1. DOMAIN rows = mine /\ \A k \in mine : rows[k] = all[k]
  BY DEF ItemRows, Mine
<1>2. Mine(rows, repo) = mine
  BY <1>1 DEF Mine
<1>3. \A k \in mine : DecisionFor(k, rows) = DecisionFor(k, all)
  BY <1>1, ItemsType, ScopedDecision
<1>4. Suppressed(rows, repo) = Suppressed(all, repo)
  BY <1>1, <1>2, <1>3 DEF Suppressed
<1>5. Silenced(rows, repo) = Silenced(all, repo)
  BY <1>1, <1>2, <1>3 DEF Silenced
<1>6. \A keys \in SUBSET mine : /\ Affected(rows, keys) = Affected(all, keys)
                                /\ \A gap : WithGap(rows, keys, gap) = WithGap(all, keys, gap)
  BY <1>1 DEF Affected, WithGap
<1>7. Affected(rows, mine \ Silenced(all, repo)) = Affected(all, mine \ Silenced(all, repo))
  BY <1>6
<1>8. \A gap : WithGap(rows, mine \ Suppressed(all, repo), gap)
                 = WithGap(all, mine \ Suppressed(all, repo), gap)
  BY <1>6
<1>. QED
  BY <1>2, <1>4, <1>5, <1>7, <1>8 DEF Summary

(* The repos of a snapshot are those tracked in it, asked of all or of one. *)
LEMMA NamesTracked ==
  ASSUME TypeOK, NEW id \in Snapshots
  PROVE  /\ RepoNames(id, Repos) = {r \in Repos : Tracked(id, r)}
         /\ \A r \in Repos : RepoNames(id, {r}) = RepoNames(id, Repos) \cap {r}
         /\ \A r \in Repos : r \in RepoNames(id, {r}) <=> Tracked(id, r)
<1>1. \A repos : DOMAIN ItemRows(id, repos) = {k \in DOMAIN Items(id) : RepoOf[k] \in repos}
  BY DEF ItemRows
<1>2. \A repos : \A r : r \in RepoNames(id, repos) <=>
        \/ \E k \in DOMAIN Items(id) : RepoOf[k] \in repos /\ r = RepoOf[k]
        \/ r \in DependabotRepos[snapshots[id]] /\ r \in repos
  BY <1>1 DEF RepoNames
<1>3. \A k \in DOMAIN Items(id) : RepoOf[k] \in Repos
  BY ItemsType, ReposAssumption
<1>4. \A r : r \in RepoNames(id, Repos) <=> r \in Repos /\ Tracked(id, r)
  BY <1>2, <1>3 DEF Tracked
<1>5. \A r \in Repos : \A s : s \in RepoNames(id, {r}) <=> s = r /\ Tracked(id, r)
  BY <1>2 DEF Tracked
<1>. QED
  BY <1>4, <1>5

(* The trend of one repo, counted from its own rows, and the list of all   *)
(* repos say the same of every snapshot (computeRepoSummaries, scoped and  *)
(* not), whatever was decided and carried over, and know the same repos.   *)
THEOREM ScopeChangesNothingHolds == Spec => []ScopeChangesNothing
<1>1. TypeOK => ScopeChangesNothing
  BY ScopedRows, AllRows, NamesTracked DEF ScopeChangesNothing, ScopedSummary, RepoSummary
<1>. QED
  BY <1>1, TypeCorrect, PTL

-----------------------------------------------------------------------------
(* The line of a repo and its list. *)

Rest(rows, repo) == Mine(rows, repo) \ Suppressed(rows, repo)

(* What is listed counts as affected or as behind, and conversely. *)
LEMMA ListedIsCounted ==
  ASSUME NEW id, NEW repo
  PROVE  Listed(id, repo) =
           Affected(Items(id), Mine(Items(id), repo) \ Silenced(Items(id), repo))
             \cup WithGap(Items(id), Rest(Items(id), repo), "major")
             \cup WithGap(Items(id), Rest(Items(id), repo), "minor")
             \cup WithGap(Items(id), Rest(Items(id), repo), "patch")
<1>. DEFINE rows == Items(id)
            affected == Affected(rows, Mine(rows, repo) \ Silenced(rows, repo))
            behind(g) == WithGap(rows, Rest(rows, repo), g)
<1>. SUFFICES ASSUME NEW k \in Mine(rows, repo)
              PROVE  k \in Listed(id, repo) <=>
                       \/ k \in affected
                       \/ k \in behind("major") \/ k \in behind("minor") \/ k \in behind("patch")
  BY DEF Listed, Affected, WithGap, Rest
<1>1. PICK item : item = rows[k]
  OBVIOUS
<1>2. PICK d : d = DecisionFor(k, rows)
  OBVIOUS
<1>3. k \in Listed(id, repo) <=> NeedsDecision(item, d, clock)
  BY <1>1, <1>2 DEF Listed
<1>4. k \in affected <=> item.advisoryStatus = "affected" /\ ~AdvisorySilenced(item, d)
  BY <1>1, <1>2 DEF Affected, Silenced
<1>5. k \in affected <=> EffectiveAdvisoryStatus(item, d) = "affected"
  BY <1>4 DEF AdvisorySilenced, EffectiveAdvisoryStatus
<1>6. \A g : k \in behind(g) <=> item.gap = g /\ ~GapSuppressed(item, d)
  BY <1>1, <1>2 DEF WithGap, Rest, Suppressed
<1>. QED
  BY <1>3, <1>5, <1>6 DEF NeedsDecision, GapSuppressed, ActionableGaps

LEMMA Bounded ==
  ASSUME NEW S, NEW T, IsFiniteSet(T), S \subseteq T
  PROVE  /\ IsFiniteSet(S) /\ Cardinality(S) \in Nat /\ Cardinality(T) \in Nat
         /\ Cardinality(S) <= Cardinality(T)
         /\ Cardinality(S) = 0 <=> S = {}
BY FS_Subset, FS_CardinalityType, FS_EmptySet

LEMMA UnionBound ==
  ASSUME NEW S, NEW T, IsFiniteSet(S), IsFiniteSet(T)
  PROVE  /\ IsFiniteSet(S \cup T)
         /\ Cardinality(S \cup T) \in Nat
         /\ Cardinality(S \cup T) <= Cardinality(S) + Cardinality(T)
<1>1. IsFiniteSet(S \cup T) /\ IsFiniteSet(S \cap T)
      /\ Cardinality(S \cup T) = Cardinality(S) + Cardinality(T) - Cardinality(S \cap T)
  BY FS_Union, FS_Intersection
<1>. QED
  BY <1>1, FS_CardinalityType

(* The numbers of a line. *)
LEMMA LineOf ==
  ASSUME NEW rows, NEW repo, NEW line, line = Summary(rows, repo)
  PROVE  /\ line.items = Cardinality(Mine(rows, repo))
         /\ line.affected = Cardinality(Affected(rows, Mine(rows, repo) \ Silenced(rows, repo)))
         /\ \A g \in ActionableGaps :
              line.behind[g] = Cardinality(WithGap(rows, Rest(rows, repo), g))
         /\ line.decided = Cardinality(Suppressed(rows, repo) \cup Silenced(rows, repo))
BY DEF Summary, Rest

(* An item that asks for attention is listed or counted as decided. *)
LEMMA DecidedOrListed ==
  ASSUME NEW id, NEW repo
  PROVE  LET rows == Items(id)
             asking == {k \in Mine(rows, repo) : Actionable(rows[k])}
             decided == Suppressed(rows, repo) \cup Silenced(rows, repo)
         IN  asking \ Listed(id, repo) \subseteq decided /\ decided \subseteq asking
<1>. DEFINE rows == Items(id)
<1>. SUFFICES ASSUME NEW k \in Mine(rows, repo)
              PROVE  /\ Actionable(rows[k]) /\ k \notin Listed(id, repo)
                          => k \in Suppressed(rows, repo) \/ k \in Silenced(rows, repo)
                     /\ k \in Suppressed(rows, repo) => Actionable(rows[k])
                     /\ k \in Silenced(rows, repo) => Actionable(rows[k])
  BY DEF Suppressed, Silenced
<1>1. PICK item : item = rows[k]
  OBVIOUS
<1>2. PICK d : d = DecisionFor(k, rows)
  OBVIOUS
<1>3. /\ k \in Listed(id, repo) <=> NeedsDecision(item, d, clock)
      /\ k \in Suppressed(rows, repo) <=> GapSuppressed(item, d)
      /\ k \in Silenced(rows, repo) <=> AdvisorySilenced(item, d)
  BY <1>1, <1>2 DEF Listed, Suppressed, Silenced
<1>. QED
  BY <1>1, <1>3 DEF NeedsDecision, GapSuppressed, AdvisorySilenced, Actionable

(* The soundness line of a repo, counted by the server, and the list of    *)
(* its items that need a decision, derived by the browser, agree in every  *)
(* state: nothing asks for attention that neither of them has.             *)
THEOREM LineAgreesWithListHolds == Spec => []LineAgreesWithList
<1>1. ASSUME TypeOK, NEW id \in Snapshots, NEW repo \in Repos,
             NEW line, line = RepoSummary(id, repo),
             NEW listed, listed = Listed(id, repo),
             NEW asking, asking = {k \in Mine(Items(id), repo) : Actionable(Items(id)[k])}
      PROVE  /\ (listed = {}) <=> (line.affected + Behind(line) = 0)
             /\ Cardinality(listed) <= line.affected + Behind(line)
             /\ line.decided \in Cardinality(asking \ listed)..Cardinality(asking)
  <2>. DEFINE rows == Items(id)
              mine == Mine(rows, repo)
              affected == Affected(rows, mine \ Silenced(rows, repo))
              major == WithGap(rows, Rest(rows, repo), "major")
              minor == WithGap(rows, Rest(rows, repo), "minor")
              patch == WithGap(rows, Rest(rows, repo), "patch")
              decided == Suppressed(rows, repo) \cup Silenced(rows, repo)
  <2>1. line = Summary(rows, repo)
    BY <1>1, AllRows DEF RepoSummary
  <2>2. IsFiniteSet(mine)
    BY <1>1, ItemsType, FS_Subset DEF Mine
  <2>3. /\ affected \subseteq mine /\ major \subseteq mine /\ minor \subseteq mine
        /\ patch \subseteq mine /\ decided \subseteq mine /\ asking \subseteq mine
    BY <1>1 DEF Affected, WithGap, Rest, Suppressed, Silenced
  <2>4. /\ line.affected = Cardinality(affected)
        /\ line.behind["major"] = Cardinality(major)
        /\ line.behind["minor"] = Cardinality(minor)
        /\ line.behind["patch"] = Cardinality(patch)
        /\ line.decided = Cardinality(decided)
    BY <2>1, LineOf DEF ActionableGaps
  <2>5. listed = ((affected \cup major) \cup minor) \cup patch
    BY <1>1, ListedIsCounted
  <2>. HIDE DEF affected, major, minor, patch, decided, mine
  <2>6. /\ IsFiniteSet(affected) /\ IsFiniteSet(major) /\ IsFiniteSet(minor)
        /\ IsFiniteSet(patch) /\ IsFiniteSet(decided) /\ IsFiniteSet(asking)
    BY <2>2, <2>3, Bounded
  <2>7. /\ Cardinality(affected) \in Nat /\ (Cardinality(affected) = 0 <=> affected = {})
        /\ Cardinality(major) \in Nat /\ (Cardinality(major) = 0 <=> major = {})
        /\ Cardinality(minor) \in Nat /\ (Cardinality(minor) = 0 <=> minor = {})
        /\ Cardinality(patch) \in Nat /\ (Cardinality(patch) = 0 <=> patch = {})
    BY <2>6, Bounded
  <2>8. Cardinality(listed) <=
          Cardinality(affected) + Cardinality(major) + Cardinality(minor) + Cardinality(patch)
    <3>1. /\ IsFiniteSet(affected \cup major) /\ Cardinality(affected \cup major) \in Nat
          /\ Cardinality(affected \cup major) <= Cardinality(affected) + Cardinality(major)
      BY <2>6, UnionBound
    <3>2. LET all == (affected \cup major) \cup minor
          IN  /\ IsFiniteSet(all) /\ Cardinality(all) \in Nat
              /\ Cardinality(all) <= Cardinality(affected \cup major) + Cardinality(minor)
      BY <2>6, <3>1, UnionBound
    <3>3. /\ Cardinality(listed) \in Nat
          /\ Cardinality(listed) <=
               Cardinality((affected \cup major) \cup minor) + Cardinality(patch)
      BY <2>5, <2>6, <3>2, UnionBound
    <3>. QED
      BY <2>7, <3>1, <3>2, <3>3
  <2>9. line.affected + Behind(line) =
          Cardinality(affected) + Cardinality(major) + Cardinality(minor) + Cardinality(patch)
    BY <2>4, <2>7 DEF Behind
  <2>10. asking \ listed \subseteq decided /\ decided \subseteq asking
    BY <1>1, DecidedOrListed DEF decided
  <2>11. /\ Cardinality(asking \ listed) <= Cardinality(decided)
         /\ Cardinality(decided) <= Cardinality(asking)
         /\ Cardinality(asking \ listed) \in Nat /\ Cardinality(decided) \in Nat
         /\ Cardinality(asking) \in Nat
    BY <2>6, <2>10, Bounded
  <2>12. listed = {} <=> line.affected + Behind(line) = 0
    <3>1. listed = {} <=> affected = {} /\ major = {} /\ minor = {} /\ patch = {}
      BY <2>5
    <3>2. PICK a \in Nat, b \in Nat, c \in Nat, d \in Nat :
            /\ a = Cardinality(affected) /\ b = Cardinality(major)
            /\ c = Cardinality(minor) /\ d = Cardinality(patch)
      BY <2>7
    <3>3. line.affected + Behind(line) = a + b + c + d
      BY <2>9, <3>2
    <3>4. a + b + c + d = 0 <=> a = 0 /\ b = 0 /\ c = 0 /\ d = 0
      OBVIOUS
    <3>. QED
      BY <2>7, <3>1, <3>2, <3>3, <3>4
  <2>13. line.decided \in Cardinality(asking \ listed)..Cardinality(asking)
    BY <2>4, <2>11
  <2>. QED
    BY <2>8, <2>9, <2>12, <2>13
<1>2. TypeOK => LineAgreesWithList
  BY <1>1 DEF LineAgreesWithList
<1>. QED
  BY <1>2, TypeCorrect, PTL

-----------------------------------------------------------------------------
(* ORDER BY: the ids of a set in the order of their dates, each once. *)

Dated(S, date) ==
  /\ IsFiniteSet(S)
  /\ \A x \in S : date[x] \in Nat
  /\ \A x, y \in S : date[x] = date[y] => x = y

Increasing(entries, date) ==
  \A i, j \in DOMAIN entries : i < j => date[entries[i]] < date[entries[j]]

Before(S, date, x) == {y \in S : date[y] < date[x]}
Place(S, date) == [x \in S |-> Cardinality(Before(S, date, x)) + 1]

(* The place of an element is the number of those not dated after it. *)
LEMMA PlaceType ==
  ASSUME NEW S, NEW date, Dated(S, date)
  PROVE  /\ Cardinality(S) \in Nat
         /\ Place(S, date) \in [S -> 1..Cardinality(S)]
         /\ \A x, y \in S : date[x] < date[y] => Place(S, date)[x] < Place(S, date)[y]
<1>1. Cardinality(S) \in Nat
  BY FS_CardinalityType DEF Dated
<1>2. ASSUME NEW x \in S
      PROVE  /\ IsFiniteSet(Before(S, date, x))
             /\ Cardinality(Before(S, date, x)) \in Nat
             /\ Cardinality(Before(S, date, x)) < Cardinality(S)
  <2>1. Before(S, date, x) \subseteq S /\ x \notin Before(S, date, x)
    BY DEF Before, Dated
  <2>2. /\ IsFiniteSet(Before(S, date, x))
        /\ Cardinality(Before(S, date, x)) <= Cardinality(S)
        /\ Cardinality(S) = Cardinality(Before(S, date, x)) => S = Before(S, date, x)
    BY <2>1, FS_Subset DEF Dated
  <2>3. Cardinality(Before(S, date, x)) \in Nat
    BY <2>2, FS_CardinalityType
  <2>. QED
    BY <1>1, <2>1, <2>2, <2>3
<1>3. ASSUME NEW x \in S, NEW y \in S, date[x] < date[y]
      PROVE  Cardinality(Before(S, date, x)) < Cardinality(Before(S, date, y))
  <2>1. /\ Before(S, date, x) \subseteq Before(S, date, y)
        /\ x \in Before(S, date, y) /\ x \notin Before(S, date, x)
    BY <1>3 DEF Before, Dated
  <2>2. /\ Cardinality(Before(S, date, x)) <= Cardinality(Before(S, date, y))
        /\ Cardinality(Before(S, date, y)) = Cardinality(Before(S, date, x))
             => Before(S, date, y) = Before(S, date, x)
    BY <1>2, <2>1, FS_Subset
  <2>. QED
    BY <1>2, <2>1, <2>2
<1>. QED
  BY <1>1, <1>2, <1>3 DEF Place

(* Every place is taken: the pigeonhole principle. *)
LEMMA PlaceTaken ==
  ASSUME NEW S, NEW date, Dated(S, date), NEW i \in 1..Cardinality(S)
  PROVE  \E x \in S : Place(S, date)[x] = i
<1>. DEFINE n == Cardinality(S)
            others == 1..n \ {i}
<1>1. SUFFICES ASSUME \A x \in S : Place(S, date)[x] # i PROVE FALSE
  OBVIOUS
<1>2. n \in Nat /\ Place(S, date) \in [S -> 1..n]
  BY PlaceType
<1>3. Place(S, date) \in [S -> others]
  BY <1>1, <1>2
<1>4. IsFiniteSet(others) /\ Cardinality(others) = n - 1
  <2>1. IsFiniteSet(1..n) /\ Cardinality(1..n) = n
    BY <1>2, FS_Interval
  <2>. QED
    BY <2>1, FS_RemoveElement
<1>5. PICK x \in S, y \in S : x # y /\ Place(S, date)[x] = Place(S, date)[y]
  BY <1>2, <1>3, <1>4, FS_PigeonHole DEF Dated
<1>6. date[x] < date[y] \/ date[y] < date[x]
  BY <1>5 DEF Dated
<1>7. Place(S, date)[x] \in Nat /\ Place(S, date)[y] \in Nat
  BY <1>2
<1>. QED
  BY <1>5, <1>6, <1>7, PlaceType

LEMMA OrderExists ==
  ASSUME NEW S, NEW date, Dated(S, date)
  PROVE  \E entries \in [1..Cardinality(S) -> S] : Increasing(entries, date)
<1>. DEFINE entries == [i \in 1..Cardinality(S) |-> CHOOSE x \in S : Place(S, date)[x] = i]
<1>1. \A i \in 1..Cardinality(S) : entries[i] \in S /\ Place(S, date)[entries[i]] = i
  BY PlaceTaken
<1>2. entries \in [1..Cardinality(S) -> S]
  BY <1>1
<1>3. ASSUME NEW i \in 1..Cardinality(S), NEW j \in 1..Cardinality(S), i < j
      PROVE  date[entries[i]] < date[entries[j]]
  <2>1. PICK x \in S, y \in S :
          /\ x = entries[i] /\ y = entries[j]
          /\ Place(S, date)[x] = i /\ Place(S, date)[y] = j
    BY <1>1
  <2>2. x # y /\ ~(date[y] < date[x])
    BY <1>3, <2>1, PlaceType
  <2>. QED
    BY <2>1, <2>2 DEF Dated
<1>. QED
  BY <1>2, <1>3 DEF Increasing

LEMMA OrderedIs ==
  ASSUME NEW S, NEW date, Dated(S, date)
  PROVE  /\ Cardinality(S) \in Nat
         /\ Ordered(S, date) \in [1..Cardinality(S) -> S]
         /\ Increasing(Ordered(S, date), date)
         /\ \A x \in S : \E i \in 1..Cardinality(S) : Ordered(S, date)[i] = x
<1>. DEFINE n == Cardinality(S)
<1>1. n \in Nat
  BY PlaceType
<1>2. PICK entries : entries = Ordered(S, date)
  OBVIOUS
<1>3. entries \in [1..n -> S] /\ Increasing(entries, date)
  BY <1>2, OrderExists DEF Ordered, Increasing
<1>4. ASSUME NEW x \in S, \A i \in 1..n : entries[i] # x
      PROVE  FALSE
  <2>1. entries \in [1..n -> S \ {x}]
    BY <1>3, <1>4
  <2>2. IsFiniteSet(S \ {x}) /\ Cardinality(S \ {x}) = n - 1
    BY FS_RemoveElement DEF Dated
  <2>3. IsFiniteSet(1..n) /\ Cardinality(1..n) = n
    BY <1>1, FS_Interval
  <2>4. PICK i \in 1..n, j \in 1..n : i # j /\ entries[i] = entries[j]
    BY <1>1, <2>1, <2>2, <2>3, FS_PigeonHole
  <2>5. i < j \/ j < i
    BY <1>1, <2>4
  <2>6. date[entries[i]] \in Nat
    BY <1>3 DEF Dated
  <2>. QED
    BY <1>3, <2>4, <2>5, <2>6 DEF Increasing
<1>. QED
  BY <1>1, <1>2, <1>3, <1>4

-----------------------------------------------------------------------------
(* The history of one item. *)

(* Ingest stores a date once. *)
OneSnapshotPerDate ==
  \A i, j \in Snapshots : snapshots[i].generatedAt = snapshots[j].generatedAt => i = j

LEMMA OneSnapshotPerDateKept ==
  TypeOK /\ OneSnapshotPerDate /\ [Next]_vars => OneSnapshotPerDate'
<1>. SUFFICES ASSUME TypeOK, OneSnapshotPerDate, [Next]_vars PROVE OneSnapshotPerDate'
  OBVIOUS
<1>1. CASE UNCHANGED snapshots
  BY <1>1 DEF OneSnapshotPerDate, Snapshots
<1>2. ASSUME NEW doc \in Docs, Ingest(doc) PROVE OneSnapshotPerDate'
  <2>1. /\ Len(snapshots) \in Nat
        /\ Len(snapshots') = Len(snapshots) + 1
        /\ snapshots'[Len(snapshots) + 1] = doc
        /\ \A i \in Snapshots : snapshots'[i] = snapshots[i]
    BY <1>2 DEF Ingest, TypeOK, Snapshots
  <2>2. \A i \in Snapshots : snapshots[i].generatedAt # doc.generatedAt
    BY <1>2 DEF Ingest, Snapshots
  <2>3. \A i \in Snapshots' : i \in Snapshots \/ i = Len(snapshots) + 1
    BY <2>1 DEF Snapshots
  <2>. QED
    BY <2>1, <2>2, <2>3 DEF OneSnapshotPerDate
<1>3. CASE Put
  <2>1. PICK key \in Keys, after \in Row \cup {Null}, by \in Users : Commit(key, after, by)
    BY <1>3, PutCommits
  <2>. QED
    BY <1>1, <2>1 DEF Commit
<1>4. CASE Tick
  BY <1>1, <1>4 DEF Tick
<1>. QED
  BY <1>1, <1>2, <1>3, <1>4 DEF Next, vars

LEMMA OneSnapshotPerDateHolds == Spec => [](TypeOK /\ OneSnapshotPerDate)
<1>1. Init => OneSnapshotPerDate
  BY DEF Init, OneSnapshotPerDate, Snapshots
<1>. QED
  BY <1>1, OneSnapshotPerDateKept, TypeCorrect, PTL DEF Spec

LEMMA SnapshotsFinite ==
  ASSUME TypeOK, NEW S, S \subseteq Snapshots
  PROVE  IsFiniteSet(S) /\ \A id \in S : id \in Nat
<1>1. Len(snapshots) \in Nat
  BY DEF TypeOK
<1>2. IsFiniteSet(1..Len(snapshots))
  BY <1>1, FS_Interval
<1>3. S \in SUBSET (1..Len(snapshots))
  BY DEF Snapshots
<1>4. IsFiniteSet(S)
  BY <1>2, <1>3, FS_Subset
<1>. QED
  BY <1>1, <1>3, <1>4

Dates == [id \in Snapshots |-> snapshots[id].generatedAt]

LEMMA ListingDated ==
  ASSUME TypeOK, OneSnapshotPerDate, NEW key
  PROVE  Dated(Listing(key), Dates)
<1>1. \A id \in Snapshots : snapshots[id].generatedAt \in Nat
  <2>1. \A id \in Snapshots : snapshots[id] \in Docs
    BY DEF TypeOK, Snapshots
  <2>. QED
    BY <2>1, ConstantsAssumption DEF IsSnapshot
<1>. QED
  BY <1>1, SnapshotsFinite DEF Dated, Listing, Dates, OneSnapshotPerDate

LEMMA ItemHistoryIs ==
  ASSUME TypeOK, OneSnapshotPerDate, NEW key
  PROVE  /\ Cardinality(Listing(key)) \in Nat
         /\ ItemHistory(key) \in [1..Cardinality(Listing(key)) -> Listing(key)]
         /\ Increasing(ItemHistory(key), Dates)
         /\ \A id \in Listing(key) : \E i \in DOMAIN ItemHistory(key) : ItemHistory(key)[i] = id
<1>1. ItemHistory(key) = Ordered(Listing(key), Dates)
  BY DEF ItemHistory, Dates
<1>. QED
  BY <1>1, ListingDated, OrderedIs

(* The first position at which a pin is no longer that of a, and the last  *)
(* at which it becomes that of b.                                          *)
LeavesFirst(pin, a, b, i) ==
  i \in (a+1)..b /\ pin[i] # pin[a] /\ \A m \in a..b : m < i => pin[m] = pin[a]
ArrivesLast(pin, a, b, j) ==
  j \in (a+1)..b /\ pin[j-1] # pin[b] /\ \A m \in j..b : pin[m] = pin[b]

LEMMA FirstMove ==
  ASSUME NEW n \in Nat, NEW pin, NEW a \in 1..n, NEW b \in 1..n, a < b, pin[a] # pin[b]
  PROVE  \E i : LeavesFirst(pin, a, b, i)
<1>. DEFINE moved == {m \in (a+1)..b : pin[m] # pin[a]}
<1>1. moved \subseteq Nat /\ b \in moved
  OBVIOUS
<1>2. PICK i \in moved : \A m \in moved : i <= m
  BY <1>1, LeastNumber
<1>3. ASSUME NEW m \in a..b, m < i PROVE pin[m] = pin[a]
  <2>1. m = a \/ m \in (a+1)..b
    BY <1>2
  <2>2. m \notin moved
    <3>. HIDE DEF moved
    <3>1. \A e \in moved : ~(e < i)
      BY <1>1, <1>2
    <3>. QED
      BY <1>3, <3>1
  <2>. QED
    BY <2>1, <2>2
<1>. QED
  BY <1>2, <1>3 DEF LeavesFirst

LEMMA LastMove ==
  ASSUME NEW n \in Nat, NEW pin, NEW a \in 1..n, NEW b \in 1..n, a < b, pin[a] # pin[b]
  PROVE  \E j : ArrivesLast(pin, a, b, j)
<1>. DEFINE distance == {d \in 1..(b-a) : pin[b-d] # pin[b]}
<1>1. distance \subseteq Nat /\ b - a \in distance
  OBVIOUS
<1>2. PICK d \in distance : \A m \in distance : d <= m
  BY <1>1, LeastNumber
<1>3. ASSUME NEW m \in (b-d+1)..b PROVE pin[m] = pin[b]
  <2>1. d \in 1..(b-a) /\ m \in Int /\ a \in Int /\ b \in Int
    BY <1>2
  <2>2. CASE m # b
    <3>1. b - m \in 1..(b-a) /\ b - m < d /\ b - (b - m) = m
      BY <2>1, <2>2
    <3>2. b - m \notin distance
      <4>. HIDE DEF distance
      <4>1. \A e \in distance : ~(e < d)
        BY <1>1, <1>2, <2>1
      <4>. QED
        BY <3>1, <4>1
    <3>. QED
      BY <3>1, <3>2
  <2>. QED
    BY <2>2
<1>4. b - d + 1 \in (a+1)..b /\ (b - d + 1) - 1 = b - d
  BY <1>2
<1>. QED
  BY <1>2, <1>3, <1>4 DEF ArrivesLast

(* "which snapshot the pin moved in": however late a document was          *)
(* published, between two entries of an item's history with different pins *)
(* there are labels that lead from the one pin to the other.               *)
THEOREM PinMovesAreLabelledHolds == Spec => []PinMovesAreLabelled
<1>1. ASSUME TypeOK, OneSnapshotPerDate, NEW key \in Keys,
             NEW entries, entries = ItemHistory(key),
             NEW a, NEW b, a \in DOMAIN entries, b \in DOMAIN entries,
             snapshots[entries[a]].generatedAt < snapshots[entries[b]].generatedAt,
             Items(entries[a])[key].pinned # Items(entries[b])[key].pinned
      PROVE  \E i, j \in DOMAIN entries :
               /\ snapshots[entries[a]].generatedAt < snapshots[entries[i]].generatedAt
               /\ snapshots[entries[i]].generatedAt <= snapshots[entries[j]].generatedAt
               /\ snapshots[entries[j]].generatedAt <= snapshots[entries[b]].generatedAt
               /\ ChangeLabel(key, i) # Null
               /\ ChangeLabel(key, i)[1] = Items(entries[a])[key].pinned
               /\ ChangeLabel(key, j) # Null
               /\ ChangeLabel(key, j)[2] = Items(entries[b])[key].pinned
  <2>1. PICK n : n = Cardinality(Listing(key))
    OBVIOUS
  <2>2. PICK pin : pin = [m \in 1..n |-> Items(entries[m])[key].pinned]
    OBVIOUS
  <2>3. PICK at : at = [m \in 1..n |-> snapshots[entries[m]].generatedAt]
    OBVIOUS
  <2>4. n \in Nat /\ entries \in [1..n -> Listing(key)] /\ DOMAIN entries = 1..n
    BY <1>1, <2>1, ItemHistoryIs
  <2>5. \A i, j \in 1..n : i < j => at[i] < at[j]
    BY <1>1, <2>3, <2>4, ItemHistoryIs DEF Increasing, Dates, Listing
  <2>6. \A i \in 1..n : at[i] \in Nat /\ pin[i] \in Pins
    <3>1. \A id \in Snapshots : snapshots[id].generatedAt \in Nat
      <4>1. \A id \in Snapshots : snapshots[id] \in Docs
        BY <1>1 DEF TypeOK, Snapshots
      <4>. QED
        BY <4>1, ConstantsAssumption DEF IsSnapshot
    <3>2. \A id \in Listing(key) : id \in Snapshots /\ Items(id)[key] \in Item
      BY <1>1, ItemsType DEF Listing
    <3>. QED
      BY <2>2, <2>3, <2>4, <3>1, <3>2 DEF Item
  <2>7. /\ a \in 1..n /\ b \in 1..n /\ at[a] < at[b] /\ pin[a] # pin[b]
        /\ pin[a] = Items(entries[a])[key].pinned /\ pin[b] = Items(entries[b])[key].pinned
    BY <1>1, <2>2, <2>3, <2>4
  <2>8. a < b
    BY <2>4, <2>5, <2>6, <2>7
  <2>9. PICK i : LeavesFirst(pin, a, b, i)
    BY <2>4, <2>7, <2>8, FirstMove
  <2>10. PICK j : ArrivesLast(pin, a, b, j)
    BY <2>4, <2>7, <2>8, LastMove
  <2>11. /\ i \in 1..n /\ j \in 1..n /\ i - 1 \in 1..n /\ j - 1 \in 1..n /\ i # 1 /\ j # 1
         /\ i - 1 \in a..b /\ i - 1 < i /\ j \in j..b
    BY <2>4, <2>7, <2>9, <2>10 DEF LeavesFirst, ArrivesLast
  <2>12. pin[i-1] = pin[a] /\ pin[j] = pin[b]
    BY <2>9, <2>10, <2>11 DEF LeavesFirst, ArrivesLast
  <2>13. i <= j
    <3>1. (j - 1 \in a..b /\ j - 1 < i) \/ i <= j - 1
      BY <2>4, <2>7, <2>9, <2>10 DEF LeavesFirst, ArrivesLast
    <3>2. i - 1 \in j..b \/ i - 1 < j
      BY <2>4, <2>7, <2>9, <2>10 DEF LeavesFirst, ArrivesLast
    <3>. QED
      BY <2>4, <2>7, <2>9, <2>10, <2>11, <2>12, <3>1, <3>2 DEF LeavesFirst, ArrivesLast
  <2>14. at[a] < at[i] /\ at[i] <= at[j] /\ at[j] <= at[b]
    <3>1. a < i /\ (i = j \/ i < j) /\ (j = b \/ j < b)
      BY <2>4, <2>7, <2>9, <2>10, <2>13 DEF LeavesFirst, ArrivesLast
    <3>. QED
      BY <2>5, <2>6, <2>7, <2>11, <3>1
  <2>15. \A m \in 1..n : m # 1 /\ m - 1 \in 1..n /\ pin[m-1] # pin[m]
            => ChangeLabel(key, m) = <<pin[m-1], pin[m]>>
    BY <1>1, <2>2 DEF ChangeLabel
  <2>16. /\ ChangeLabel(key, i) = <<pin[a], pin[i]>>
         /\ ChangeLabel(key, j) = <<pin[j-1], pin[b]>>
    BY <2>9, <2>10, <2>11, <2>12, <2>15 DEF LeavesFirst, ArrivesLast
  <2>17. /\ ChangeLabel(key, i) # Null /\ ChangeLabel(key, i)[1] = pin[a]
         /\ ChangeLabel(key, j) # Null /\ ChangeLabel(key, j)[2] = pin[b]
    BY <2>6, <2>7, <2>11, <2>16, LabelAssumption
  <2>18. /\ at[a] = snapshots[entries[a]].generatedAt /\ at[b] = snapshots[entries[b]].generatedAt
         /\ at[i] = snapshots[entries[i]].generatedAt /\ at[j] = snapshots[entries[j]].generatedAt
    BY <2>3, <2>7, <2>11
  <2>. QED
    BY <2>4, <2>7, <2>11, <2>14, <2>17, <2>18
<1>2. TypeOK /\ OneSnapshotPerDate => PinMovesAreLabelled
  BY <1>1 DEF PinMovesAreLabelled
<1>. QED
  BY <1>2, OneSnapshotPerDateHolds, PTL

-----------------------------------------------------------------------------
(* Sums.  SumFunction adds up a function in the order CHOOSE takes the     *)
(* elements of its domain; the lemmas say that the order does not matter.  *)

AnyOf(s) == CHOOSE x \in s : TRUE
SumStep(f, sums, s) == IF s = {} THEN 0 ELSE f[AnyOf(s)] + sums[s \ {AnyOf(s)}]
Sums(f) == CHOOSE sums : sums = [s \in SUBSET DOMAIN f |-> SumStep(f, sums, s)]

LEMMA SumIs == ASSUME NEW f PROVE SumFunction(f) = Sums(f)[DOMAIN f]
BY Zenon DEF Sums, SumStep, AnyOf, SumFunction, SumFunctionOnSet, FoldFunctionOnSet, MapThenFoldSet

LEMMA AnyOfIs == ASSUME NEW s, s # {} PROVE AnyOf(s) \in s
BY DEF AnyOf

(* Induction over the subsets of a finite set. *)
LEMMA SubsetInduction ==
  ASSUME NEW D, IsFiniteSet(D), NEW good,
         \A s \in SUBSET D : (\A t \in SUBSET s : t # s => t \in good) => s \in good
  PROVE  SUBSET D \subseteq good
<1>. DEFINE bad == (SUBSET D) \ good
            sizes == {Cardinality(s) : s \in bad}
<1>1. SUFFICES ASSUME bad # {} PROVE FALSE
  OBVIOUS
<1>2. \A s \in SUBSET D : IsFiniteSet(s) /\ Cardinality(s) \in Nat
  BY FS_Subset, FS_CardinalityType
<1>3. sizes \subseteq Nat /\ sizes # {}
  BY <1>1, <1>2
<1>4. PICK n \in sizes : \A m \in sizes : n <= m
  BY <1>3, LeastNumber
<1>5. PICK s \in bad : Cardinality(s) = n
  BY <1>4
<1>6. ASSUME NEW t \in SUBSET s, t # s PROVE t \in good
  <2>1. t \in SUBSET D
    BY <1>6
  <2>2. Cardinality(t) <= Cardinality(s) /\ Cardinality(t) # Cardinality(s)
    BY <1>2, <1>6, FS_Subset
  <2>3. ~(n <= Cardinality(t))
    BY <1>2, <1>5, <2>1, <2>2
  <2>. QED
    BY <1>4, <2>1, <2>3
<1>7. s \in SUBSET D /\ s \notin good
  BY <1>5
<1>. QED
  BY <1>6, <1>7, Zenon

(* The recursion of a sum has a solution: up to any size of the subsets,   *)
(* hence for all of them.                                                  *)
Solves(f, n, sums) ==
  LET small == {s \in SUBSET DOMAIN f : Cardinality(s) <= n}
  IN  sums = [s \in small |-> SumStep(f, sums, s)]

LEMMA SolutionGrows ==
  ASSUME NEW f, IsFiniteSet(DOMAIN f), NEW n \in Nat, NEW sums, Solves(f, n, sums)
  PROVE  \E more : Solves(f, n + 1, more)
<1>. DEFINE small(m) == {s \in SUBSET DOMAIN f : Cardinality(s) <= m}
            more == [s \in small(n + 1) |-> SumStep(f, sums, s)]
<1>1. \A s \in SUBSET DOMAIN f : IsFiniteSet(s) /\ Cardinality(s) \in Nat
  BY FS_Subset, FS_CardinalityType
<1>2. \A s \in small(n) : s \in small(n + 1) /\ more[s] = sums[s]
  BY <1>1 DEF Solves
<1>3. ASSUME NEW s \in small(n + 1), s # {} PROVE s \ {AnyOf(s)} \in small(n)
  <2>1. Cardinality(s \ {AnyOf(s)}) = Cardinality(s) - 1
    BY <1>1, <1>3, AnyOfIs, FS_RemoveElement
  <2>. QED
    BY <1>1, <2>1
<1>4. ASSUME NEW s \in small(n + 1) PROVE SumStep(f, sums, s) = SumStep(f, more, s)
  BY <1>2, <1>3 DEF SumStep
<1>5. more = [s \in small(n + 1) |-> SumStep(f, more, s)]
  <2>. HIDE DEF small
  <2>. QED
    BY <1>4
<1>. QED
  BY <1>5 DEF Solves

LEMMA SolutionExists ==
  ASSUME NEW f, IsFiniteSet(DOMAIN f), NEW n \in Nat
  PROVE  \E sums : Solves(f, n, sums)
<1>. DEFINE bad == {m \in Nat : ~\E sums : Solves(f, m, sums)}
<1>1. SUFFICES ASSUME bad # {} PROVE FALSE
  OBVIOUS
<1>2. PICK m \in bad : \A k \in bad : m <= k
  BY <1>1, LeastNumber
<1>3. CASE m = 0
  <2>1. \A s \in SUBSET DOMAIN f : Cardinality(s) \in Nat /\ (Cardinality(s) = 0 <=> s = {})
    BY FS_Subset, FS_CardinalityType, FS_EmptySet
  <2>. DEFINE sums == [s \in {{}} |-> 0]
  <2>2. {s \in SUBSET DOMAIN f : Cardinality(s) <= 0} = {{}}
    BY <2>1
  <2>3. Solves(f, 0, sums)
    BY <2>2 DEF Solves, SumStep
  <2>. QED
    BY <1>2, <1>3, <2>3
<1>4. CASE m # 0
  <2>1. m - 1 \in Nat /\ m - 1 \notin bad /\ (m - 1) + 1 = m
    BY <1>2, <1>4
  <2>2. PICK sums : Solves(f, m - 1, sums)
    BY <2>1
  <2>3. \E more : Solves(f, m, more)
    BY <2>1, <2>2, SolutionGrows
  <2>. QED
    BY <1>2, <2>3
<1>. QED
  BY <1>3, <1>4

LEMMA SumsIs ==
  ASSUME NEW f, IsFiniteSet(DOMAIN f)
  PROVE  \A s \in SUBSET DOMAIN f : Sums(f)[s] = SumStep(f, Sums(f), s)
<1>1. {s \in SUBSET DOMAIN f : Cardinality(s) <= Cardinality(DOMAIN f)} = SUBSET DOMAIN f
  BY FS_Subset
<1>2. \E sums : Solves(f, Cardinality(DOMAIN f), sums)
  BY FS_CardinalityType, SolutionExists
<1>3. \E sums : sums = [s \in SUBSET DOMAIN f |-> SumStep(f, sums, s)]
  BY <1>1, <1>2 DEF Solves
<1>4. PICK sums : sums = Sums(f)
  OBVIOUS
<1>5. sums = [s \in SUBSET DOMAIN f |-> SumStep(f, sums, s)]
  BY <1>3, <1>4, Zenon DEF Sums
<1>. QED
  BY <1>4, <1>5

SumType(f) == \A s \in SUBSET DOMAIN f : Sums(f)[s] \in Nat

LEMMA SumsType ==
  ASSUME NEW D, IsFiniteSet(D), NEW f \in [D -> Nat]
  PROVE  SumType(f) /\ SumFunction(f) \in Nat
<1>. DEFINE good == {s \in SUBSET D : Sums(f)[s] \in Nat}
<1>1. ASSUME NEW s \in SUBSET D, \A t \in SUBSET s : t # s => t \in good
      PROVE  s \in good
  <2>1. CASE s = {}
    BY <2>1, SumsIs DEF SumStep
  <2>2. CASE s # {}
    <3>1. AnyOf(s) \in s
      BY <2>2, AnyOfIs
    <3>2. s \ {AnyOf(s)} \in SUBSET s /\ s \ {AnyOf(s)} # s
      BY <3>1
    <3>3. Sums(f)[s \ {AnyOf(s)}] \in Nat
      BY <1>1, <3>2
    <3>4. Sums(f)[s] = f[AnyOf(s)] + Sums(f)[s \ {AnyOf(s)}]
      BY <2>2, SumsIs DEF SumStep
    <3>. QED
      BY <3>1, <3>3, <3>4
  <2>. QED
    BY <2>1, <2>2
<1>2. SUBSET D \subseteq good
  <2>. HIDE DEF good
  <2>. QED
    BY <1>1, SubsetInduction
<1>. QED
  BY <1>2, SumIs DEF SumType

(* Any element may be taken first. *)
LEMMA SumsTakes ==
  ASSUME NEW D, IsFiniteSet(D), NEW f \in [D -> Nat], NEW s \in SUBSET D, NEW y \in s
  PROVE  Sums(f)[s] = f[y] + Sums(f)[s \ {y}]
<1>. DEFINE good == {u \in SUBSET D : \A z \in u : Sums(f)[u] = f[z] + Sums(f)[u \ {z}]}
<1>1. ASSUME NEW u \in SUBSET D, \A t \in SUBSET u : t # u => t \in good,
             NEW z \in u
      PROVE  Sums(f)[u] = f[z] + Sums(f)[u \ {z}]
  <2>1. PICK x : x = AnyOf(u)
    OBVIOUS
  <2>2. x \in u
    BY <2>1, AnyOfIs
  <2>3. Sums(f)[u] = f[x] + Sums(f)[u \ {x}]
    BY <2>1, SumsIs DEF SumStep
  <2>4. CASE z # x
    <3>1. PICK rest : rest = (u \ {x}) \ {z}
      OBVIOUS
    <3>2. u \ {x} \in good /\ u \ {z} \in good
      BY <1>1, <2>2
    <3>3. /\ Sums(f)[u \ {x}] = f[z] + Sums(f)[rest]
          /\ Sums(f)[u \ {z}] = f[x] + Sums(f)[rest]
      <4>1. z \in u \ {x} /\ x \in u \ {z} /\ (u \ {z}) \ {x} = rest
        BY <2>2, <2>4, <3>1
      <4>. QED
        BY <3>1, <3>2, <4>1
    <3>4. Sums(f)[rest] \in Nat /\ f[x] \in Nat /\ f[z] \in Nat
      BY <2>2, <3>1, SumsType DEF SumType
    <3>. QED
      BY <2>3, <3>3, <3>4
  <2>. QED
    BY <2>3, <2>4
<1>2. SUBSET D \subseteq good
  <2>1. \A u \in SUBSET D : (\A t \in SUBSET u : t # u => t \in good) => u \in good
    BY <1>1
  <2>. HIDE DEF good
  <2>. QED
    BY <2>1, SubsetInduction
<1>. QED
  BY <1>2

LEMMA SumOfNone ==
  ASSUME NEW f, DOMAIN f = {}
  PROVE  SumFunction(f) = 0
<1>1. IsFiniteSet(DOMAIN f)
  BY FS_EmptySet
<1>. QED
  BY <1>1, SumIs, SumsIs DEF SumStep

LEMMA SumOfOne ==
  ASSUME NEW x, NEW f \in [{x} -> Nat]
  PROVE  SumFunction(f) = f[x]
<1>1. IsFiniteSet({x})
  BY FS_Singleton
<1>2. Sums(f)[{x}] = f[x] + Sums(f)[{x} \ {x}]
  <2>1. PICK D : D = {x}
    OBVIOUS
  <2>2. IsFiniteSet(D) /\ f \in [D -> Nat] /\ D \in SUBSET D /\ x \in D
    BY <1>1, <2>1
  <2>3. Sums(f)[D] = f[x] + Sums(f)[D \ {x}]
    BY <2>2, SumsTakes
  <2>. QED
    BY <2>1, <2>3
<1>3. Sums(f)[{}] = 0
  BY <1>1, SumsIs DEF SumStep
<1>4. {x} \ {x} = {} /\ f[x] \in Nat /\ DOMAIN f = {x}
  OBVIOUS
<1>. QED
  BY <1>2, <1>3, <1>4, SumIs

(* The sum of two functions. *)
LEMMA SumOfSums ==
  ASSUME NEW D, IsFiniteSet(D), NEW f \in [D -> Nat], NEW g \in [D -> Nat]
  PROVE  SumFunction([x \in D |-> f[x] + g[x]]) = SumFunction(f) + SumFunction(g)
<1>1. PICK h : h = [x \in D |-> f[x] + g[x]]
  OBVIOUS
<1>2. h \in [D -> Nat]
  BY <1>1
<1>. DEFINE good == {s \in SUBSET D : Sums(h)[s] = Sums(f)[s] + Sums(g)[s]}
<1>3. ASSUME NEW s \in SUBSET D, \A t \in SUBSET s : t # s => t \in good
      PROVE  s \in good
  <2>1. CASE s = {}
    <3>1. Sums(f)[{}] = 0 /\ Sums(g)[{}] = 0 /\ Sums(h)[{}] = 0
      BY <1>2, SumsIs DEF SumStep
    <3>. QED
      BY <2>1, <3>1
  <2>2. CASE s # {}
    <3>1. PICK x : x = AnyOf(s)
      OBVIOUS
    <3>2. PICK rest : rest = s \ {x}
      OBVIOUS
    <3>3. x \in s /\ x \in D /\ rest \in SUBSET s /\ rest # s /\ rest \in SUBSET D
      BY <2>2, <3>1, <3>2, AnyOfIs
    <3>4. /\ Sums(f)[s] = f[x] + Sums(f)[rest]
          /\ Sums(g)[s] = g[x] + Sums(g)[rest]
          /\ Sums(h)[s] = h[x] + Sums(h)[rest]
      BY <1>2, <2>2, <3>1, <3>2, SumsIs DEF SumStep
    <3>5. Sums(h)[rest] = Sums(f)[rest] + Sums(g)[rest]
      BY <1>3, <3>3
    <3>6. /\ Sums(f)[rest] \in Nat /\ Sums(g)[rest] \in Nat
          /\ f[x] \in Nat /\ g[x] \in Nat /\ h[x] = f[x] + g[x]
      BY <1>1, <3>3, SumsType DEF SumType
    <3>. QED
      BY <3>4, <3>5, <3>6
  <2>. QED
    BY <2>1, <2>2
<1>4. SUBSET D \subseteq good
  <2>. HIDE DEF good
  <2>. QED
    BY <1>3, SubsetInduction
<1>. QED
  BY <1>1, <1>2, <1>4, SumIs

(* Elements that count nothing may be left out. *)
LEMMA SumOfPart ==
  ASSUME NEW D, IsFiniteSet(D), NEW f \in [D -> Nat], NEW E \in SUBSET D,
         \A x \in D \ E : f[x] = 0
  PROVE  SumFunction([x \in E |-> f[x]]) = SumFunction(f)
<1>1. PICK e : e = [x \in E |-> f[x]]
  OBVIOUS
<1>2. e \in [E -> Nat] /\ IsFiniteSet(E)
  BY <1>1, FS_Subset
<1>3. SUBSET E \subseteq {s \in SUBSET E : Sums(e)[s] = Sums(f)[s]}
  <2>. DEFINE good == {s \in SUBSET E : Sums(e)[s] = Sums(f)[s]}
  <2>1. ASSUME NEW s \in SUBSET E, \A t \in SUBSET s : t # s => t \in good
        PROVE  s \in good
    <3>1. CASE s = {}
      BY <1>2, <3>1, SumsIs DEF SumStep
    <3>2. CASE s # {}
      <4>1. PICK x : x = AnyOf(s)
        OBVIOUS
      <4>2. x \in s /\ s \ {x} \in SUBSET s /\ s \ {x} # s /\ s \in SUBSET D
        BY <3>2, <4>1, AnyOfIs
      <4>3. /\ Sums(e)[s] = e[x] + Sums(e)[s \ {x}]
            /\ Sums(f)[s] = f[x] + Sums(f)[s \ {x}]
        BY <1>2, <3>2, <4>1, <4>2, SumsIs DEF SumStep
      <4>4. Sums(e)[s \ {x}] = Sums(f)[s \ {x}] /\ e[x] = f[x]
        BY <1>1, <2>1, <4>2
      <4>. QED
        BY <4>3, <4>4
    <3>. QED
      BY <3>1, <3>2
  <2>2. SUBSET E \subseteq good
    <3>. HIDE DEF good
    <3>. QED
      BY <1>2, <2>1, SubsetInduction
  <2>. QED
    BY <2>2
<1>4. SUBSET D \subseteq {s \in SUBSET D : E \subseteq s => Sums(f)[s] = Sums(f)[E]}
  <2>. DEFINE good == {s \in SUBSET D : E \subseteq s => Sums(f)[s] = Sums(f)[E]}
  <2>1. ASSUME NEW s \in SUBSET D, \A t \in SUBSET s : t # s => t \in good
        PROVE  s \in good
    <3>1. CASE s = E \/ ~(E \subseteq s)
      BY <3>1
    <3>2. CASE s # E /\ E \subseteq s
      <4>1. PICK y \in s : y \notin E
        BY <3>2
      <4>2. Sums(f)[s] = f[y] + Sums(f)[s \ {y}]
        BY SumsTakes
      <4>3. s \ {y} \in SUBSET s /\ s \ {y} # s /\ E \subseteq s \ {y}
        BY <3>2, <4>1
      <4>4. Sums(f)[s \ {y}] = Sums(f)[E]
        BY <2>1, <4>3
      <4>5. f[y] = 0 /\ Sums(f)[E] \in Nat
        BY <4>1, SumsType DEF SumType
      <4>. QED
        BY <4>2, <4>4, <4>5
    <3>. QED
      BY <3>1, <3>2
  <2>2. SUBSET D \subseteq good
    <3>. HIDE DEF good
    <3>. QED
      BY <2>1, SubsetInduction
  <2>. QED
    BY <2>2
<1>5. Sums(e)[E] = Sums(f)[E] /\ Sums(f)[D] = Sums(f)[E]
  BY <1>3, <1>4
<1>. QED
  BY <1>1, <1>2, <1>5, SumIs

-----------------------------------------------------------------------------
(* The trend lines. *)

LEMMA IdsDated ==
  ASSUME TypeOK, NEW S, S \subseteq Snapshots
  PROVE  Dated(S, Id)
BY SnapshotsFinite DEF Dated, Id

(* A line has a point for each of its ids, in order, and no other. *)
LEMMA OrderedIds ==
  ASSUME TypeOK, NEW S, S \subseteq Snapshots, NEW ids, ids = Ordered(S, Id)
  PROVE  /\ Cardinality(S) \in Nat
         /\ ids \in [1..Cardinality(S) -> S]
         /\ \A i, j \in DOMAIN ids : ids[i] = ids[j] => i = j
         /\ \A id \in S : \E i \in DOMAIN ids : ids[i] = id
<1>1. /\ Cardinality(S) \in Nat
      /\ ids \in [1..Cardinality(S) -> S]
      /\ Increasing(ids, Id)
      /\ \A id \in S : \E i \in 1..Cardinality(S) : ids[i] = id
  BY IdsDated, OrderedIs
<1>2. \A id \in S : Id[id] = id /\ id \in Nat
  BY SnapshotsFinite DEF Id
<1>3. \A i, j \in DOMAIN ids : i < j => ids[i] < ids[j]
  BY <1>1, <1>2 DEF Increasing
<1>4. ASSUME NEW i \in DOMAIN ids, NEW j \in DOMAIN ids, ids[i] = ids[j] PROVE i = j
  <2>1. i < j \/ j < i \/ i = j
    BY <1>1
  <2>. QED
    BY <1>1, <1>2, <1>3, <1>4, <2>1
<1>. QED
  BY <1>1, <1>4

LEMMA CountsType ==
  ASSUME TypeOK, NEW id \in Snapshots, NEW repo \in Repos
  PROVE  /\ ScopedSummary(id, repo) = RepoSummary(id, repo)
         /\ \A g \in ActionableGaps : RepoSummary(id, repo).behind[g] \in Nat
         /\ Behind(RepoSummary(id, repo)) \in Nat
<1>1. RepoSummary(id, repo) = Summary(Items(id), repo)
  BY AllRows DEF RepoSummary
<1>2. IsFiniteSet(Mine(Items(id), repo))
  BY ItemsType, FS_Subset DEF Mine
<1>3. \A g : WithGap(Items(id), Rest(Items(id), repo), g) \subseteq Mine(Items(id), repo)
  BY DEF WithGap, Rest
<1>4. ASSUME NEW g \in ActionableGaps PROVE RepoSummary(id, repo).behind[g] \in Nat
  <2>1. RepoSummary(id, repo).behind[g] = Cardinality(WithGap(Items(id), Rest(Items(id), repo), g))
    <3>1. PICK line : line = RepoSummary(id, repo)
      OBVIOUS
    <3>2. line = Summary(Items(id), repo)
      BY <1>1, <3>1
    <3>3. PICK rows : rows = Items(id)
      OBVIOUS
    <3>4. line.behind[g] = Cardinality(WithGap(rows, Rest(rows, repo), g))
      BY <3>2, <3>3 DEF Summary, Rest
    <3>. QED
      BY <3>1, <3>3, <3>4
  <2>. QED
    BY <1>2, <1>3, <2>1, Bounded
<1>5. Behind(RepoSummary(id, repo)) \in Nat
  BY <1>4 DEF Behind, ActionableGaps
<1>6. ScopedSummary(id, repo) = RepoSummary(id, repo)
  BY <1>1, ScopedRows DEF ScopedSummary
<1>. QED
  BY <1>4, <1>5, <1>6

(* What a repo's line counts at a snapshot. *)
LineAt(id, r) == IF Tracked(id, r) THEN Behind(RepoSummary(id, r)) ELSE 0

LEMMA RepoLine ==
  ASSUME TypeOK, NEW repo \in Repos, NEW series, series = RepoSeries(repo)
  PROVE  /\ \A j \in DOMAIN series : series[j].snapshotId \in Window
         /\ \A id \in Window :
              /\ Cardinality(Points(series, id)) = IF Tracked(id, repo) THEN 1 ELSE 0
              /\ ValueAt(series, id) = LineAt(id, repo)
<1>. DEFINE S == {id \in Window : Tracked(id, repo)}
<1>1. PICK ids : ids = Ordered(S, Id)
  OBVIOUS
<1>2. S \subseteq Snapshots /\ Window \subseteq Snapshots
  BY DEF Window
<1>3. /\ ids \in [1..Cardinality(S) -> S]
      /\ \A i, j \in DOMAIN ids : ids[i] = ids[j] => i = j
      /\ \A id \in S : \E i \in DOMAIN ids : ids[i] = id
  <2>. HIDE DEF S
  <2>. QED
    BY <1>1, <1>2, OrderedIds
<1>4. series = [i \in DOMAIN ids |-> [snapshotId |-> ids[i], soundness |-> ScopedSummary(ids[i], repo)]]
  <2>1. {id \in Window : repo \in RepoNames(id, {repo})} = S
    BY <1>2, NamesTracked
  <2>. QED
    BY <1>1, <2>1 DEF RepoSeries
<1>5. /\ DOMAIN series = DOMAIN ids
      /\ \A i \in DOMAIN ids : /\ series[i].snapshotId = ids[i]
                               /\ series[i].soundness = ScopedSummary(ids[i], repo)
  BY <1>4
<1>6. ASSUME NEW id \in Window, ~Tracked(id, repo)
      PROVE  /\ Cardinality(Points(series, id)) = 0
             /\ ValueAt(series, id) = 0
  <2>1. Points(series, id) = {}
    BY <1>3, <1>5, <1>6 DEF Points
  <2>. QED
    BY <2>1, FS_EmptySet, SumOfNone DEF ValueAt
<1>7. ASSUME NEW id \in Window, Tracked(id, repo)
      PROVE  /\ Cardinality(Points(series, id)) = 1
             /\ ValueAt(series, id) = Behind(RepoSummary(id, repo))
  <2>1. PICK i \in DOMAIN ids : ids[i] = id
    BY <1>3, <1>7
  <2>2. Points(series, id) = {i}
    BY <1>3, <1>5, <2>1 DEF Points
  <2>3. Trend(series)[i] = Behind(RepoSummary(id, repo))
    BY <1>2, <1>5, <1>7, <2>1, CountsType DEF Trend
  <2>4. PICK f : f = [j \in {i} |-> Trend(series)[j]]
    OBVIOUS
  <2>5. f \in [{i} -> Nat] /\ f[i] = Behind(RepoSummary(id, repo))
    BY <1>2, <1>7, <2>3, <2>4, CountsType
  <2>6. SumFunction(f) = f[i]
    BY <2>5, SumOfOne
  <2>. QED
    BY <2>2, <2>4, <2>5, <2>6, FS_Singleton DEF ValueAt
<1>. QED
  BY <1>3, <1>5, <1>6, <1>7 DEF LineAt

LEMMA AggregateIs ==
  ASSUME TypeOK, NEW id \in Snapshots
  PROVE  Behind(Aggregate(id)) = SumFunction([r \in Repos |-> LineAt(id, r)])
<1>. DEFINE repos == {r \in Repos : Tracked(id, r)}
            count(g) == [r \in repos |-> RepoSummary(id, r).behind[g]]
<1>1. PICK major, minor, patch :
        /\ major = count("major") /\ minor = count("minor") /\ patch = count("patch")
  OBVIOUS
<1>2. IsFiniteSet(repos) /\ IsFiniteSet(Repos)
  BY ReposAssumption, FS_Subset
<1>3. /\ major \in [repos -> Nat] /\ minor \in [repos -> Nat] /\ patch \in [repos -> Nat]
  BY <1>1, CountsType DEF ActionableGaps
<1>4. Behind(Aggregate(id)) = SumFunction(major) + SumFunction(minor) + SumFunction(patch)
  <2>1. \A g \in ActionableGaps :
          Aggregate(id).behind[g] = SumFunction([r \in repos |-> RepoSummary(id, r).behind[g]])
    <3>1. \A g \in ActionableGaps :
            [r \in repos |-> [s \in repos |-> RepoSummary(id, s)][r].behind[g]]
              = [r \in repos |-> RepoSummary(id, r).behind[g]]
      OBVIOUS
    <3>2. RepoNames(id, Repos) = repos
      BY NamesTracked
    <3>. QED
      BY <3>1, <3>2 DEF Aggregate
  <2>. QED
    BY <1>1, <2>1 DEF Behind, ActionableGaps
<1>5. PICK both : both = [r \in repos |-> major[r] + minor[r]]
  OBVIOUS
<1>6. PICK all : all = [r \in repos |-> both[r] + patch[r]]
  OBVIOUS
<1>7. both \in [repos -> Nat] /\ SumFunction(both) = SumFunction(major) + SumFunction(minor)
  BY <1>2, <1>3, <1>5, SumOfSums
<1>8. SumFunction(all) = SumFunction(both) + SumFunction(patch)
  BY <1>2, <1>3, <1>6, <1>7, SumOfSums
<1>9. PICK line : line = [r \in Repos |-> LineAt(id, r)]
  OBVIOUS
<1>10. line \in [Repos -> Nat] /\ \A r \in Repos \ repos : line[r] = 0
  BY <1>9, CountsType DEF LineAt
<1>11. all = [r \in repos |-> line[r]]
  BY <1>1, <1>3, <1>5, <1>6, <1>9 DEF LineAt, Behind
<1>12. SumFunction([r \in repos |-> line[r]]) = SumFunction(line)
  BY <1>2, <1>10, SumOfPart
<1>. QED
  BY <1>4, <1>7, <1>8, <1>9, <1>11, <1>12

(* "the page and the API can never disagree about the counts": the trend   *)
(* of the estate is the sum of those of the repos at every snapshot, and   *)
(* no line has a point where its repo was not tracked, or lacks one where  *)
(* it was, were it only by a Dependabot read-back.                         *)
THEOREM TrendsAddUpHolds == Spec => []TrendsAddUp
<1>1. ASSUME TypeOK, NEW estate, estate = EstateSeries
      PROVE  /\ \A i \in DOMAIN estate :
                  /\ estate[i].snapshotId \in Window
                  /\ Trend(estate)[i] = Behind(Aggregate(estate[i].snapshotId))
             /\ \A id \in Window : \E i \in DOMAIN estate : estate[i].snapshotId = id
  <2>1. PICK ids : ids = Ordered(Window, Id)
    OBVIOUS
  <2>2. /\ ids \in [1..Cardinality(Window) -> Window]
        /\ \A id \in Window : \E i \in DOMAIN ids : ids[i] = id
    <3>1. Window \subseteq Snapshots
      BY DEF Window
    <3>. QED
      BY <1>1, <2>1, <3>1, OrderedIds
  <2>3. estate = [i \in DOMAIN ids |-> [snapshotId |-> ids[i], soundness |-> Aggregate(ids[i])]]
    BY <1>1, <2>1 DEF EstateSeries
  <2>. QED
    BY <2>2, <2>3 DEF Trend
<1>2. ASSUME TypeOK, NEW id \in Window
      PROVE  Behind(Aggregate(id)) = SumFunction([r \in Repos |-> ValueAt(RepoSeries(r), id)])
  <2>1. [r \in Repos |-> ValueAt(RepoSeries(r), id)] = [r \in Repos |-> LineAt(id, r)]
    BY <1>2, RepoLine
  <2>. QED
    BY <1>2, <2>1, AggregateIs DEF Window
<1>3. ASSUME TypeOK, NEW estate, estate = EstateSeries,
             NEW series, series = [r \in Repos |-> RepoSeries(r)]
      PROVE  AddUp(estate, series)
  <2>1. ASSUME NEW i \in DOMAIN estate, NEW id, id = estate[i].snapshotId
        PROVE  /\ Trend(estate)[i] = SumFunction([r \in Repos |-> ValueAt(series[r], id)])
               /\ \A r \in Repos :
                    Cardinality(Points(series[r], id)) = IF Tracked(id, r) THEN 1 ELSE 0
    <3>1. id \in Window /\ Trend(estate)[i] = Behind(Aggregate(id))
      BY <1>1, <1>3, <2>1
    <3>2. [r \in Repos |-> ValueAt(series[r], id)] = [r \in Repos |-> ValueAt(RepoSeries(r), id)]
      BY <1>3
    <3>. QED
      BY <1>2, <1>3, <3>1, <3>2, RepoLine
  <2>2. ASSUME NEW r \in Repos, NEW j \in DOMAIN series[r]
        PROVE  \E i \in DOMAIN estate : estate[i].snapshotId = series[r][j].snapshotId
    BY <1>1, <1>3, RepoLine
  <2>. QED
    BY <2>1, <2>2 DEF AddUp
<1>4. TypeOK => TrendsAddUp
  BY <1>3 DEF TrendsAddUp
<1>. QED
  BY <1>4, TypeCorrect, PTL

-----------------------------------------------------------------------------
(* The rank of a version. *)

LEMMA NumbersType ==
  ASSUME NEW v, IsVersion(v)
  PROVE  /\ ParseVersion[v] \in Seq(Nat)
         /\ Len(ParseVersion[v]) \in Nat \ {0}
         /\ DOMAIN ParseVersion[v] = 1..Len(ParseVersion[v])
         /\ \A i \in Nat \ {0} : NumberAt(v, i) \in Nat
BY ParseVersionAssumption DEF IsVersion, NumberAt

(* The recursion of Numeral has a solution, for any number of places. *)
Extends(v, base, n, value) ==
  value = [i \in 0..n |-> IF i = 0 THEN 0 ELSE value[i-1] * base + NumberAt(v, i)]

Values(v, places, base) ==
  CHOOSE value :
    value = [i \in 0..places |-> IF i = 0 THEN 0 ELSE value[i-1] * base + NumberAt(v, i)]

LEMMA NumeralIs ==
  ASSUME NEW v, NEW places, NEW base
  PROVE  Numeral(v, places, base) = Values(v, places, base)[places]
BY Zenon DEF Numeral, Values, NumberAt

LEMMA ExtendsFurther ==
  ASSUME NEW v, NEW base, NEW n \in Nat, NEW value, Extends(v, base, n, value)
  PROVE  \E more : Extends(v, base, n + 1, more)
<1>. DEFINE more == [i \in 0..(n+1) |->
                       IF i <= n THEN value[i] ELSE value[n] * base + NumberAt(v, n + 1)]
<1>1. \A i \in 0..n : more[i] = value[i]
  OBVIOUS
<1>2. ASSUME NEW i \in 0..(n+1)
      PROVE  more[i] = IF i = 0 THEN 0 ELSE more[i-1] * base + NumberAt(v, i)
  <2>1. CASE i <= n
    <3>1. more[i] = IF i = 0 THEN 0 ELSE value[i-1] * base + NumberAt(v, i)
      BY <2>1 DEF Extends
    <3>2. i # 0 => more[i-1] = value[i-1]
      BY <2>1
    <3>. QED
      BY <3>1, <3>2
  <2>2. CASE i = n + 1
    <3>1. more[i] = value[n] * base + NumberAt(v, n + 1)
      BY <2>2
    <3>2. i # 0 /\ i - 1 = n /\ more[n] = value[n]
      BY <2>2
    <3>. QED
      BY <2>2, <3>1, <3>2
  <2>. QED
    BY <2>1, <2>2
<1>3. more = [i \in 0..(n+1) |-> IF i = 0 THEN 0 ELSE more[i-1] * base + NumberAt(v, i)]
  BY <1>2
<1>. QED
  BY <1>3 DEF Extends

LEMMA ValuesIs ==
  ASSUME NEW v, IsVersion(v), NEW places \in Nat, NEW base \in Nat
  PROVE  /\ Values(v, places, base)[0] = 0
         /\ \A i \in 1..places : Values(v, places, base)[i]
                                  = Values(v, places, base)[i-1] * base + NumberAt(v, i)
         /\ \A i \in 0..places : Values(v, places, base)[i] \in Nat
<1>. DEFINE bad == {n \in Nat : ~\E value : Extends(v, base, n, value)}
<1>1. bad = {}
  <2>1. SUFFICES ASSUME bad # {} PROVE FALSE
    OBVIOUS
  <2>2. PICK n \in bad : \A m \in bad : n <= m
    BY <2>1, LeastNumber
  <2>3. CASE n = 0
    <3>. DEFINE zero == [i \in 0..0 |-> 0]
    <3>1. Extends(v, base, 0, zero)
      BY DEF Extends
    <3>. QED
      BY <2>2, <2>3, <3>1
  <2>4. CASE n # 0
    <3>1. n - 1 \in Nat /\ n - 1 \notin bad /\ (n - 1) + 1 = n
      BY <2>2, <2>4
    <3>2. PICK value : Extends(v, base, n - 1, value)
      BY <3>1
    <3>3. \E more : Extends(v, base, n, more)
      BY <3>1, <3>2, ExtendsFurther
    <3>. QED
      BY <2>2, <3>3
  <2>. QED
    BY <2>3, <2>4
<1>2. \E value : Extends(v, base, places, value)
  BY <1>1
<1>3. PICK value : value = Values(v, places, base)
  OBVIOUS
<1>4. value = [i \in 0..places |-> IF i = 0 THEN 0 ELSE value[i-1] * base + NumberAt(v, i)]
  BY <1>2, <1>3, Zenon DEF Values, Extends
<1>5. value[0] = 0 /\ \A i \in 1..places : value[i] = value[i-1] * base + NumberAt(v, i)
  BY <1>4
<1>6. \A i \in 0..places : value[i] \in Nat
  <2>. DEFINE wrong == {i \in 0..places : value[i] \notin Nat}
  <2>1. SUFFICES ASSUME wrong # {} PROVE FALSE
    OBVIOUS
  <2>4. wrong \subseteq Nat
    OBVIOUS
  <2>2. PICK i \in wrong : \A m \in wrong : i <= m
    <3>. HIDE DEF wrong
    <3>. QED
      BY <2>1, <2>4, LeastNumber
  <2>3. i # 0 /\ i \in 1..places /\ i - 1 \in 0..places /\ i - 1 \notin wrong
    BY <1>5, <2>2
  <2>6. PICK x \in Nat, d \in Nat : x = value[i-1] /\ d = NumberAt(v, i)
    BY <2>3, NumbersType
  <2>5. value[i] = x * base + d
    BY <1>5, <2>3, <2>6
  <2>. QED
    BY <2>2, <2>5
<1>. QED
  BY <1>3, <1>5, <1>6

LEMMA NextDigit ==
  ASSUME NEW x \in Nat, NEW y \in Nat, NEW base \in Nat, x > y,
         NEW d \in Nat, NEW e \in Nat, e < base
  PROVE  x * base + d > y * base + e
<1>1. PICK t \in Nat : x = y + 1 + t
  <2>1. x - y - 1 \in Nat /\ x = y + 1 + (x - y - 1)
    OBVIOUS
  <2>. QED
    BY <2>1
<1>2. x * base = y * base + base + t * base
  BY <1>1
<1>3. t * base \in Nat /\ y * base \in Nat
  OBVIOUS
<1>. QED
  BY <1>2, <1>3

(* The first number that differs decides between two numerals. *)
LEMMA FirstDigitDecides ==
  ASSUME NEW v, IsVersion(v), NEW w, IsVersion(w),
         NEW places \in Nat, NEW base \in Nat,
         \A i \in 1..places : NumberAt(w, i) < base,
         NEW k \in 1..places, NumberAt(v, k) > NumberAt(w, k),
         \A j \in 1..(k-1) : NumberAt(v, j) = NumberAt(w, j)
  PROVE  Numeral(v, places, base) > Numeral(w, places, base)
<1>1. PICK a, b : a = Values(v, places, base) /\ b = Values(w, places, base)
  OBVIOUS
<1>2. /\ a[0] = 0 /\ b[0] = 0
      /\ \A i \in 1..places : a[i] = a[i-1] * base + NumberAt(v, i)
      /\ \A i \in 1..places : b[i] = b[i-1] * base + NumberAt(w, i)
      /\ \A i \in 0..places : a[i] \in Nat /\ b[i] \in Nat
  BY <1>1, ValuesIs
<1>3. \A i \in 1..places : NumberAt(v, i) \in Nat /\ NumberAt(w, i) \in Nat
  BY NumbersType
<1>. DEFINE Good(i) == (i < k => a[i] = b[i]) /\ (k <= i => a[i] > b[i])
            wrong == {i \in 0..places : ~Good(i)}
<1>4. wrong = {}
  <2>1. SUFFICES ASSUME wrong # {} PROVE FALSE
    OBVIOUS
  <2>2. wrong \subseteq Nat
    OBVIOUS
  <2>3. PICK i \in wrong : \A m \in wrong : i <= m
    <3>. HIDE DEF wrong
    <3>. QED
      BY <2>1, <2>2, LeastNumber
  <2>4. i \in 0..places /\ ~Good(i)
    BY <2>3
  <2>5. CASE i = 0
    BY <1>2, <2>4, <2>5
  <2>6. CASE i # 0
    <3>1. i \in 1..places /\ i - 1 \in 0..places
      BY <2>4, <2>6
    <3>2. Good(i - 1)
      <4>1. i - 1 \notin wrong
        <5>. HIDE DEF wrong
        <5>1. \A m \in wrong : ~(m < i)
          BY <2>2, <2>3
        <5>. QED
          BY <3>1, <5>1
      <4>. QED
        BY <3>1, <4>1
    <3>3. PICK x \in Nat, y \in Nat, d \in Nat, e \in Nat :
            /\ x = a[i-1] /\ y = b[i-1] /\ d = NumberAt(v, i) /\ e = NumberAt(w, i)
      BY <1>2, <1>3, <3>1
    <3>4. a[i] = x * base + d /\ b[i] = y * base + e /\ e < base
      BY <1>2, <3>1, <3>3
    <3>5. CASE i < k
      <4>1. x = y /\ d = e
        BY <3>1, <3>2, <3>3, <3>5
      <4>. QED
        BY <2>4, <3>4, <3>5, <4>1
    <3>6. CASE i = k
      <4>1. x = y /\ d > e
        BY <3>1, <3>2, <3>3, <3>6
      <4>2. x * base + d > y * base + e
        BY <4>1
      <4>. QED
        BY <2>4, <3>4, <3>6, <4>2
    <3>7. CASE k < i
      <4>1. x > y
        BY <3>1, <3>2, <3>3, <3>7
      <4>2. x * base + d > y * base + e
        BY <3>4, <4>1, NextDigit
      <4>. QED
        BY <2>4, <3>4, <3>7, <4>2
    <3>. QED
      BY <3>1, <3>5, <3>6, <3>7
  <2>. QED
    BY <2>5, <2>6
<1>5. Good(places)
  <2>1. places \in 0..places /\ places \notin wrong
    BY <1>4
  <2>. QED
    BY <2>1
<1>6. a[places] > b[places]
  BY <1>5
<1>. QED
  BY <1>1, <1>6, NumeralIs

(* The same numbers make the same numeral. *)
LEMMA SameDigits ==
  ASSUME NEW v, IsVersion(v), NEW w, IsVersion(w), NEW places \in Nat, NEW base \in Nat,
         \A i \in 1..places : NumberAt(v, i) = NumberAt(w, i)
  PROVE  Numeral(v, places, base) = Numeral(w, places, base)
<1>1. PICK a, b : a = Values(v, places, base) /\ b = Values(w, places, base)
  OBVIOUS
<1>2. /\ a[0] = 0 /\ b[0] = 0
      /\ \A i \in 1..places : a[i] = a[i-1] * base + NumberAt(v, i)
      /\ \A i \in 1..places : b[i] = b[i-1] * base + NumberAt(w, i)
  BY <1>1, ValuesIs
<1>. DEFINE wrong == {i \in 0..places : a[i] # b[i]}
<1>3. wrong = {}
  <2>1. SUFFICES ASSUME wrong # {} PROVE FALSE
    OBVIOUS
  <2>2. wrong \subseteq Nat
    OBVIOUS
  <2>3. PICK i \in wrong : \A m \in wrong : i <= m
    <3>. HIDE DEF wrong
    <3>. QED
      BY <2>1, <2>2, LeastNumber
  <2>4. i \in 1..places /\ i - 1 \in 0..places /\ i - 1 \notin wrong
    BY <1>2, <2>3
  <2>5. a[i-1] = b[i-1]
    BY <2>4
  <2>6. a[i] = b[i]
    BY <1>2, <2>4, <2>5
  <2>. QED
    BY <2>3, <2>6
<1>4. a[places] = b[places]
  BY <1>3
<1>. QED
  BY <1>1, <1>4, NumeralIs

LEMMA LargestIs ==
  ASSUME NEW S, S \subseteq Nat, IsFiniteSet(S), S # {}
  PROVE  Max(S) \in S /\ \A x \in S : x <= Max(S)
<1>. DEFINE good == {s \in SUBSET S : s # {} => \E m \in s : \A x \in s : x <= m}
<1>1. ASSUME NEW s \in SUBSET S, \A t \in SUBSET s : t # s => t \in good
      PROVE  s \in good
  <2>1. SUFFICES ASSUME s # {} PROVE \E m \in s : \A x \in s : x <= m
    OBVIOUS
  <2>2. PICK a : a \in s
    BY <2>1
  <2>3. PICK t : t = s \ {a}
    OBVIOUS
  <2>4. t \in good
    BY <1>1, <2>2, <2>3
  <2>5. CASE t = {}
    <3>1. \A x \in s : x = a
      BY <2>3, <2>5
    <3>. QED
      BY <2>2, <3>1
  <2>6. CASE t # {}
    <3>1. PICK m \in t : \A x \in t : x <= m
      BY <2>4, <2>6
    <3>2. m \in s /\ m \in Nat /\ a \in Nat /\ \A x \in s : x \in Nat /\ (x = a \/ x \in t)
      BY <2>2, <2>3, <3>1
    <3>3. CASE a <= m
      BY <3>1, <3>2, <3>3
    <3>4. CASE m < a
      <4>1. \A x \in s : x <= a
        BY <3>1, <3>2, <3>4
      <4>. QED
        BY <2>2, <4>1
    <3>. QED
      BY <3>2, <3>3, <3>4
  <2>. QED
    BY <2>5, <2>6
<1>2. SUBSET S \subseteq good
  <2>. HIDE DEF good
  <2>. QED
    BY <1>1, SubsetInduction
<1>3. S \in good
  BY <1>2
<1>4. \E m \in S : \A x \in S : m >= x
  BY <1>3
<1>. QED
  BY <1>4 DEF Max

LEMMA RangeOfNumbers ==
  ASSUME NEW u, IsVersion(u)
  PROVE  /\ Range(ParseVersion[u]) \subseteq Nat /\ Range(ParseVersion[u]) # {}
         /\ IsFiniteSet(Range(ParseVersion[u]))
         /\ \A i \in DOMAIN ParseVersion[u] : ParseVersion[u][i] \in Range(ParseVersion[u])
<1>1. ASSUME NEW f \in Seq(Nat), Len(f) # 0
      PROVE  /\ Range(f) \subseteq Nat /\ Range(f) # {} /\ IsFiniteSet(Range(f))
             /\ \A i \in DOMAIN f : f[i] \in Range(f)
  <2>1. f \in [DOMAIN f -> Nat] /\ DOMAIN f = 1..Len(f) /\ Len(f) \in Nat
    OBVIOUS
  <2>2. \A i \in DOMAIN f : f[i] \in Range(f)
    BY DEF Range
  <2>3. \A x \in Range(f) : \E i \in DOMAIN f : f[i] = x
    BY DEF Range
  <2>4. f \in Surjection(DOMAIN f, Range(f))
    <3>1. f \in [DOMAIN f -> Range(f)]
      BY <2>1, <2>2, Zenon
    <3>. QED
      BY <2>3, <3>1 DEF Surjection
  <2>5. IsFiniteSet(DOMAIN f)
    <3>1. PICK n \in Nat : n = Len(f)
      BY <2>1
    <3>2. IsFiniteSet(1..n)
      BY FS_Interval
    <3>. QED
      BY <2>1, <3>1, <3>2
  <2>6. IsFiniteSet(Range(f))
    BY <2>4, <2>5, FS_Surjection
  <2>7. 1 \in DOMAIN f
    BY <1>1, <2>1
  <2>. QED
    BY <2>1, <2>2, <2>3, <2>6, <2>7
<1>2. ParseVersion[u] \in Seq(Nat) /\ Len(ParseVersion[u]) # 0
  BY NumbersType
<1>. QED
  BY <1>1, <1>2

LEMMA RankBounds ==
  ASSUME NEW v, IsVersion(v), NEW w, IsVersion(w),
         NEW places, places = Max({Len(ParseVersion[v]), Len(ParseVersion[w])}),
         NEW base, base = 1 + Max(Range(ParseVersion[v]) \cup Range(ParseVersion[w]))
  PROVE  /\ places \in Nat /\ base \in Nat
         /\ DOMAIN ParseVersion[v] \subseteq 1..places
         /\ DOMAIN ParseVersion[w] \subseteq 1..places
         /\ \A i \in Nat \ {0} : NumberAt(v, i) < base /\ NumberAt(w, i) < base
<1>2. PICK lengths : lengths = {Len(ParseVersion[v]), Len(ParseVersion[w])}
  OBVIOUS
<1>3. /\ lengths \subseteq Nat /\ lengths # {} /\ IsFiniteSet(lengths)
      /\ Len(ParseVersion[v]) \in lengths /\ Len(ParseVersion[w]) \in lengths
  <2>1. {Len(ParseVersion[v])} \cup {Len(ParseVersion[w])} = lengths
    BY <1>2
  <2>2. IsFiniteSet(lengths)
    BY <2>1, FS_Singleton, FS_Union
  <2>. QED
    BY <1>2, <2>2, NumbersType
<1>4. places \in Nat /\ \A n \in lengths : n <= places
  <2>1. places = Max(lengths)
    BY <1>2
  <2>. QED
    BY <1>3, <2>1, LargestIs
<1>5. PICK all : all = Range(ParseVersion[v]) \cup Range(ParseVersion[w])
  OBVIOUS
<1>6. /\ all \subseteq Nat /\ all # {} /\ IsFiniteSet(all)
      /\ \A i \in DOMAIN ParseVersion[v] : ParseVersion[v][i] \in all
      /\ \A i \in DOMAIN ParseVersion[w] : ParseVersion[w][i] \in all
  <2>1. IsFiniteSet(all)
    BY <1>5, RangeOfNumbers, FS_Union
  <2>. QED
    BY <1>5, <2>1, RangeOfNumbers
<1>7. base \in Nat /\ 0 < base /\ \A n \in all : n < base
  <2>1. PICK most \in Nat : most = Max(all) /\ \A n \in all : n <= most
    BY <1>6, LargestIs
  <2>2. base = 1 + most
    BY <1>5, <2>1
  <2>3. base \in Nat /\ 0 < base
    BY <2>2
  <2>4. ASSUME NEW n \in all PROVE n < base
    <3>1. n \in Nat /\ n <= most
      BY <1>6, <2>1
    <3>. QED
      BY <2>2, <3>1
  <2>. QED
    BY <2>3, <2>4
<1>8. DOMAIN ParseVersion[v] \subseteq 1..places /\ DOMAIN ParseVersion[w] \subseteq 1..places
  <2>1. PICK m \in Nat, n \in Nat : m = Len(ParseVersion[v]) /\ n = Len(ParseVersion[w])
    BY NumbersType
  <2>2. m <= places /\ n <= places
    BY <1>3, <1>4, <2>1
  <2>3. DOMAIN ParseVersion[v] = 1..m /\ DOMAIN ParseVersion[w] = 1..n
    BY <2>1, NumbersType
  <2>4. places \in Nat
    BY <1>4
  <2>5. 1..m \subseteq 1..places /\ 1..n \subseteq 1..places
    <3>1. ASSUME NEW a \in Nat, NEW b \in Nat, a <= b
          PROVE  1..a \subseteq 1..b
      BY <3>1
    <3>. QED
      BY <2>1, <2>2, <2>4, <3>1, Zenon
  <2>. QED
    BY <2>3, <2>5
<1>9. ASSUME NEW i \in Nat \ {0} PROVE NumberAt(v, i) < base /\ NumberAt(w, i) < base
  BY <1>6, <1>7 DEF NumberAt
<1>. QED
  BY <1>4, <1>7, <1>8, <1>9

(* isNewer is the order of the numerals, once they have a place for every  *)
(* number of the two versions and a base above all of them.                *)
LEMMA NewerRanksAbove ==
  ASSUME NEW v, IsVersion(v), v # Null, NEW w, IsVersion(w), w # Null
  PROVE  IsNewer(v, w) <=> RanksAbove(v, w)
<1>1. PICK places, base :
        /\ places = Max({Len(ParseVersion[v]), Len(ParseVersion[w])})
        /\ base = 1 + Max(Range(ParseVersion[v]) \cup Range(ParseVersion[w]))
  OBVIOUS
<1>2. RanksAbove(v, w) <=> (Numeral(v, places, base) > Numeral(w, places, base))
  BY <1>1, Zenon DEF RanksAbove
<1>3. /\ places \in Nat /\ base \in Nat
      /\ DOMAIN ParseVersion[v] \subseteq 1..places
      /\ DOMAIN ParseVersion[w] \subseteq 1..places
      /\ \A i \in Nat \ {0} : NumberAt(v, i) < base /\ NumberAt(w, i) < base
  BY <1>1, RankBounds
<1>4. \A i \in 1..places : NumberAt(v, i) < base /\ NumberAt(w, i) < base
  BY <1>3
<1>5. Numeral(v, places, base) \in Nat /\ Numeral(w, places, base) \in Nat
  <2>1. /\ Values(v, places, base)[places] \in Nat
        /\ Values(w, places, base)[places] \in Nat
    BY <1>3, ValuesIs
  <2>. QED
    BY <2>1, NumeralIs
<1>6. CASE IsNewer(v, w)
  <2>1. PICK k \in DOMAIN ParseVersion[v] :
          /\ NumberAt(v, k) > NumberAt(w, k)
          /\ \A j \in 1..(k-1) : NumberAt(v, j) = NumberAt(w, j)
    BY <1>6 DEF IsNewer
  <2>2. Numeral(v, places, base) > Numeral(w, places, base)
    BY <1>3, <1>4, <2>1, FirstDigitDecides
  <2>. QED
    BY <1>2, <1>6, <2>2
<1>7. CASE IsNewer(w, v)
  <2>1. PICK k \in DOMAIN ParseVersion[w] :
          /\ NumberAt(w, k) > NumberAt(v, k)
          /\ \A j \in 1..(k-1) : NumberAt(w, j) = NumberAt(v, j)
    BY <1>7 DEF IsNewer
  <2>2. Numeral(w, places, base) > Numeral(v, places, base)
    BY <1>3, <1>4, <2>1, FirstDigitDecides
  <2>3. ~IsNewer(v, w)
    BY <1>7, NewerIsStrictOrder
  <2>. QED
    BY <1>2, <1>5, <2>2, <2>3
<1>8. CASE ~IsNewer(v, w) /\ ~IsNewer(w, v)
  <2>1. \A i \in Nat \ {0} : NumberAt(v, i) = NumberAt(w, i)
    BY <1>8, NewerIsTotal
  <2>2. Numeral(v, places, base) = Numeral(w, places, base)
    BY <1>3, <2>1, SameDigits
  <2>. QED
    BY <1>2, <1>5, <1>8, <2>2
<1>. QED
  BY <1>6, <1>7, <1>8

(* What is published is newer than a recorded version exactly when it is a *)
(* version and ranks above it.                                             *)
LEMMA ReadableAndAbove ==
  ASSUME NEW latest \in VersionStrings \cup {Null}, NEW target \in Version
  PROVE  IsNewer(latest, target) <=> (latest \in Version /\ RanksAbove(latest, target))
<1>1. target # Null /\ IsVersion(target)
  BY NullAssumption DEF Version
<1>2. CASE latest \in Version
  <2>1. latest # Null /\ IsVersion(latest)
    BY <1>2, NullAssumption DEF Version
  <2>. QED
    BY <1>1, <1>2, <2>1, NewerRanksAbove
<1>3. CASE latest \notin Version
  BY <1>3 DEF IsNewer, Version
<1>. QED
  BY <1>2, <1>3

(* "never un-suppress on a guess" (suppression.ts): what was skipped, or   *)
(* approved where it stands, comes back exactly when a version that ranks  *)
(* above the one decided on is published, whichever row the decision was   *)
(* found in and however it came to be there.                               *)
THEOREM HiddenUntilNewerHolds == Spec => []HiddenUntilNewer
<1>1. TypeOK /\ RowsDated /\ AxesInv => HiddenUntilNewer
  <2>. SUFFICES ASSUME TypeOK, RowsDated, AxesInv,
                       NEW id \in Snapshots, NEW key \in DOMAIN Items(id),
                       NEW item, item = Items(id)[key],
                       NEW decision, decision = DecisionFor(key, Items(id)),
                       NEW target, target = HiddenUpTo(item, decision), target # Null
                PROVE  SuppressionState(item, decision, clock) = "active"
                         <=> (item.latest \in Version /\ RanksAbove(item.latest, target))
    BY DEF HiddenUntilNewer
  <2>1. key \in Keys /\ item \in Item
    BY ItemsType
  <2>2. item.pinned # Null /\ item.latest \in VersionStrings \cup {Null}
    BY <2>1, NullAssumption DEF Item
  <2>3. decision # Null
    BY <2>2 DEF HiddenUpTo, TrioOf, NoTrio
  <2>4. decision \in Row /\ OneTarget(decision)
    <3>1. PICK from : from = MatchedKey(key, Items(id))
      OBVIOUS
    <3>2. from # Null /\ decision = decisions[from]
      BY <2>3, <3>1 DEF DecisionFor
    <3>3. from \in Keys /\ decisions[from] # Null
      BY <2>1, <3>1, <3>2, MatchedKeyTypes
    <3>. QED
      BY <3>2, <3>3 DEF TypeOK, AxesInv
  <2>5. /\ target \in Version
        /\ SuppressionState(item, decision, clock) = "active" <=> IsNewer(item.latest, target)
    <3>1. CASE decision.skippedVersion # Null
      <4>1. target = decision.skippedVersion
        BY <2>3, <3>1 DEF HiddenUpTo, TrioOf
      <4>. QED
        BY <2>3, <2>4, <3>1, <4>1 DEF Row, SuppressionState
    <3>2. CASE decision.skippedVersion = Null
      <4>1. decision.approvedFromPinned = item.pinned /\ target = decision.approvedVersion
        BY <2>3, <3>2 DEF HiddenUpTo, TrioOf
      <4>2. decision.approvedVersion # Null /\ decision.remindAt = Null
        BY <2>2, <2>4, <4>1 DEF OneTarget
      <4>. QED
        BY <2>3, <2>4, <3>2, <4>1, <4>2 DEF Row, SuppressionState, ApprovalSpent
    <3>. QED
      BY <3>1, <3>2
  <2>. QED
    BY <2>2, <2>5, ReadableAndAbove
<1>. QED
  BY <1>1, DatedInvariant, AxesInvariant, PTL
=============================================================================
