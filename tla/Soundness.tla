------------------------------ MODULE Soundness ------------------------------
(***************************************************************************)
(* The counts of the dashboard (soundness.ts) over the store: what GET     *)
(* /api/repos, GET /api/snapshots and GET /api/repos/:repo/soundness say   *)
(* of a snapshot, next to what the pages list of it (needsDecision.ts).    *)
(* Nothing is stored: every count is computed when asked, from the rows of *)
(* one snapshot, the decisions as they stand and the time.                 *)
(***************************************************************************)
EXTENDS DecisionStore, FiniteSets

CONSTANTS
  Repos,
  RepoOf,           \* [Keys -> Repos]
  DependabotRepos   \* [Docs -> SUBSET Repos]: the keys of a document's `repos`,
                    \* its rows of the table `repos`

ASSUME ReposAssumption ==
  /\ IsFiniteSet(Repos)
  /\ RepoOf \in [Keys -> Repos]
  /\ DependabotRepos \in [Docs -> SUBSET Repos]
  /\ \A k, l \in Keys : RepoKindName[k] = RepoKindName[l] => RepoOf[k] = RepoOf[l]

(* A published document lists finitely many items. *)
ASSUME DocumentsAssumption == \A doc \in Docs : IsFiniteSet(DOMAIN doc.items)

Snapshots == 1..Len(snapshots)
Items(id) == snapshots[id].items

(* SELECT ... FROM items WHERE snapshotId = ? [AND repo = ?]. *)
ItemRows(id, repos) ==
  LET rows == {k \in DOMAIN Items(id) : RepoOf[k] \in repos}
  IN  [k \in rows |-> Items(id)[k]]

(* Mutant: a repo known only by its Dependabot read-back is left out. *)
RepoNames_ItemsOnly(id, repos) ==
  {RepoOf[k] : k \in DOMAIN ItemRows(id, repos)}

(* SELECT DISTINCT repo FROM items, and FROM repos: a repo of a snapshot   *)
(* has an item in it, or a Dependabot read-back, or both.                  *)
RepoNames(id, repos) ==
  {RepoOf[k] : k \in DOMAIN ItemRows(id, repos)}
    \cup (DependabotRepos[snapshots[id]] \cap repos)

-----------------------------------------------------------------------------
(* One item, with the decision found for it among the rows at hand. *)

(* Mutant: a reminder that came due still counts as decided. *)
GapSuppressed_Due(item, decision) ==
  /\ item.gap \in ActionableGaps
  /\ SuppressionState(item, decision, clock) # "active"

GapSuppressed(item, decision) ==
  /\ item.gap \in ActionableGaps
  /\ SuppressionState(item, decision, clock) = "suppressed"

AdvisorySilenced(item, decision) ==
  /\ item.advisoryStatus = "affected"
  /\ EffectiveAdvisoryStatus(item, decision) # "affected"

-----------------------------------------------------------------------------
(* computeRepoSummaries, for one of its repos, from the rows it selected.  *)

Mine(rows, repo) == {k \in DOMAIN rows : RepoOf[k] = repo}

Suppressed(rows, repo) ==
  {k \in Mine(rows, repo) : GapSuppressed(rows[k], DecisionFor(k, rows))}

Silenced(rows, repo) ==
  {k \in Mine(rows, repo) : AdvisorySilenced(rows[k], DecisionFor(k, rows))}

Affected(rows, keys) == {k \in keys : rows[k].advisoryStatus = "affected"}
WithGap(rows, keys, gap) == {k \in keys : rows[k].gap = gap}

(* Mutant: an item decided on both axes counts twice. *)
Summary_CountsTwice(rows, repo) ==
  LET suppressed == Suppressed(rows, repo)
      silenced == Silenced(rows, repo)
      gap(g) == Cardinality(WithGap(rows, Mine(rows, repo) \ suppressed, g))
  IN  [ items |-> Cardinality(Mine(rows, repo)),
        affected |-> Cardinality(Affected(rows, Mine(rows, repo) \ silenced)),
        behind |-> [g \in ActionableGaps |-> gap(g)],
        decided |-> Cardinality(suppressed) + Cardinality(silenced),
        unknown |-> gap("unknown") ]

Summary(rows, repo) ==
  LET suppressed == Suppressed(rows, repo)
      silenced == Silenced(rows, repo)
      gap(g) == Cardinality(WithGap(rows, Mine(rows, repo) \ suppressed, g))
  IN  [ items |-> Cardinality(Mine(rows, repo)),
        affected |-> Cardinality(Affected(rows, Mine(rows, repo) \ silenced)),
        behind |-> [g \in ActionableGaps |-> gap(g)],
        decided |-> Cardinality(suppressed \cup silenced),
        unknown |-> gap("unknown") ]

(* Mutant: the series is computed from the latest snapshot throughout. *)
ScopedSummary_Latest(id, repo) == Summary(ItemRows(Len(snapshots), {repo}), repo)

(* GET /api/repos computes all repos of the latest snapshot at once, GET   *)
(* /api/repos/:repo/soundness one repo from its own rows.                  *)
RepoSummary(id, repo) == Summary(ItemRows(id, Repos), repo)
ScopedSummary(id, repo) == Summary(ItemRows(id, {repo}), repo)

Behind(summary) == summary.behind["major"] + summary.behind["minor"] + summary.behind["patch"]

(* The decision the items route joins, and the list the pages derive. *)
Listed(id, repo) ==
  {k \in Mine(Items(id), repo) :
     NeedsDecision(Items(id)[k], DecisionFor(k, Items(id)), clock)}

Actionable(item) == item.gap \in ActionableGaps \/ item.advisoryStatus = "affected"

-----------------------------------------------------------------------------
(* Properties. *)

(* The soundness line and the lists of items to decide, computed by the    *)
(* server and by the browser, agree: a repo has something to decide on its *)
(* page exactly when its line counts something affected or behind, and it  *)
(* never lists more items than the line counts.  What asks for attention   *)
(* and is not listed is counted as decided, once on however many axes      *)
(* ("still counts once, not twice"): no item drops out of both.            *)
LineAgreesWithList ==
  \A id \in Snapshots : \A repo \in Repos :
    LET line == RepoSummary(id, repo)
        listed == Listed(id, repo)
        asking == {k \in Mine(Items(id), repo) : Actionable(Items(id)[k])}
    IN  /\ (listed = {}) <=> (line.affected + Behind(line) = 0)
        /\ Cardinality(listed) <= line.affected + Behind(line)
        /\ line.decided \in Cardinality(asking \ listed)..Cardinality(asking)

(* "Scoping the item query to one repo cannot change countByRepoKindName's *)
(* ambiguity counts": the repo's trend line and the list of all repos say  *)
(* the same of a snapshot, carried-over decisions included, and know the   *)
(* same repos, those without an item included.                             *)
ScopeChangesNothing ==
  \A id \in Snapshots : \A repo \in Repos :
    /\ ScopedSummary(id, repo) = RepoSummary(id, repo)
    /\ RepoNames(id, {repo}) = RepoNames(id, Repos) \cap {repo}
=============================================================================
