# A TLA+ model of Kenzen

Kenzen is the dashboard of an estate of repositories: a publisher (Tooling) posts
snapshots of what every repository depends on, users decide what to do about the items
that are behind or affected by an advisory, and the dashboard counts and lists what is
left. This directory models the parts of it that keep state or that two actors change
at a time, checks them with TLC on small instances, and proves with TLAPS, for instances
of every size, every invariant and every action property that those runs check.

Paths below are relative to the repository's root; `server/` and `web/` stand for
`packages/server/src/` and `packages/web/src/`, `contract/` for `packages/contract/src/`.

## 1. The system

| Component | State it keeps | Operations | Talks to |
|---|---|---|---|
| Ingest (`server/ingest.ts`, `ingest-route.ts`) | tables `snapshots`, `items`, `repos` | `POST /api/ingest`: join, refuse, store, or answer a repeated post | the publisher; the same SQLite connection as everything else |
| Decisions (`server/decisions.ts`, `decisions-route.ts`) | tables `decisions`, `decision_history` | `PUT /api/decisions/:key`: skip, remind, approve, acknowledge, clear | the web client; reads the latest snapshot |
| Re-matching (`findDecisionForItem`) | none | carries a decision to an item whose source line moved | every read route |
| Suppression (`contract/suppression.ts`) | none | verdict of an item, its decision and the time | run by the server and by the browser |
| Soundness (`server/soundness.ts`, `repos-route.ts`) | none | counts per repository, and their series | the read routes; the browser derives lists from the same rows |
| Access (`server/access-identity.ts`) | none | turns a token into an identity, asynchronously | the PUT route awaits it |
| Process (`server/main.ts`, `server.ts`, `config.ts`) | the connection | start, SIGTERM, exit | restarted by the container's policy |
| Row of a page (`web/useOptimisticDecisions.ts`, `DecisionActions.tsx`) | overrides, errors, sequence numbers, the open confirm bar | apply, confirm, roll back | `PUT`, several at a time |
| Decided page (`web/routes/Decided.tsx`, `useAsync.ts`) | loaded rows, keys being cleared, the error | load, clear, reload | `GET` and `PUT`, several at a time |
| Needs-a-decision and Per-repo pages (`web/routes/NeedsDecision.tsx`, `Repos.tsx`) | the snapshot loaded, its items with their decisions, the repo lines, the overrides | load in two steps, press a button, settle, leave | `GET` and `PUT`; other users and Tooling change the store meanwhile |
| History page (`web/routes/History.tsx`, `server/item-history-route.ts`) | none | trend lines, the pins of one item | `GET` |
| Theme (`web/theme.ts`, `App.tsx`, `main.tsx`) | the stylesheets loaded, the theme applied, the picker, `localStorage` | boot, switch, reload | the browser's other tabs |
| Dependabot page, filters, shell | the loaded document | load, filter | `GET` |
| Schemas (`contract/validate.ts`) | none | accept or refuse a document | the ingest route |

The server is one Node process with one synchronous SQLite connection: from its first
read to its `COMMIT` a handler is not interleaved with another one. What is concurrent
is everything around it: clients that wait, retry or give up, a process that may stop
between two statements, and a page that starts a request before the previous one has
answered. What makes the system hard:

- the row of a decision, its audit entry and the snapshot it was checked against must
  stay consistent through failures;
- a decision outlives the key it was made under, because a key holds a line number;
- the same verdict is computed in two places, over different selections of rows;
- the pages show what they hope was recorded, before it is;
- a page is fetched once per visit, from several requests, and ages: what is decided on
  it is judged by a store that has moved on;
- a theme switch awaits a stylesheet, and two switches overlap.

`PROJECT.json` lists these as hazards, each at its line.

## 2. The modules

```
Suppression ── DecisionStore ─┬─ StoreTxn            (implements DecisionStore)
 (verdicts)      (the store)  ├─ Soundness ── History   (counts and trends over the store)
     │                        ├─ Dashboard           (a page over the store)
     │                        └─ DecisionStoreProofs ─┬─ HistoryProofs    (over History)
     └────────────────────────────────┘               └─ DashboardProofs  (over Dashboard)

OptimisticDecisions   (one row of a page; its server implements DecisionStore)
Ingest                (how one document of DecisionStore comes about)
DecidedPage           (one page)          Theme   (one page, and the other tabs)
```

Theorems are in modules of their own, named after the one they are about
(`StoreTxnProofs` ...). `DecisionStoreProofs` has those about Suppression too, and
`HistoryProofs` those about Soundness: a module of proofs extends what it needs of the others.

**Suppression** holds `suppressionState`, `effectiveAdvisoryStatus`, `isNewer` and
`needsDecision` as operators. A version is a string of `VersionStrings`; the constant
`ParseVersion` gives the numbers `parseVersion` finds in it, or `Null` where it finds none.
`IsNewer` is the loop of the code: the first position where the two differ decides, a
missing number counts as zero, and a string that is no version is newer than nothing.

**DecisionStore** is the abstract store. `snapshots` is the snapshots table with the
items of each (the index is the id), `decisions` maps a key to its row or `Null`,
`history` is `decision_history`, `clock` the server's `Date`. An accepted
request is one action: `PutDecision` (the validation, the clear or the per-axis merge, the row
and its audit entry) and `Ingest`. Refused requests and no-ops change nothing and are
stuttering steps. `MatchedKey` is `findDecisionForItem`, `LatestItem` is
`latestItemByKey`.

**StoreTxn** is the same store a statement at a time. A request is sent, waits for its
turn in any order, is refused, answered without a write, or opens a transaction
(`BeginPut`, `BeginPost`) that runs `WriteRow`, `InsertEntry`, `InsertSnapshot`, one
`InsertItem` for each row (it stands for the loop over `repos` too), and `CommitTxn`.
`work` is what the open transaction sees, the variables of DecisionStore are what is
committed. `StatementFails` is the `catch` with its `ROLLBACK`, `Crash` may come
between any two steps, `LoseAnswer` drops an answer that was given. The property `Atomic`
is the specification of DecisionStore itself (the refinement mapping is the identity on
the committed tables).

**Ingest** is the join: `ByKey` is `new Map(...)` over a list, with the last duplicate
winning, `Rows` the loop over the inventory, `Orphaned` the 422.

**Soundness** extends DecisionStore with the counts of `computeRepoSummaries`, over all
rows of a snapshot (`RepoSummary`) and over the rows of one repository
(`ScopedSummary`), next to `Listed`, the set the Needs-decision page derives. The
repositories of a snapshot (`RepoNames`) are those of its items and those of its rows in the
table `repos`, which the constant `DependabotRepos` gives for each document: one that is known
by its Dependabot read-back alone has a line of zeros.

**History** extends Soundness with what the History page shows: `RepoSeries` and
`EstateSeries` follow the ids of the last `SeriesLimit` snapshots, `ItemHistory` follows
their dates (a repository has a point, be it of zeros, wherever `RepoNames` has it),
`ChangeLabel` marks the entries where the pin moved. `Ordered` is ORDER BY,
as the one sequence of the selected ids whose dates increase (ids are unique, and so are
dates: ingest is idempotent on `generatedAt`); `Window` the LIMIT on the ids. `Aggregate`
adds up field by field with the fold `SumFunction`. `Numeral`, in which a version is the
digits of one number, serves `HiddenUntilNewer` as a second definition of "newer", independent
of the loop in `IsNewer`.

**OptimisticDecisions** is one row of a page. `override`, `error`, `sequence` are the
entries of the maps in `useOptimisticDecisions`; a member of `calls` is one call of
`apply`, with what it closed over before its `await`. `ConfirmYes` is `apply` up to the
await, `Confirmed` and `Rejected` the code after it. A decision is reduced to the target
that is set, whether the advisories are acknowledged, and whether the author is known:
that is what the two axes and the preview tell apart. `situation` is chosen once: which
axes the row has, what was recorded or is carried over to it, and what the network may
do. `Store == INSTANCE DecisionStore WITH ...` maps the row back: the server's row and
its audit trail, in the order the requests were served, are a behaviour of the store.

**Dashboard** is a visit to the Needs-a-decision or the Per-repo page, over the whole of
DecisionStore. `ServeLatest` and `ServeItems` are the two requests of
`fetchLatestSnapshotItems`, `ServeLines` is `fetchRepos` beside them; `Press` is `apply` up to its
await, `Serve` and `Refuse` the PUT route, `Settle` the rest of `apply`. A PUT fails in three
ways, all of which run the `catch`: it is refused; it is lost before the server acts, or meets a
401 or a 500 (`LoseRequest`); or its answer is lost after the decision was recorded (`LoseAnswer`), and
the row is rolled back although the decision stands. `WorldMoves` is
everybody else: other users (`Elsewhere`), Tooling (`Ingest`), time. Leaving a page
leaves its PUT on its way (`orphans`); so does a broken connection whose request may yet
arrive. `asOf`, `ours`, `seen` and `unheard` are history variables; a key is in `unheard` from the
loss of an answer about it until a later PUT of it is recorded.

**Theme** is `bootTheme`, `setTheme` and the picker. `loading` holds the picks that await
their stylesheet, `landed` those whose handler has not yet resumed: setTheme applies and
persists in one step, the picker follows a microtask later, in the same order. `OtherTab`
writes the shared `localStorage`; `disturbed` is a history variable.

**DecidedPage** is the Decided page with `useAsync`: each member of `loads` is a run of
the effect, `Cancelled` its flag (set when a newer run replaced it), `instance` counts the
mounts of `DecidedTables`, whose set `clearing` starts empty with each. Another user may record a
decision meanwhile (`Decide`).

`PROJECT.json` maps every one of these definitions to its lines.

## 3. The runs

| Run | Question | Bounds, and why they are enough |
|---|---|---|
| `store_writes` | Do the tables stay consistent over any sequence of decisions? `TypeOK`, `AuditChain`, `AxesIndependent`, `RowsCiteSnapshots`, `SilencedWasAcknowledged`, `SiblingIsolation` | 3 keys, two of them places of one dependency and one key that cannot be parsed; 3 documents that move the dependency with and without a time when both are live; 3 accepted writes: a decision, one on the other axis, and a clear or a decision on the sibling. One user: no rule depends on who writes |
| `store_carry` | Is a decision carried only to an item that moved? Violated, see 5 | 1 write, the same documents |
| `txn_handlers` | Is every handler atomic, and are its answers true, through failures? `TxnTypeOK`, `AnswersHold`, `AuditCountsWrites`, `StoredOnce`, `Atomic`, `EveryRequestEnds` | 2 users and the publisher, who posts two documents and a body with an orphaned report row; 3 requests, 2 failures: a request that fails and is repeated while another one waits, and a failure during the repetition |
| `ingest_join` | Is a stored snapshot the join of one body? `SnapshotIsJoin`, `AnswerIsTrue` | every pair of bodies with at most 2 inventory and 2 report entries over 2 keys: duplicates that agree or differ, orphans, and a second body under the same `generatedAt` |
| `soundness_counts` | Do the server's counts, the browser's lists, the trends and the history of an item agree? `LineAgreesWithList`, `ScopeChangesNothing`, `TrendsAddUp`, `PinMovesAreLabelled`, `HiddenUntilNewer`, `SnoozeEnds` | 3 repositories, one with a dependency in two places, so that carry-over and its ambiguity gate occur, and one known by its Dependabot read-back alone, in two of the documents; 3 documents published in any order, a trend of 2 points, so that one drops out of it; the versions "2", "2.0", "2.1" and one that is none; 2 writes, one for each axis; 2 instants, before and after a reminder |
| `optimistic_rows` | Does a row settle on what the server has, and is its server the store? `TypeOK`, `ViewMatchesRecord`, `OneCallPerAxis`, `FailureReported`, `PreviewResolves`, `ServesAsStore` | rows of one axis with 3 lost requests or answers and any order of the network; rows of both axes on a network that does neither (where it does, see 5); undecided, decided before, or with a decision carried over. A further call needs a loss or an answer that brings a button back, so the bound of 6 calls is never reached |
| `optimistic_phantom`, `optimistic_reorder` | Violated, see 5 | 2 calls, one for each axis |
| `decided_table` | Does the table show the effect of every clear? `TypeOK`, `ReflectsClears`, `ButtonComesBack`, `NeverGoesBack`, `LoadingEnds` | 2 rows, 3 clears, so that one row is cleared again after a reload; 1 decision by somebody else, 1 failure |
| `decided_duplicate` | Violated, see 5 | 2 rows, 2 clears |
| `theme_switch` | Do the page, the picker and the next visit end with one theme? `TypeOK`, `OneTheme`, `PageMounts` | 3 bundled themes and one name that is none; 3 picks, so that two overlap and a third comes after; a reload, 2 failures (a fetch and a `setItem`), a write of another tab |
| `dashboard_page` | Is a page true to the store while it ages? `DashboardTypeOK`, `PageIsOneSnapshot`, `PageIsCurrent`, `ButtonsMatchList`, `DecidedAsShown`, `LinesAreShown` | 2 documents, the second with another item, another advisory and a release whose name is no version; 2 visits, so that a PUT outlives its page; 2 accepted writes, of the page or of another user, who skips an update of the item that may move; 2 instants; 1 failure, of a GET, of a PUT on its way or of its answer |

Every property has a mutant: a definition whose name starts with that of the one it
changes, with a comment that says which slip of the code it stands for (an audit entry
read back too late, a rollback that is dropped, a scope that is lost). With the mutant
in the place of the definition, TLC finds the property violated; this is how we know
that the bounds let the case happen.

The runs disable the deadlock check because their counters are bounded: when all
requests of the bound are used up and all are answered, the model stops. What must
not stop is stated as a liveness property.

### Fairness

- `WF(Tick)` (DecisionStore): time passes.
- `SF(Accept(c))` (StoreTxn): the event loop takes each waiting request in its turn. It
  is strong because the process may be busy with another handler, or down, at any of
  the moments it looks; Node's queue is first in, first out, which is more than that.
- `WF(Statement)`, `WF(Deliver(c))`: a synchronous handler runs to its end; an answer
  that was given arrives, or is lost by an explicit failure.
- `WF(Restart)`: `deploy/compose.yaml.example` has `restart: unless-stopped`.
- `WF(Network)`, `WF(Settle)`, `WF(LoadStep)`, `WF(ClearStep)` on the pages: a `fetch`
  resolves or rejects, and its callback runs. There is no timeout in `web/api.ts`:
  a server that accepts a connection and never answers would leave the preview up, and
  this is the assumption that excludes it.

- `WF(LoadItems)`, `WF(LoadLines)` (Dashboard), `WF(BootLoaded \/ BootFails)`,
  `WF(SwitchSettles)` (Theme): the same of the other fetches.
- `WF(Mount)`, `WF(Resumed)` (Theme): a continuation that was queued runs.

Users owe nothing: no user action is fair.

## 4. The proofs

Eight modules hold theorems, proved with TLAPS for any sets of keys, documents, users,
versions and themes and for any number of requests, clears, calls and failures, where the
runs of section 3 have a handful.

| Module | Theorem | Says |
|---|---|---|
| `DecisionStoreProofs` | `NewerIsStrictOrder` | `isNewer` is irreflexive, asymmetric and transitive |
| | `NewerIsTotal` | of two strings `parseVersion` recognises, one is newer or they are equal up to trailing zeros |
| | `TypeCorrect` | every reachable state of the store is well typed; in particular only a version `parseVersion` recognises is ever stored |
| | `AuditChainHolds` | the audit trail can be replayed: each entry starts from what the one before it on the same key left, and the table is what the last ones left |
| | `AxesIndependentHolds` | no accepted `PUT` changes both axes, and no row ever recorded has two targets |
| | `RowsCiteSnapshotsHolds` | every acknowledged advisory and every approved-from pin was published under the row's own key |
| | `SilencedWasAcknowledgedHolds` | an advisory that is silenced was acknowledged, for this item or for one it may be carried over from |
| | `SiblingIsolationHolds` | a write under one key changes what applies to another live item only if that one is alone of its dependency |
| `StoreTxnProofs` | `TxnTypeCorrect` | a transaction is open for a client that waits for it, and for no other |
| | `Implements` | a statement at a time, with failures and crashes, StoreTxn implements DecisionStore |
| | `StoredOnceHolds` | a document is stored once, however often it is posted |
| | `AnswersHoldAlways` | what a 200 said stays true |
| | `AuditCountsWritesHolds` | the trail has an entry for each write a user was told of, and for none that failed |
| | `AuditSurvivesFailures` | the audit trail of StoreTxn can be replayed too |
| `IngestProofs` | `SnapshotIsJoinHolds` | what a body adds is the full join of its two lists, of any length and with any repeated keys |
| | `AnswerIsTrueHolds` | a 200 names a stored snapshot of that `generatedAt`, with that many items |
| `HistoryProofs` | `ScopeChangesNothingHolds` | one repository counted from its own rows, or with all the others: the same line, or none |
| | `LineAgreesWithListHolds` | the counts of the server and the list of the browser agree, and no item drops out of both |
| | `TrendsAddUpHolds` | the trends of the repositories add up to that of the estate, at every snapshot, and a repository has a point exactly where an item of it or a read-back was published |
| | `PinMovesAreLabelledHolds` | between two dates with different pins there are labelled entries that lead from the one to the other |
| | `HiddenUntilNewerHolds` | a skipped or approved update comes back when what is published ranks above it, and only then |
| `DashboardProofs` | `DashboardTypeCorrect` | what a page holds is of the documents and rows of the store |
| | `PageIsOneSnapshotHolds` | the items on a page are those of the snapshot whose date it shows |
| | `PageIsCurrentHolds` | while nobody else decides, every row but one whose last answer was lost shows the decision the server finds for it |
| | `ButtonsMatchListHolds` | a row has buttons exactly when it is listed, and one of them leads to an accepted decision |
| | `DecidedAsShownHolds` | what a user decided on stood on the page |
| `DecidedPageProofs` | `TypeCorrect` | the page reads "loading" exactly while its newest load is out |
| | `ReflectsClearsHolds` | a settled table was read later than every clear that succeeded |
| | `NeverGoesBackHolds` | no overtaken load replaces what is shown |
| | `ButtonComesBackHolds` | a row reads as being cleared only while a clear of this table is out for it |
| `OptimisticDecisionsProofs` | `TypeCorrect` | previews, answers and what a rollback puts back are decisions |
| | `ViewMatchesRecordHolds` | a settled row shows the decision in force: a row of one axis on any network, a row of both axes on one that neither loses nor reorders |
| | `OneCallPerAxisHolds` | a row with the buttons of one axis never has two requests out |
| | `FailureReportedHolds` | if the last call failed, its error is on the row |
| | `ServesAsStoreHolds` | the server behind the row makes steps of DecisionStore |
| `ThemeProofs` | `TypeCorrect` | the page boots with, applies and offers bundled themes only |
| | `OneThemeHolds` | document, picker and next visit end with one theme |

The hypothesis of `ViewMatchesRecordHolds` (`OneAxis \/ Reliable`) is the difference
between what holds and the two findings of section 5: on a row of both axes and a network that
loses or reorders, the property is false, and the two violation runs show how. The run
`optimistic_rows` has the same situations and no others.

Assumptions, all of them evaluated by TLC on every run of the modules that declare them:

- on documents and strings: `ConstantsAssumption` (documents are well typed, keys are
  numbers so that they have an order), `DocumentsAssumption` (a document lists finitely many
  items), `ReposAssumption` (finitely many repositories; a key names one, and keys of the same
  repo, kind and name the same one; a document has read-backs of some of them), `ParseVersionAssumption` (`parseVersion` gives a
  non-empty sequence of naturals or `Null`), `PostsAssumption` (Ingest: a body has two
  lists), `ThemesAssumption` (the default theme is bundled);
- on actors: `ClientsAssumption` (StoreTxn: the publisher is a client and no user),
  `DashboardAssumption` (the user of the page is one of the users), `ParametersAssumption`
  (a situation is of its type: in particular a row that was recorded has an author,
  `Recorded`), and that bounds are numbers;
- on `Null`, which stands for JavaScript's and SQL's and must be none of the values it is
  told from: `NullAssumption`, `RecordsAssumption` (requests, answers and transactions of
  StoreTxn), `SentinelsAssumption` and `StoreSentinelAssumption` (the row of a page and the
  store it is mapped to), `LabelAssumption` (a label of History). They are needed because
  TLA+ leaves it open whether a model value is, say, a record.

### The arguments

*The store.* `TypeOK` is inductive by itself once the rows that `TrioRow` and `AckRow`
build are known to be rows (a lemma each). `AuditChain` is inductive given `TypeOK`: an
accepted write appends one entry for one key, whose `before` is the row the table has,
which by the invariant is what the older entries left; for the other keys the new entry
changes nothing (lemmas on `LeftBy` under `Append`). `AxesIndependent` is not inductive: a
new entry copies the axis it leaves alone from the table, so the table's rows must be known
to have one target; `AxesInv` adds exactly that for every row in `decisions`.
`RowsCiteSnapshots` is inductive given `TypeOK`, because snapshots are only appended and a
row keeps the cited identifiers of the row it replaces or takes new ones from the latest
snapshot.

*Carry-over.* `findDecisionForItem` takes the newest row among the candidates. That there is
a newest one is two applications of `WFMin` (the latest `updatedAt`, then the highest
key), which need `RowsDated`: no row is dated in the future. That it is the only one makes
the `CHOOSE` of `MatchedKey` the same before and after a write elsewhere, and with it
`SiblingIsolation`. `SilencedWasAcknowledged` follows from `AuditChain`: the row found is
what the last entry of its key left.

*Transactions.* `TxnInv` says what `work` is: the committed tables, plus the statements
the open transaction has run so far. `CommitTxn` is then one `PutDecision` or one `Ingest`,
with the guards `BeginPut` and `BeginPost` checked, because no other handler has run since;
every other step leaves the tables alone. `AnswersHold` adds that an answer is given only
after its commit and that snapshots and history only grow; `StoredOnce` that an open
insert is of a document not yet stored. The type invariant bounds `told` and `untold`, which needs `SentInv`: each
client's requests that were told of, were dropped or still wait are at most those sent.
`WaitingInv` ties a client's `phase` to the request, answer and transaction it has.
`AuditCountsWrites` is the induction of the commit, with the cardinality of the entries of one
user one larger for him and the same for the others.

*Ingest.* `ByKey` is a fold over the positions of a list. Its value for a list of any
length is found in two steps: the recursion of the fold has a solution for every bound on
the positions (`SolutionExists`: the least bound without one is refuted), so that the `CHOOSE`
behind it is that solution; and `LastWins` holds of what it has built after each prefix (again
by the least counterexample). `SnapshotIsJoin` is then what `Store` does, and what is
already stored is a prefix of what is stored later.

*Counts.* `ScopeChangesNothing` rests on `RepoOf` being a function of repo, kind and name: the
ambiguity gate of `findDecisionForItem` looks at no row of another repository. `LineAgreesWithList`
is inclusions among finite sets and their cardinalities: what is listed is affected or behind,
what is neither suppressed nor silenced is listed. `TrendsAddUp` needs sums over sets taken in
an unknown order: `SumFunction` is shown to satisfy its recursion, from which any element may
be taken first (`SumsTakes`), a sum of sums is the sum over both, and zeros may be left out.
A repository with an item in a snapshot is among its `RepoNames` (`NamesTracked`), so that those
left out of the sum have nothing but zeros.

*Histories.* `PinMovesAreLabelled` needs that no two snapshots have one date
(`OneSnapshotPerDate`, inductive because ingest refuses the second), so that `Ordered` has
exactly one value and it increases. Of the entries after the first pin the least that differs
from it is labelled with it, of those up to the second pin the least from which on it stays is
labelled with that.

*Versions.* `IsNewer` says that some position exists at which the numbers differ and before
which they agree. Asymmetry and transitivity compare the deciding positions of two such
facts: the smaller of the two decides. Totality needs a least position among those that
differ, which is `WFMin` on the order of naturals. `HiddenUntilNewer` compares with numerals
instead: in a base above all numbers of both versions the first digit that differs decides
(`FirstDigitDecides`), by totality the numerals are equal otherwise, and a row that is found
for an item has one target (`AxesInv`), so that nothing else can hide it.

*Dashboard.* `PageInv`: an id that was answered stays stored, with its items, whatever is
published later; `ButtonsMatchList` follows from it and the rules of the buttons alone. `SeenInv`
extends "was shown" to what is on its way, also from a page that was left, because a PUT names
the version and the advisories itself. `PageIsCurrent` says nothing while a PUT is out; the
strengthening `CurrentInv` does: each row will show (`Settled`), once the answer is in, what the
server finds for it already, unless the answer was lost: a PUT that is recorded takes its row out
of `unheard`, the loss of its answer puts it back, and any other failure restores a row that was right. Its induction needs that a write to a row of the page changes what
is found for no other row of it (`WriteOnPage`): one of the same repo, kind and name would be a
live sibling, which closes the carry-over.

*A row.* On a row of one axis only the last call is ever out, because while it is, the
preview on the row holds the very thing its buttons would set (`OneCallInv`); the last
call of the session is always the current one of its axis, so its failure is never dropped
(`LastInv`). `ViewMatchesRecord` has two invariants. On one axis (`OneViewInv`): a call that is
out will either be answered with the server's row, or roll back to what was in force when it
started. On both axes, in order and without loss (`InOrderInv`): calls are served and answered
in the order they were made, so that the last answer is the last row. `ServedInv` numbers the
served requests without a gap and ties the last to the server's row.

*Other pages.* DecidedPage: only the last load may settle into the page (the others are
cancelled), and each clear that succeeds starts a load, which reads the table later than
the clear wrote it; so the load that is out, or the one on screen, is later than all of
them. Theme: until somebody else writes `localStorage`, what `resolveTheme` would return is the
theme of the document and the last one to land, and the picker's once it has caught up.

### What is only model-checked

The liveness properties (`SnoozeEnds`, `EveryRequestEnds`, `PreviewResolves`, `LoadingEnds`,
`PageMounts`, `LinesAreShown`): fairness and `ENABLED` are beyond the prover. The prover cannot
apply an induction theorem that takes an operator; where a proof above goes by induction over
data it takes the least counterexample of a set instead.

## 5. Where code and words disagree

Each is a run that TLC ends with a counterexample.

- `store_carry` (`decisions.ts:159`). The gate against ambiguity looks at the latest
  snapshot only. Of two live siblings one is decided, then removed; the other inherits
  its skip or its acknowledgement though it never moved and was never reviewed. The
  comment above the gate says that this is what it prevents.
- `optimistic_phantom` (`useOptimisticDecisions.ts:205`). With two actions in flight on the
  two axes, both failing, the second rollback restores the preview of the first: the row
  shows a decision that was never recorded.  The same rollback removes a decision of the
  other axis that was confirmed while the failing call was out.
- `optimistic_reorder` (`useOptimisticDecisions.ts:195`). Two confirmed actions, the
  older answer last: the whole row it carries hides the other axis.  (Before that, the
  first answer may remove the preview of the second call, and its buttons are back while
  it is out.)
- `decided_duplicate` (`Decided.tsx:95`). The reload after one clear remounts the
  table, which forgets that the other row's clear is still out and offers its button again.

Three smaller ones are plain from the code and have no run:

- `App.tsx:74` logs that a failed switch is reverting. When it is `setItem` that throws, the
  theme is already applied: the document keeps it, the picker and the next visit do not.
  `OneTheme` excludes this case by name (`disturbed`).
- `App.tsx:57` says the theme App resolves and the one `main.tsx` booted "agree by
  construction". Another tab may write `localStorage` between the two.
- `Repos.tsx` says a page of two snapshots corrects itself on the next render. `useAsync`
  with no dependencies fetches again only when the page is opened again.

## 6. What is not modelled, and why

- Validation against the schemas, JSON, limits and query parameters, HTTP headers: they
  keep no state; the models start where a body is accepted or refused.
- The verification of tokens: an identity is known or not (`known` in StoreTxn).
- The lag between a state change and the render, and `resetKey` of
  `useOptimisticDecisions`: no page changes it while a row with a call in flight is mounted.
- The filters of the items route and of the pages, `Promise.allSettled` over the series of
  the History page, the Dependabot page and the alerts it shows (which repositories have a read-back is in Soundness),
  the router and its tabs: reads without state.
- A `localStorage` that cannot be read: `bootTheme` reads it outside its `try`, so the page would not be
  mounted. Theme lets `setItem` alone throw.
- On Dashboard, clocks that differ between browser and server, and several PUTs out at a
  time (OptimisticDecisions has those, for one row).
- That the promise of a stylesheet's loader resolves only once the stylesheet is in the
  page is Vite's, and assumed in Theme.
- Layout, badges, artwork, build and release scripts; the reading of the configuration.
- Identities that resolve out of order: a PUT reads the store only after its identity is
  known, so a late one is a late turn, which StoreTxn has. A graceful shutdown: to the store
  it is a stop between two handlers, one of the moments `Crash` may choose.

## 7. Plan

Done: the store, its transactions, ingest, soundness, history, the order of versions, the row, the
Decided page, the two pages over the store, the theme, and the proofs of section 4. Left:

1. Models: Dashboard with several PUTs out, once the two findings on the row are settled in
   the code; the Dependabot page, when it gains actions.
2. Proofs: that the rows Ingest stores are the documents DecisionStore takes (`IsSnapshot`), once
   Ingest has the columns the two share; the invariants and action properties of the runs are done.
