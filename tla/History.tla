------------------------------- MODULE History -------------------------------
(***************************************************************************)
(* What the History page shows of the store (History.tsx, with the routes  *)
(* behind it): the trend lines of the estate and of each repo, and the     *)
(* pins of one item from snapshot to snapshot.                             *)
(*                                                                         *)
(* The trends follow the ids of the snapshots, the order of publication;   *)
(* an item's history follows their dates.  Tooling may publish documents   *)
(* in another order than it made them, and the two then differ.            *)
(***************************************************************************)
EXTENDS Soundness, SequencesExt

CONSTANT SeriesLimit   \* SERIES_LIMIT: snapshots in a trend line

ASSUME HistoryAssumption == SeriesLimit \in Nat \ {0}

(* Null is no label. *)
ASSUME LabelAssumption == \A from, to \in Pins : Null # <<from, to>>

-----------------------------------------------------------------------------
(* The trends. *)

(* ORDER BY: the ids from the earliest to the latest of their dates. *)
Ordered(ids, date) ==
  CHOOSE entries \in [1..Cardinality(ids) -> ids] :
    \A i, j \in DOMAIN entries : i < j => date[entries[i]] < date[entries[j]]

Id == [id \in Snapshots |-> id]

(* SELECT id FROM snapshots ORDER BY id DESC LIMIT ?, oldest first. *)
Window == {id \in Snapshots : Len(snapshots) - id < SeriesLimit}

(* Mutant: the limit counts the points of the repo, not the snapshots. *)
RepoSeries_LimitsPoints(repo) ==
  LET all == {id \in Snapshots : repo \in RepoNames(id, {repo})}
      ids == Ordered({id \in all : Cardinality({l \in all : l > id}) < SeriesLimit}, Id)
  IN  [i \in DOMAIN ids |->
         [snapshotId |-> ids[i], soundness |-> ScopedSummary(ids[i], repo)]]

(* GET /api/repos/:repo/soundness: a snapshot without the repo is left out *)
(* ("a zeroed point would misleadingly read as 'perfectly sound then'").   *)
RepoSeries(repo) ==
  LET ids == Ordered({id \in Window : repo \in RepoNames(id, {repo})}, Id)
  IN  [i \in DOMAIN ids |->
         [snapshotId |-> ids[i], soundness |-> ScopedSummary(ids[i], repo)]]

(* aggregateSoundness: field by field, over the repos of a snapshot. *)
Aggregate(id) ==
  LET repos == RepoNames(id, Repos)
      line == [r \in repos |-> RepoSummary(id, r)]
  IN  [ items |-> SumFunction([r \in repos |-> line[r].items]),
        affected |-> SumFunction([r \in repos |-> line[r].affected]),
        behind |-> [g \in ActionableGaps |-> SumFunction([r \in repos |-> line[r].behind[g]])],
        decided |-> SumFunction([r \in repos |-> line[r].decided]),
        unknown |-> SumFunction([r \in repos |-> line[r].unknown]) ]

(* GET /api/snapshots, turned oldest first by the page. *)
EstateSeries ==
  LET ids == Ordered(Window, Id)
  IN  [i \in DOMAIN ids |-> [snapshotId |-> ids[i], soundness |-> Aggregate(ids[i])]]

(* What a sparkline plots. *)
Trend(series) == [i \in DOMAIN series |-> Behind(series[i].soundness)]

-----------------------------------------------------------------------------
(* One item. *)

Listing(key) == {id \in Snapshots : key \in DOMAIN Items(id)}

(* Mutant: the entries come in the order they were published. *)
ItemHistory_ById(key) == Ordered(Listing(key), Id)

(* GET /api/items/:key/history, as the ids of the snapshots of its entries, *)
(* which come ORDER BY generatedAt.                                         *)
ItemHistory(key) ==
  Ordered(Listing(key), [id \in Snapshots |-> snapshots[id].generatedAt])

(* changeLabel: the two pins, where they differ from one entry to the next. *)
ChangeLabel(key, i) ==
  LET entries == ItemHistory(key)
      pin(j) == Items(entries[j])[key].pinned
  IN  IF i = 1 THEN Null
      ELSE IF pin(i - 1) = pin(i) THEN Null
      ELSE <<pin(i - 1), pin(i)>>

-----------------------------------------------------------------------------
(* Properties. *)

Points(series, id) == {i \in DOMAIN series : series[i].snapshotId = id}

(* What a line shows at a snapshot: nothing, where it has no point. *)
ValueAt(series, id) == SumFunction([i \in Points(series, id) |-> Trend(series)[i]])

(* An item of the repo, or only its Dependabot read-back, was published. *)
Tracked(id, repo) ==
  \/ \E k \in DOMAIN Items(id) : RepoOf[k] = repo
  \/ repo \in DependabotRepos[snapshots[id]]

AddUp(estate, series) ==
  /\ \A i \in DOMAIN estate :
       LET id == estate[i].snapshotId
       IN  /\ Trend(estate)[i] = SumFunction([r \in Repos |-> ValueAt(series[r], id)])
           /\ \A r \in Repos :
                Cardinality(Points(series[r], id)) = IF Tracked(id, r) THEN 1 ELSE 0
  /\ \A r \in Repos : \A j \in DOMAIN series[r] :
       \E i \in DOMAIN estate : estate[i].snapshotId = series[r][j].snapshotId

(* "the page and the API can never disagree about the counts": at every    *)
(* snapshot the estate's trend shows the sum of the repos' trends, and a   *)
(* repo has a point exactly where it was tracked, by an item or only by    *)
(* its Dependabot read-back; a dropped or an invented one would shift a    *)
(* line of the page against the others.                                    *)
TrendsAddUp == AddUp(EstateSeries, [r \in Repos |-> RepoSeries(r)])

(* "which snapshot the pin moved in": however late a document was          *)
(* published, of two documents with different pins of an item the earlier  *)
(* by date is followed, up to the later, by an entry that is labelled, and *)
(* the labels between them lead from the one pin to the other.             *)
PinMovesAreLabelled ==
  \A key \in Keys :
    LET entries == ItemHistory(key)
        date(i) == snapshots[entries[i]].generatedAt
        pin(i) == Items(entries[i])[key].pinned
    IN  \A a, b \in DOMAIN entries :
          (date(a) < date(b) /\ pin(a) # pin(b)) =>
            \E i, j \in DOMAIN entries :
              /\ date(a) < date(i) /\ date(i) <= date(j) /\ date(j) <= date(b)
              /\ ChangeLabel(key, i) # Null /\ ChangeLabel(key, i)[1] = pin(a)
              /\ ChangeLabel(key, j) # Null /\ ChangeLabel(key, j)[2] = pin(b)

(* The first numbers of a version, the missing ones zero, as the digits of *)
(* one number.                                                             *)
Numeral(version, places, base) ==
  LET digit(i) == IF i \in DOMAIN ParseVersion[version] THEN ParseVersion[version][i] ELSE 0
      value[i \in 0..places] == IF i = 0 THEN 0 ELSE value[i-1] * base + digit(i)
  IN  value[places]

RanksAbove(v, w) ==
  LET places == Max({Len(ParseVersion[v]), Len(ParseVersion[w])})
      base == 1 + Max(Range(ParseVersion[v]) \cup Range(ParseVersion[w]))
  IN  Numeral(v, places, base) > Numeral(w, places, base)

(* The version an item is hidden up to: the skipped one, or the approved   *)
(* one while the pin stands.                                               *)
HiddenUpTo(item, decision) ==
  IF TrioOf(decision).skippedVersion # Null THEN decision.skippedVersion
  ELSE IF TrioOf(decision).approvedFromPinned = item.pinned THEN decision.approvedVersion
  ELSE Null

(* "never un-suppress on a guess": a skipped update, or an approved one    *)
(* whose pin stands, comes back when a version published since ranks above *)
(* it, and not when the same one is spelled otherwise ("2", "2.0") or what *)
(* is published cannot be read as a version.                               *)
HiddenUntilNewer ==
  \A id \in Snapshots : \A key \in DOMAIN Items(id) :
    LET item == Items(id)[key]
        decision == DecisionFor(key, Items(id))
        target == HiddenUpTo(item, decision)
    IN  target # Null =>
          (SuppressionState(item, decision, clock) = "active"
             <=> item.latest \in Version /\ RanksAbove(item.latest, target))
=============================================================================
