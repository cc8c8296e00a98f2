------------------------------ MODULE Dashboard ------------------------------
(***************************************************************************)
(* One browser's visit to the Needs-a-decision page or the Per-repo page,  *)
(* composed with the store of DecisionStore, which other users and Tooling *)
(* go on changing.                                                         *)
(*                                                                         *)
(* The items come from two requests, one after the other (api.ts,          *)
(* fetchLatestSnapshotItems: which snapshot is the latest, then its        *)
(* items); the Per-repo page's soundness lines from a third, beside them.  *)
(* Nothing is fetched again while the page stays mounted, so what it shows *)
(* ages; a decision is made on what it shows and judged by the server on   *)
(* what is stored when the PUT arrives.                                    *)
(*                                                                         *)
(* The user has one PUT out at a time: OptimisticDecisions is about        *)
(* several on one row.  Like a GET it may fail, before the server acts on  *)
(* it or after, and the page cannot tell which.  The confirm bar in front  *)
(* of each PUT is part of Press, and the clocks of browser and server      *)
(* agree.                                                                  *)
(***************************************************************************)
EXTENDS DecisionStore

CONSTANTS
  Me,           \* the user of this browser; the other Users act elsewhere
  Elsewhere,    \* what they may ask of the server, a set of [key, patch]
  NoOverride,   \* the overrides map has no entry for a key
  MaxVisits,    \* bound: times the page is opened
  MaxFailures   \* bound: GETs and PUTs that fail

(* A row as the server keeps it, or a preview, which has no author yet. *)
Decision ==
  [ skippedVersion : VersionStrings \cup {Null},
    remindAt : Nat \cup {Null},
    approvedVersion : VersionStrings \cup {Null},
    approvedFromPinned : Pins \cup {Null},
    acknowledgedAdvisories : {Null} \cup SUBSET Advisories,
    updatedAt : Nat,
    updatedBy : Users \cup {Null} ]

(* What the buttons of a row may ask; a reminder is set by the hour. *)
PagePatches == VersionPatches \cup [field : {"remindAt"}, value : Nat] \cup AckPatches

(* A PUT of the page: what it asks, what the row showed before it (apply's *)
(* `previous`), and how its fetch ended.                                   *)
Request ==
  [ key : Keys, patch : PagePatches, previous : Decision \cup {NoOverride},
    reply : Row \cup {Null}, phase : {"sent", "done", "failed"} ]

ASSUME DashboardAssumption ==
  /\ Me \in Users
  /\ MaxVisits \in Nat /\ MaxFailures \in Nat
  /\ NoOverride # Null /\ NoOverride \notin Row
  /\ Null \notin Request
  /\ Elsewhere \subseteq
       [key : Keys, patch : VersionPatches \cup RemindPatches \cup AckPatches \cup {ClearPatch}]

VARIABLES
  visit,      \* how many times the page was opened
  fetching,   \* fetchLatestSnapshotItems: what it awaits, or how it ended
  pageId,     \* snapshot.snapshotId
  pageItems,  \* items, of which each key's decision is in pageDecision
  pageDecision,
  asOf,       \* history: the length of the audit trail when the items were served
  overrides,  \* useOptimisticDecisions: [Keys -> a decision or NoOverride]
  ours,       \* history: writes of this visit since
  request,    \* the PUT of this visit, or Null
  unheard,    \* history: the keys whose latest recorded PUT of this visit got no answer
  orphans,    \* PUTs nobody waits for any more, on their way; two alike are one
  lines,      \* fetchRepos: "loading", "error", or the snapshot it summed up
  seen,       \* history: what the user was shown, a set of <<key, item>>
  failures

pageVars == <<visit, fetching, pageId, pageItems, pageDecision, asOf, overrides, ours,
              request, unheard, orphans, lines, seen, failures>>
dashboardVars == <<vars, pageVars>>

Phases == {"latest", "items", "ready", "empty", "error"}

-----------------------------------------------------------------------------
(* The page. *)

Mounted == fetching = "ready"

(* effectiveItems: the decision a row shows. *)
ShownDecision(key) ==
  IF overrides[key] = NoOverride THEN pageDecision[key] ELSE overrides[key]

(* Mutant: any decision at all takes the buttons away. *)
GapButtons_Undecided(item, decision) == item.gap \in ActionableGaps /\ decision = Null

(* DecisionActions, the gap axis: showGapButtons. *)
GapButtons(item, decision) ==
  /\ item.gap \in ActionableGaps
  /\ SuppressionState(item, decision, clock) # "suppressed"

(* DecisionActions, the advisory axis: showAcknowledgeButton. *)
AcknowledgeButton(item, decision) == EffectiveAdvisoryStatus(item, decision) = "affected"

(* The PUTs that the buttons of a row lead to.  A reminder is an instant   *)
(* ahead; Acknowledge takes every advisory of the item, as displayed.      *)
RemindOffers(item, decision) ==
  {[field |-> "remindAt", value |-> at] :
     at \in IF GapButtons(item, decision) THEN {clock + 1} ELSE {}}

VersionOffers(item, decision) ==
  {[field |-> field, value |-> item.latest] :
     field \in IF GapButtons(item, decision) /\ item.latest # Null
               THEN {"skippedVersion", "approvedVersion"} ELSE {}}

AckOffers(item, decision) ==
  {[field |-> "acknowledgedAdvisories", value |-> ids] :
     ids \in IF AcknowledgeButton(item, decision)
             THEN {{a.id : a \in item.advisories}} ELSE {}}

(* optimisticDecision, on the row as it is shown. *)
Preview(key, patch) ==
  LET current == ShownDecision(key)
      trio == IF current = Null THEN NoTrio ELSE current
      target(field) == IF patch.field = field THEN patch.value ELSE Null
      isTrio == patch.field # "acknowledgedAdvisories"
  IN  [ skippedVersion |-> IF isTrio THEN target("skippedVersion") ELSE trio.skippedVersion,
        remindAt |-> IF isTrio THEN target("remindAt") ELSE trio.remindAt,
        approvedVersion |-> IF isTrio THEN target("approvedVersion") ELSE trio.approvedVersion,
        approvedFromPinned |->
          IF ~isTrio THEN trio.approvedFromPinned
          ELSE IF patch.field = "approvedVersion" THEN pageItems[key].pinned ELSE Null,
        acknowledgedAdvisories |-> IF isTrio THEN AckOf(current) ELSE patch.value,
        updatedAt |-> clock,
        updatedBy |-> Null ]

-----------------------------------------------------------------------------
(* Opening the page: useAsync, on every mount. *)

Blank ==
  /\ pageId' = 0
  /\ pageItems' = <<>>
  /\ pageDecision' = <<>>
  /\ asOf' = 0
  /\ overrides' = [k \in Keys |-> NoOverride]
  /\ ours' = 0
  /\ request' = Null
  /\ unheard' = {}

(* The page left cancels its GETs; a PUT goes on. *)
Open ==
  /\ visit < MaxVisits
  /\ visit' = visit + 1
  /\ fetching' = "latest"
  /\ lines' = "loading"
  /\ Blank
  /\ orphans' = IF request = Null \/ request.phase # "sent" THEN orphans
                ELSE orphans \cup {[key |-> request.key, patch |-> request.patch]}
  /\ UNCHANGED <<vars, seen, failures>>

(* GET /api/snapshots?limit=1: the newest by id. *)
ServeLatest ==
  /\ fetching = "latest"
  /\ pageId' = Len(snapshots)
  /\ fetching' = IF snapshots = <<>> THEN "empty" ELSE "items"
  /\ UNCHANGED <<vars, visit, pageItems, pageDecision, asOf, overrides, ours, request, unheard,
                 orphans, lines, seen, failures>>

(* Mutant: the second request asks for the latest items, whatever the id.  *)
ServeItems_OfLatest ==
  LET items == LatestItems
  IN  /\ fetching = "items"
      /\ fetching' = "ready"
      /\ pageItems' = items
      /\ pageDecision' = [k \in DOMAIN items |-> DecisionFor(k, items)]
      /\ asOf' = Len(history)
      /\ seen' = seen \cup {<<k, items[k]>> : k \in DOMAIN items}
      /\ UNCHANGED <<vars, visit, pageId, overrides, ours, request, unheard, orphans, lines,
                   failures>>

(* GET /api/snapshots/:id/items, with the decision found for each item. *)
ServeItems ==
  LET items == snapshots[pageId].items
  IN  /\ fetching = "items"
      /\ fetching' = "ready"
      /\ pageItems' = items
      /\ pageDecision' = [k \in DOMAIN items |-> DecisionFor(k, items)]
      /\ asOf' = Len(history)
      /\ seen' = seen \cup {<<k, items[k]>> : k \in DOMAIN items}
      /\ UNCHANGED <<vars, visit, pageId, overrides, ours, request, unheard, orphans, lines,
                   failures>>

(* GET /api/repos: the lines of whatever snapshot is the latest by then. *)
ServeLines ==
  /\ lines = "loading"
  /\ visit > 0
  /\ lines' = "ready"
  /\ UNCHANGED <<vars, visit, fetching, pageId, pageItems, pageDecision, asOf, overrides, ours,
                 request, unheard, orphans, seen, failures>>

(* Mutant: Promise.all of the two, and one failure fails the page. *)
ItemsFail_Together ==
  /\ fetching \in {"latest", "items"}
  /\ failures < MaxFailures
  /\ failures' = failures + 1
  /\ fetching' = "error"
  /\ lines' = "error"
  /\ UNCHANGED <<vars, visit, pageId, pageItems, pageDecision, asOf, overrides, ours, request,
                 unheard, orphans, seen>>

ItemsFail ==
  /\ fetching \in {"latest", "items"}
  /\ failures < MaxFailures
  /\ failures' = failures + 1
  /\ fetching' = "error"
  /\ UNCHANGED <<vars, visit, pageId, pageItems, pageDecision, asOf, overrides, ours, request,
                 unheard, orphans, lines, seen>>

LinesFail ==
  /\ lines = "loading"
  /\ visit > 0
  /\ failures < MaxFailures
  /\ failures' = failures + 1
  /\ lines' = "error"
  /\ UNCHANGED <<vars, visit, fetching, pageId, pageItems, pageDecision, asOf, overrides, ours,
                 request, unheard, orphans, seen>>

(* What Repos renders: the repo list needs the lines, not the items. *)
Content ==
  IF lines = "loading" \/ fetching \in {"latest", "items"} THEN "loading"
  ELSE IF lines = "error" THEN "alert"
  ELSE "list"

-----------------------------------------------------------------------------
(* Deciding: apply(), and the PUT it sends. *)

Sent(key, patch) ==
  [key |-> key, patch |-> patch, previous |-> overrides[key], reply |-> Null, phase |-> "sent"]

(* Mutant: the page names the key, and the server fills in its own latest. *)
Press_ByKey(key, patch) ==
  /\ request = Null
  /\ LET now == LatestItem(key)
         filled == IF patch.field = "acknowledgedAdvisories" /\ now # Null
                   THEN [patch EXCEPT !.value = {a.id : a \in now.advisories}]
                   ELSE IF patch.field \in {"skippedVersion", "approvedVersion"} /\ now # Null
                   THEN [patch EXCEPT !.value = now.latest]
                   ELSE patch
     IN  request' = Sent(key, filled)
  /\ overrides' = [overrides EXCEPT ![key] = Preview(key, patch)]
  /\ UNCHANGED <<vars, visit, fetching, pageId, pageItems, pageDecision, asOf, ours, unheard,
                 orphans, lines, seen, failures>>

Press(key, patch) ==
  /\ request = Null
  /\ request' = Sent(key, patch)
  /\ overrides' = [overrides EXCEPT ![key] = Preview(key, patch)]
  /\ UNCHANGED <<vars, visit, fetching, pageId, pageItems, pageDecision, asOf, ours, unheard,
                 orphans, lines, seen, failures>>

(* PUT /api/decisions/:key is served: the answer is the row now in force. *)
Serve ==
  /\ request # Null /\ request.phase = "sent"
  /\ PutDecision(request.key, request.patch, Me)
  /\ request' = [request EXCEPT !.phase = "done", !.reply = decisions'[request.key]]
  /\ ours' = ours + 1
  /\ unheard' = unheard \ {request.key}
  /\ UNCHANGED <<visit, fetching, pageId, pageItems, pageDecision, asOf, overrides, orphans,
                 lines, seen, failures>>

(* ... or refused: the advisories are no longer the item's, the version is *)
(* none, the reminder came too late.                                       *)
Refuse ==
  /\ request # Null /\ request.phase = "sent"
  /\ ~Valid(request.key, request.patch)
  /\ request' = [request EXCEPT !.phase = "failed"]
  /\ UNCHANGED <<vars, visit, fetching, pageId, pageItems, pageDecision, asOf, overrides, ours,
                 unheard, orphans, lines, seen, failures>>

(* ... or the fetch fails before the server acted on it: a 401, a 500, the *)
(* network.  When the connection broke the PUT may yet arrive, or never.   *)
LoseRequest ==
  /\ request # Null /\ request.phase = "sent"
  /\ failures < MaxFailures
  /\ failures' = failures + 1
  /\ request' = [request EXCEPT !.phase = "failed"]
  /\ orphans' = orphans \cup {[key |-> request.key, patch |-> request.patch]}
  /\ UNCHANGED <<vars, visit, fetching, pageId, pageItems, pageDecision, asOf, overrides, ours,
                 unheard, lines, seen>>

(* ... or after the row was recorded: to the page it is the same failure. *)
LoseAnswer ==
  /\ request # Null /\ request.phase = "done"
  /\ failures < MaxFailures
  /\ failures' = failures + 1
  /\ request' = [request EXCEPT !.phase = "failed", !.reply = Null]
  /\ unheard' = unheard \cup {request.key}
  /\ UNCHANGED <<vars, visit, fetching, pageId, pageItems, pageDecision, asOf, overrides, ours,
                 orphans, lines, seen>>

(* Mutant: a failure, too, is taken for a decision. *)
Settle_Unchecked ==
  /\ request # Null /\ request.phase \in {"done", "failed"}
  /\ overrides' = [overrides EXCEPT ![request.key] = request.reply]
  /\ request' = Null
  /\ UNCHANGED <<vars, visit, fetching, pageId, pageItems, pageDecision, asOf, ours, unheard,
                 orphans, lines, seen, failures>>

(* Mutant: the answer is taken for what a clear answers, no decision. *)
Settle_Forgets ==
  /\ request # Null /\ request.phase \in {"done", "failed"}
  /\ overrides' = [overrides EXCEPT ![request.key] =
                     IF request.phase = "done" THEN NoOverride ELSE request.previous]
  /\ request' = Null
  /\ UNCHANGED <<vars, visit, fetching, pageId, pageItems, pageDecision, asOf, ours, unheard,
                 orphans, lines, seen, failures>>

(* Mutant: a failure is reported and the preview left in place. *)
Settle_NoRollback ==
  /\ request # Null /\ request.phase \in {"done", "failed"}
  /\ overrides' = [overrides EXCEPT ![request.key] =
                     IF request.phase = "done" THEN request.reply ELSE @]
  /\ request' = Null
  /\ UNCHANGED <<vars, visit, fetching, pageId, pageItems, pageDecision, asOf, ours, unheard,
                 orphans, lines, seen, failures>>

(* The rest of apply(): confirmed, or, whatever the failure, rolled back. *)
Settle ==
  /\ request # Null /\ request.phase \in {"done", "failed"}
  /\ overrides' = [overrides EXCEPT ![request.key] =
                     IF request.phase = "done" THEN request.reply ELSE request.previous]
  /\ request' = Null
  /\ UNCHANGED <<vars, visit, fetching, pageId, pageItems, pageDecision, asOf, ours, unheard,
                 orphans, lines, seen, failures>>

(* A PUT of a page since left, or of a broken connection, arrives: nobody  *)
(* waits for the answer.  One that is lost never arrives.                  *)
ServeOrphan(put) ==
  /\ orphans' = orphans \ {put}
  /\ \/ PutDecision(put.key, put.patch, Me)
     \/ ~Valid(put.key, put.patch) /\ UNCHANGED vars
  /\ UNCHANGED <<visit, fetching, pageId, pageItems, pageDecision, asOf, overrides, ours,
                 request, unheard, lines, seen, failures>>

-----------------------------------------------------------------------------
(* The others: users elsewhere, Tooling, time. *)

OthersPut ==
  \E put \in Elsewhere, by \in Users \ {Me} : PutDecision(put.key, put.patch, by)

WorldMoves ==
  /\ OthersPut \/ Tick \/ \E doc \in Docs : Ingest(doc)
  /\ UNCHANGED pageVars

DashboardInit ==
  /\ Init
  /\ visit = 0 /\ fetching = "latest" /\ lines = "loading"
  /\ pageId = 0 /\ pageItems = <<>> /\ pageDecision = <<>>
  /\ asOf = 0 /\ ours = 0
  /\ overrides = [k \in Keys |-> NoOverride]
  /\ request = Null /\ unheard = {} /\ orphans = {}
  /\ seen = {} /\ failures = 0

Decide ==
  /\ Mounted
  /\ \E key \in DOMAIN pageItems :
       LET item == pageItems[key]
           decision == ShownDecision(key)
       IN  \/ \E patch \in RemindOffers(item, decision) : Press(key, patch)
           \/ \E patch \in VersionOffers(item, decision) : Press(key, patch)
           \/ \E patch \in AckOffers(item, decision) : Press(key, patch)

LoadItems == visit > 0 /\ (ServeLatest \/ ServeItems \/ ItemsFail)
LoadLines == ServeLines \/ LinesFail

DashboardNext ==
  \/ Open
  \/ LoadItems
  \/ LoadLines
  \/ Decide
  \/ Serve
  \/ Refuse
  \/ LoseRequest
  \/ LoseAnswer
  \/ Settle
  \/ \E put \in orphans : ServeOrphan(put)
  \/ WorldMoves

DashboardSpec == DashboardInit /\ [][DashboardNext]_dashboardVars

(* A GET is answered or fails.  Nobody has to open a page or to decide,    *)
(* and the store's bound on writes may keep a PUT waiting.                 *)
DashboardFairSpec ==
  /\ DashboardSpec
  /\ WF_dashboardVars(LoadItems)
  /\ WF_dashboardVars(LoadLines)

-----------------------------------------------------------------------------
(* Properties. *)

DashboardTypeOK ==
  /\ visit \in 0..MaxVisits /\ failures \in 0..MaxFailures
  /\ fetching \in Phases /\ lines \in {"loading", "ready", "error"}
  /\ pageId \in Nat
  /\ DOMAIN pageItems \subseteq Keys /\ DOMAIN pageDecision = DOMAIN pageItems
  /\ asOf \in 0..MaxHistory /\ ours \in 0..MaxHistory
  /\ overrides \in [Keys -> Decision \cup {NoOverride}]
  /\ request \in Request \cup {Null}
  /\ unheard \subseteq Keys

(* However many snapshots are published between the two requests: the      *)
(* items on the page are all those of the snapshot the page says they are  *)
(* of (the one the hook's resetKey names).                                 *)
PageIsOneSnapshot ==
  Mounted =>
    /\ pageId \in 1..Len(snapshots)
    /\ pageItems = snapshots[pageId].items

(* Nobody else wrote since the items were served, nor did a PUT given up   *)
(* arrive: every write since is one this page was waiting for.             *)
NobodyElseWrote == Len(history) = asOf + ours

(* A decision on the page leaves no row behind the server but its own, and *)
(* that one only while its answer is lost: while nobody else decides, and  *)
(* no PUT is out, each other row shows the very decision the server finds  *)
(* for it -- those decided, confirmed or rolled back (also over a decision *)
(* carried over to them), and all the rest, none of which a decision made  *)
(* here may reach.  A row whose answer was lost is current again from its  *)
(* next answer on.  Snapshots published meanwhile make no difference.      *)
PageIsCurrent ==
  (Mounted /\ NobodyElseWrote /\ request = Null) =>
    \A key \in DOMAIN pageItems \ unheard :
      ShownDecision(key) = DecisionFor(key, pageItems)

(* "this component can never disagree with what actually still needs a     *)
(* decision" (DecisionActions.tsx): a row has buttons exactly when the     *)
(* Needs-a-decision page lists it, and then, unless a newer snapshot       *)
(* arrived, one of them leads to a decision the server accepts.            *)
ButtonsMatchList ==
  Mounted =>
    \A key \in DOMAIN pageItems :
      LET item == pageItems[key]
          decision == ShownDecision(key)
          offers == RemindOffers(item, decision) \cup VersionOffers(item, decision)
                      \cup AckOffers(item, decision)
      IN  /\ NeedsDecision(item, decision, clock) <=> offers # {}
          /\ (offers # {} /\ pageId = Len(snapshots)) => \E patch \in offers : Valid(key, patch)

(* Nobody decides on what was not shown to him, however old the page: each *)
(* advisory a user of the page acknowledged, and each version he skipped   *)
(* or approved, stood on the page under that key.                          *)
DecidedAsShown ==
  \A i \in 1..Len(history) :
    LET e == history[i]
        shown == {s \in seen : s[1] = e.key}
    IN  (e.by = Me /\ e.after # Null) =>
          /\ AckOf(e.after) = AckOf(e.before)
             \/ \E s \in shown : AckOf(e.after) = {a.id : a \in s[2].advisories}
          /\ TrioOf(e.after) = TrioOf(e.before)
             \/ e.after.remindAt # Null
             \/ \E s \in shown : s[2].latest \in {e.after.skippedVersion, e.after.approvedVersion}

(* "Each fetch now degrades independently" (Repos.tsx): once the lines are *)
(* in, the page comes to show the list, whatever becomes of the items      *)
(* (unless it is left before).                                             *)
LinesAreShown ==
  \A v \in 1..MaxVisits :
    (visit = v /\ lines = "ready") ~> (Content = "list" \/ visit # v)
=============================================================================
