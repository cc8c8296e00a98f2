--------------------------- MODULE DashboardProofs ---------------------------
(***************************************************************************)
(* Theorems about Dashboard: what one page shows and asks for, beside      *)
(* other users, for every set of keys, users and published documents.      *)
(***************************************************************************)
EXTENDS Dashboard, DecisionStoreProofs

USE DashboardAssumption

-----------------------------------------------------------------------------
(* The store under the page: a decision of somebody, or a step of Tooling  *)
(* or of the clock.                                                        *)

PagePut(put) == put.key \in Keys /\ put.patch \in PagePatches

RequestType ==
  request # Null =>
    /\ Mounted
    /\ request \in Request /\ PagePut(request)
    /\ request.key \in DOMAIN pageItems
    /\ request.phase = "done" => request.reply \in Row

(* Until its items are in, a page has nothing of its own. *)
UnmountedIsBlank ==
  ~Mounted => /\ request = Null /\ ours = 0
              /\ pageItems = <<>> /\ pageDecision = <<>>
              /\ overrides = [k \in Keys |-> NoOverride]

(* The id that was answered stays the id of a stored snapshot, so that the *)
(* second request finds it, and what it found stays its contents.          *)
PageInv ==
  /\ fetching \in {"items", "ready"} => pageId \in 1..Len(snapshots)
  /\ Mounted => pageItems = snapshots[pageId].items

DashboardTypes ==
  /\ TypeOK /\ RowsDated /\ Len(history) \in 0..MaxHistory
  /\ visit \in 0..MaxVisits /\ failures \in 0..MaxFailures
  /\ fetching \in Phases /\ lines \in {"loading", "ready", "error"}
  /\ pageId \in Nat
  /\ DOMAIN pageItems \subseteq Keys /\ pageItems \in [DOMAIN pageItems -> Item]
  /\ pageDecision \in [DOMAIN pageItems -> Row \cup {Null}]
  /\ asOf \in Nat /\ ours \in Nat /\ asOf + ours <= Len(history)
  /\ overrides \in [Keys -> Decision \cup {NoOverride}]
  /\ unheard \subseteq Keys
  /\ \A put \in orphans : PagePut(put)

PageTypes == DashboardTypes /\ RequestType /\ UnmountedIsBlank /\ PageInv

(* Whoever it is of, a PUT or a step of Tooling or the clock is all that   *)
(* the store sees.                                                         *)
StoreStep ==
  \/ UNCHANGED vars
  \/ \E key \in Keys, patch \in AnyPatches, by \in Users : PutDecision(key, patch, by)
  \/ Tick
  \/ \E doc \in Docs : Ingest(doc)

LEMMA ServeStep ==
  ASSUME RequestType, Serve
  PROVE  /\ request.key \in Keys /\ request.patch \in PagePatches
         /\ PutDecision(request.key, request.patch, Me)
BY DEF RequestType, Serve, PagePut

LEMMA OthersStep ==
  ASSUME OthersPut
  PROVE  \E key \in Keys, patch \in AnyPatches, by \in Users \ {Me} :
           PutDecision(key, patch, by)
<1>1. PICK put \in Elsewhere, by \in Users \ {Me} : PutDecision(put.key, put.patch, by)
  BY DEF OthersPut
<1>2. RemindPatches \subseteq Reminders
  BY DEF RemindPatches, Reminders
<1>3. put.key \in Keys /\ put.patch \in AnyPatches
  BY <1>2 DEF AnyPatches
<1>. QED
  BY <1>1, <1>3

LEMMA EveryStepOfStore ==
  ASSUME DashboardTypes, RequestType, DashboardNext
  PROVE  StoreStep
<1>1. CASE \/ Open \/ LoadItems \/ LoadLines \/ Decide
           \/ Refuse \/ LoseRequest \/ LoseAnswer \/ Settle
  BY <1>1 DEF Open, LoadItems, ServeLatest, ServeItems, ItemsFail, LoadLines, ServeLines,
              LinesFail, Decide, Press, Refuse, LoseRequest, LoseAnswer, Settle, StoreStep
<1>2. CASE Serve
  BY <1>2, ServeStep DEF StoreStep, PagePatches, Reminders, AnyPatches
<1>3. ASSUME NEW put \in orphans, ServeOrphan(put) PROVE StoreStep
  BY <1>3 DEF ServeOrphan, StoreStep, DashboardTypes, PagePut, PagePatches, Reminders, AnyPatches
<1>4. CASE WorldMoves
  BY <1>4, OthersStep DEF WorldMoves, StoreStep
<1>. QED
  BY <1>1, <1>2, <1>3, <1>4 DEF DashboardNext

LEMMA StoreKept ==
  ASSUME TypeOK, RowsDated, Len(history) \in 0..MaxHistory, StoreStep
  PROVE  /\ TypeOK' /\ RowsDated' /\ Len(history') \in 0..MaxHistory
         /\ Len(snapshots') >= Len(snapshots)
         /\ \A i \in 1..Len(snapshots) : snapshots'[i] = snapshots[i]
         /\ Len(history') >= Len(history)
<1>1. ASSUME NEW key \in Keys, NEW patch \in AnyPatches, NEW by \in Users,
             PutDecision(key, patch, by)
      PROVE  /\ TypeOK' /\ RowsDated' /\ snapshots' = snapshots
             /\ Len(history') = Len(history) + 1 /\ Len(history') <= MaxHistory
  <2>1. /\ Commit(key, NextRow(key, patch, by), by)
        /\ NextRow(key, patch, by) \in Row \cup {Null}
    BY <1>1, PatchCommits
  <2>2. TypeOK'
    BY <2>1, CommitType
  <2>3. RowsDated'
    BY <1>1, PutKeepsDates
  <2>4. Len(history') = Len(history) + 1
    BY <2>1, CommitAppends
  <2>. QED
    BY <2>1, <2>2, <2>3, <2>4, ConstantsAssumption DEF Commit, TypeOK
<1>2. CASE \E doc \in Docs : Ingest(doc)
  <2>1. TypeOK' /\ RowsDated'
    BY <1>2, TypeKept, RowsDatedKept DEF Next
  <2>. QED
    BY <1>2, <2>1 DEF Ingest, TypeOK
<1>3. CASE Tick
  <2>1. TypeOK' /\ RowsDated'
    BY <1>3, TypeKept, RowsDatedKept DEF Next
  <2>. QED
    BY <1>3, <2>1 DEF Tick, TypeOK
<1>4. CASE UNCHANGED vars
  <2>1. TypeOK' /\ RowsDated'
    BY <1>4, TypeKept, RowsDatedKept
  <2>. QED
    BY <1>4, <2>1 DEF vars, TypeOK
<1>5. Len(snapshots) \in Nat /\ Len(history) \in Nat
  BY DEF TypeOK
<1>. QED
  BY <1>1, <1>2, <1>3, <1>4, <1>5 DEF StoreStep

-----------------------------------------------------------------------------
(* The page. *)

LEMMA ItemsTypes ==
  ASSUME TypeOK, NEW i \in 1..Len(snapshots), NEW items, items = snapshots[i].items
  PROVE  DOMAIN items \subseteq Keys /\ items \in [DOMAIN items -> Item]
<1>1. IsSnapshot(snapshots[i])
  BY ConstantsAssumption DEF TypeOK
<1>. QED
  BY <1>1, ConstantsAssumption DEF IsSnapshot

LEMMA FoundType ==
  ASSUME TypeOK, RowsDated, NEW key \in Keys, NEW items
  PROVE  DecisionFor(key, items) \in Row \cup {Null}
<1>1. PICK k : k = MatchedKey(key, items)
  OBVIOUS
<1>2. k # Null => k \in Keys
  BY <1>1, MatchedKeyTypes
<1>. QED
  BY <1>1, <1>2 DEF DecisionFor, TypeOK

LEMMA ShownType ==
  ASSUME DashboardTypes, NEW key \in DOMAIN pageItems
  PROVE  /\ ShownDecision(key) \in Decision \cup {Null}
         /\ pageItems[key] \in Item
<1>1. Row \subseteq Decision
  BY DEF Row, Decision, Version
<1>. QED
  BY <1>1 DEF DashboardTypes, ShownDecision

LEMMA PreviewType ==
  ASSUME DashboardTypes, NEW key \in DOMAIN pageItems, NEW patch \in PagePatches
  PROVE  Preview(key, patch) \in Decision
<1>1. PICK current : current = ShownDecision(key)
  OBVIOUS
<1>2. current \in Decision \cup {Null} /\ pageItems[key].pinned \in Pins
  BY <1>1, ShownType DEF Item
<1>3. clock \in Nat
  BY DEF DashboardTypes, TypeOK
<1>4. PICK kept : kept = IF current = Null THEN NoTrio ELSE current
  OBVIOUS
<1>5. /\ kept.skippedVersion \in VersionStrings \cup {Null}
      /\ kept.remindAt \in Nat \cup {Null}
      /\ kept.approvedVersion \in VersionStrings \cup {Null}
      /\ kept.approvedFromPinned \in Pins \cup {Null}
  BY <1>2, <1>4 DEF Decision, NoTrio
<1>6. AckOf(current) \in {Null} \cup SUBSET Advisories
  BY <1>2 DEF AckOf, Decision
<1>7. CASE patch \in AckPatches
  BY <1>1, <1>3, <1>4, <1>5, <1>7 DEF Preview, AckPatches, Decision
<1>8. CASE patch \in VersionPatches
  BY <1>1, <1>2, <1>3, <1>6, <1>8 DEF Preview, VersionPatches, Decision
<1>9. CASE patch \in Reminders
  BY <1>1, <1>2, <1>3, <1>6, <1>9 DEF Preview, Reminders, Decision
<1>. QED
  BY <1>7, <1>8, <1>9 DEF PagePatches, Reminders

(* What a button asks is about its row as it was displayed. *)
Offered(key, patch) ==
  \/ patch.field = "remindAt"
  \/ /\ patch.field \in {"skippedVersion", "approvedVersion"}
     /\ patch.value = pageItems[key].latest
  \/ /\ patch.field = "acknowledgedAdvisories"
     /\ patch.value = {a.id : a \in pageItems[key].advisories}

LEMMA DecideCases ==
  ASSUME DashboardTypes, Decide
  PROVE  /\ Mounted
         /\ \E key \in DOMAIN pageItems, patch \in PagePatches :
              Offered(key, patch) /\ Press(key, patch)
<1>0. PICK key \in DOMAIN pageItems : \E patch :
        /\ Press(key, patch)
        /\ \/ patch \in RemindOffers(pageItems[key], ShownDecision(key))
           \/ patch \in VersionOffers(pageItems[key], ShownDecision(key))
           \/ patch \in AckOffers(pageItems[key], ShownDecision(key))
  BY DEF Decide
<1>1. PICK patch :
        /\ Press(key, patch)
        /\ \/ patch \in RemindOffers(pageItems[key], ShownDecision(key))
           \/ patch \in VersionOffers(pageItems[key], ShownDecision(key))
           \/ patch \in AckOffers(pageItems[key], ShownDecision(key))
  BY <1>0
<1>2. pageItems[key] \in Item
  BY ShownType
<1>3. CASE patch \in RemindOffers(pageItems[key], ShownDecision(key))
  <2>1. patch = [field |-> "remindAt", value |-> clock + 1]
    BY <1>3 DEF RemindOffers
  <2>2. clock + 1 \in Nat
    BY DEF DashboardTypes, TypeOK
  <2>3. patch \in PagePatches /\ patch.field = "remindAt"
    BY <2>1, <2>2 DEF PagePatches
  <2>. QED
    BY <1>1, <2>3 DEF Decide, Offered
<1>4. CASE patch \in VersionOffers(pageItems[key], ShownDecision(key))
  <2>1. /\ pageItems[key].latest # Null
        /\ \E field \in {"skippedVersion", "approvedVersion"} :
             patch = [field |-> field, value |-> pageItems[key].latest]
    BY <1>4 DEF VersionOffers
  <2>. QED
    BY <1>1, <1>2, <2>1 DEF Decide, Item, PagePatches, Reminders, VersionPatches, Offered
<1>5. CASE patch \in AckOffers(pageItems[key], ShownDecision(key))
  <2>1. patch = [ field |-> "acknowledgedAdvisories",
                  value |-> {a.id : a \in pageItems[key].advisories} ]
    BY <1>5 DEF AckOffers
  <2>2. {a.id : a \in pageItems[key].advisories} \subseteq Advisories
    BY <1>2 DEF Item
  <2>. QED
    BY <1>1, <2>1, <2>2 DEF Decide, PagePatches, Reminders, AckPatches, Offered
<1>. QED
  BY <1>1, <1>3, <1>4, <1>5 DEF Decide

(* What a press and what its answer make of the page. *)
LEMMA PressTypes ==
  ASSUME DashboardTypes, RequestType, NEW key \in DOMAIN pageItems, NEW patch \in PagePatches,
         Press(key, patch), Mounted
  PROVE  /\ overrides' \in [Keys -> Decision \cup {NoOverride}]
         /\ RequestType'
<1>1. key \in Keys /\ overrides[key] \in Decision \cup {NoOverride}
  BY DEF DashboardTypes
<1>2. Preview(key, patch) \in Decision
  BY PreviewType
<1>3. overrides' \in [Keys -> Decision \cup {NoOverride}]
  BY <1>1, <1>2 DEF DashboardTypes, Press
<1>4. Sent(key, patch) \in Request
  BY <1>1 DEF Sent, Request
<1>5. request' = Sent(key, patch) /\ UNCHANGED <<fetching, pageItems>>
  BY DEF Press
<1>6. RequestType'
  BY <1>1, <1>4, <1>5 DEF Sent, RequestType, PagePut, Mounted
<1>. QED
  BY <1>3, <1>6

LEMMA ServeTypes ==
  ASSUME DashboardTypes, RequestType, Serve
  PROVE  /\ RequestType'
         /\ Len(history') = Len(history) + 1
         /\ decisions'[request.key] \in Row
<1>1. /\ request.key \in Keys /\ request.patch \in PagePatches
      /\ PutDecision(request.key, request.patch, Me)
  BY ServeStep
<1>2. request.patch \in AnyPatches /\ request.patch # ClearPatch
  BY <1>1 DEF PagePatches, AnyPatches, VersionPatches, Reminders, AckPatches, ClearPatch
<1>3. PICK row : row = NextRow(request.key, request.patch, Me)
  OBVIOUS
<1>4. row \in Row /\ Commit(request.key, row, Me)
  BY <1>1, <1>2, <1>3, PatchCommits, DashboardAssumption DEF DashboardTypes
<1>5. Len(history') = Len(history) + 1 /\ decisions'[request.key] = row
  BY <1>1, <1>4, CommitAppends, DashboardAssumption DEF DashboardTypes
<1>6. /\ request' = [request EXCEPT !.phase = "done", !.reply = row]
      /\ request # Null /\ UNCHANGED <<fetching, pageItems>>
  BY <1>5 DEF Serve
<1>7. request \in Request /\ request.key \in DOMAIN pageItems /\ Mounted
  BY <1>6 DEF RequestType
<1>8. /\ request' \in Request /\ request'.reply = row
      /\ request'.key = request.key /\ request'.patch = request.patch
  BY <1>4, <1>6, <1>7 DEF Request
<1>9. RequestType'
  BY <1>1, <1>4, <1>6, <1>7, <1>8 DEF RequestType, PagePut, Mounted
<1>. QED
  BY <1>4, <1>5, <1>9

LEMMA PageTypesKept == PageTypes /\ [DashboardNext]_dashboardVars => PageTypes'
<1>. SUFFICES ASSUME PageTypes, [DashboardNext]_dashboardVars PROVE PageTypes'
  OBVIOUS
<1>. USE DEF PageTypes
<1>1. CASE UNCHANGED dashboardVars
  BY <1>1 DEF dashboardVars, pageVars, vars, DashboardTypes, TypeOK, RowsDated, RequestType,
              UnmountedIsBlank, PageInv, Mounted, PagePut
<1>2. ASSUME DashboardNext
      PROVE  /\ TypeOK' /\ RowsDated' /\ Len(history') \in 0..MaxHistory
             /\ Len(snapshots') \in Nat /\ Len(snapshots') >= Len(snapshots)
             /\ \A i \in 1..Len(snapshots) : snapshots'[i] = snapshots[i]
             /\ Len(history') >= Len(history)
             /\ Len(snapshots) \in Nat /\ Len(history) \in Nat /\ Len(history') \in Nat
  <2>1. StoreStep
    BY <1>2, EveryStepOfStore
  <2>2. /\ TypeOK' /\ RowsDated' /\ Len(history') \in 0..MaxHistory
        /\ Len(snapshots') >= Len(snapshots)
        /\ \A i \in 1..Len(snapshots) : snapshots'[i] = snapshots[i]
        /\ Len(history') >= Len(history)
    BY <2>1, StoreKept DEF DashboardTypes
  <2>. QED
    BY <2>2 DEF DashboardTypes, TypeOK
<1>3. CASE Open
  <2>1. DashboardTypes'
    BY <1>2, <1>3, DashboardAssumption
       DEF DashboardNext, Open, Blank, DashboardTypes, Phases, RequestType, PagePut
  <2>2. RequestType' /\ UnmountedIsBlank' /\ PageInv'
    BY <1>3 DEF Open, Blank, RequestType, UnmountedIsBlank, PageInv, Mounted
  <2>. QED
    BY <2>1, <2>2
<1>4. CASE visit > 0 /\ ServeLatest
  <2>1. snapshots # <<>> => Len(snapshots) \in 1..Len(snapshots)
    BY DEF DashboardTypes, TypeOK
  <2>2. DashboardTypes'
    BY <1>2, <1>4 DEF DashboardNext, LoadItems, ServeLatest, DashboardTypes, Phases, vars, PagePut
  <2>3. RequestType' /\ UnmountedIsBlank' /\ PageInv'
    BY <1>4, <2>1 DEF ServeLatest, RequestType, UnmountedIsBlank, PageInv, Mounted, vars
  <2>. QED
    BY <2>2, <2>3
<1>5. CASE visit > 0 /\ ServeItems
  <2>1. PICK items : items = snapshots[pageId].items
    OBVIOUS
  <2>2. /\ fetching = "items" /\ fetching' = "ready"
        /\ pageItems' = items
        /\ pageDecision' = [k \in DOMAIN items |-> DecisionFor(k, items)]
        /\ asOf' = Len(history)
        /\ UNCHANGED <<vars, visit, pageId, overrides, ours, request, unheard, orphans, lines,
                       failures>>
    BY <1>5, <2>1 DEF ServeItems
  <2>3. pageId \in 1..Len(snapshots) /\ request = Null /\ ours = 0
    BY <2>2 DEF PageInv, UnmountedIsBlank, Mounted
  <2>4. DOMAIN items \subseteq Keys /\ items \in [DOMAIN items -> Item]
    BY <2>1, <2>3, ItemsTypes DEF DashboardTypes
  <2>5. pageDecision' \in [DOMAIN items -> Row \cup {Null}]
    BY <2>2, <2>4, FoundType DEF DashboardTypes
  <2>6. DashboardTypes'
    <3>1. TypeOK' /\ RowsDated' /\ Len(history') \in 0..MaxHistory /\ Len(history) \in Nat
      BY <1>2, <1>5 DEF DashboardNext, LoadItems
    <3>. QED
      BY <2>2, <2>3, <2>4, <2>5, <3>1 DEF DashboardTypes, Phases, vars, PagePut
  <2>7. RequestType' /\ UnmountedIsBlank' /\ PageInv'
    BY <2>1, <2>2, <2>3 DEF RequestType, UnmountedIsBlank, PageInv, Mounted, vars
  <2>. QED
    BY <2>6, <2>7
<1>6. CASE (visit > 0 /\ ItemsFail) \/ LoadLines
  <2>1. DashboardTypes'
    BY <1>2, <1>6 DEF DashboardNext, LoadItems, LoadLines, ItemsFail, ServeLines, LinesFail,
                      DashboardTypes, Phases, vars, PagePut
  <2>2. RequestType' /\ UnmountedIsBlank' /\ PageInv'
    BY <1>6 DEF LoadLines, ItemsFail, ServeLines, LinesFail, RequestType, UnmountedIsBlank,
                PageInv, Mounted, vars, PagePut
  <2>. QED
    BY <2>1, <2>2
<1>7. CASE Decide
  <2>1. Mounted
    BY <1>7, DecideCases
  <2>2. PICK key \in DOMAIN pageItems : \E patch \in PagePatches : Press(key, patch)
    BY <1>7, DecideCases
  <2>3. PICK patch \in PagePatches : Press(key, patch)
    BY <2>2
  <2>4. overrides' \in [Keys -> Decision \cup {NoOverride}] /\ RequestType'
    BY <2>1, <2>3, PressTypes
  <2>5. UNCHANGED <<vars, visit, fetching, pageId, pageItems, pageDecision, asOf, ours, unheard,
                    orphans, lines, failures>>
    BY <2>3 DEF Press
  <2>6. DashboardTypes'
    <3>1. TypeOK' /\ RowsDated'
      BY <1>2, <1>7 DEF DashboardNext
    <3>. QED
      BY <2>4, <2>5, <3>1 DEF DashboardTypes, vars, PagePut
  <2>7. UnmountedIsBlank' /\ PageInv'
    BY <2>1, <2>5 DEF UnmountedIsBlank, PageInv, Mounted, vars
  <2>. QED
    BY <2>4, <2>6, <2>7
<1>8. CASE Serve
  <2>1. RequestType' /\ Len(history') = Len(history) + 1
    BY <1>8, ServeTypes
  <2>2. /\ ours' = ours + 1 /\ unheard' \subseteq unheard
        /\ UNCHANGED <<visit, fetching, pageId, pageItems, pageDecision, asOf, overrides, orphans,
                       lines, failures>>
    BY <1>8 DEF Serve
  <2>3. Mounted
    BY <1>8 DEF Serve, RequestType
  <2>4. DashboardTypes'
    <3>1. asOf' + ours' <= Len(history') /\ ours' \in Nat
      BY <2>1, <2>2 DEF DashboardTypes
    <3>. QED
      BY <1>2, <1>8, <2>2, <3>1 DEF DashboardNext, DashboardTypes, PagePut
  <2>5. UnmountedIsBlank' /\ PageInv'
    <3>1. UNCHANGED snapshots
      BY <1>8 DEF Serve, PutDecision, Commit
    <3>. QED
      BY <2>2, <2>3, <3>1 DEF UnmountedIsBlank, PageInv, Mounted
  <2>. QED
    BY <2>1, <2>4, <2>5
<1>9. CASE Refuse \/ LoseRequest \/ LoseAnswer
  <2>1. /\ request \in Request /\ PagePut(request) /\ request.key \in DOMAIN pageItems
        /\ Mounted /\ request # Null
        /\ UNCHANGED <<vars, visit, fetching, pageId, pageItems, pageDecision, asOf, overrides,
                       ours, lines>>
    BY <1>9 DEF Refuse, LoseRequest, LoseAnswer, RequestType
  <2>2. /\ request' \in Request /\ request'.phase = "failed"
        /\ request'.key = request.key /\ request'.patch = request.patch
    BY <1>9, <2>1 DEF Refuse, LoseRequest, LoseAnswer, Request
  <2>3. failures' \in 0..MaxFailures /\ unheard' \subseteq Keys
    BY <1>9, <2>1, DashboardAssumption
       DEF Refuse, LoseRequest, LoseAnswer, DashboardTypes, PagePut
  <2>4. \A put \in orphans' : PagePut(put)
    BY <1>9, <2>1 DEF Refuse, LoseRequest, LoseAnswer, DashboardTypes, PagePut
  <2>5. DashboardTypes'
    <3>1. TypeOK' /\ RowsDated'
      BY <1>2, <1>9 DEF DashboardNext
    <3>. QED
      BY <2>1, <2>3, <2>4, <3>1 DEF DashboardTypes, vars, PagePut
  <2>6. RequestType'
    BY <2>1, <2>2 DEF RequestType, PagePut, Mounted
  <2>7. UnmountedIsBlank' /\ PageInv'
    BY <2>1 DEF UnmountedIsBlank, PageInv, Mounted, vars
  <2>. QED
    BY <2>5, <2>6, <2>7
<1>10. CASE Settle
  <2>1. overrides' \in [Keys -> Decision \cup {NoOverride}]
    <3>1. Row \subseteq Decision
      BY DEF Row, Decision, Version
    <3>2. (IF request.phase = "done" THEN request.reply ELSE request.previous)
            \in Decision \cup {NoOverride}
      BY <1>10, <3>1 DEF Settle, RequestType, Request
    <3>. QED
      BY <1>10, <3>2 DEF Settle, DashboardTypes
  <2>2. Mounted /\ request' = Null
    BY <1>10 DEF Settle, RequestType
  <2>3. DashboardTypes'
    BY <1>2, <1>10, <2>1 DEF DashboardNext, Settle, DashboardTypes, vars, PagePut
  <2>4. RequestType' /\ UnmountedIsBlank' /\ PageInv'
    BY <1>10, <2>2 DEF Settle, RequestType, UnmountedIsBlank, PageInv, Mounted, vars
  <2>. QED
    BY <2>3, <2>4
<1>11. CASE (\E put \in orphans : ServeOrphan(put)) \/ WorldMoves
  <2>1. /\ orphans' \subseteq orphans
        /\ UNCHANGED <<visit, fetching, pageId, pageItems, pageDecision, asOf, overrides, ours,
                       request, unheard, lines, failures>>
    BY <1>11 DEF ServeOrphan, WorldMoves, pageVars
  <2>2. DashboardTypes'
    <3>1. /\ TypeOK' /\ RowsDated' /\ Len(history') \in 0..MaxHistory
          /\ Len(history') >= Len(history) /\ Len(history) \in Nat /\ Len(history') \in Nat
      BY <1>2, <1>11 DEF DashboardNext
    <3>. QED
      BY <2>1, <3>1 DEF DashboardTypes, PagePut
  <2>3. RequestType' /\ UnmountedIsBlank'
    BY <2>1 DEF RequestType, UnmountedIsBlank, Mounted, PagePut
  <2>4. PageInv'
    <3>1. /\ 1..Len(snapshots) \subseteq 1..Len(snapshots')
          /\ \A i \in 1..Len(snapshots) : snapshots'[i] = snapshots[i]
      BY <1>2, <1>11 DEF DashboardNext
    <3>. QED
      BY <2>1, <3>1 DEF PageInv, Mounted
  <2>. QED
    BY <2>2, <2>3, <2>4
<1>. QED
  BY <1>1, <1>3, <1>4, <1>5, <1>6, <1>7, <1>8, <1>9, <1>10, <1>11 DEF DashboardNext, LoadItems

LEMMA PageTypesHold == DashboardSpec => []PageTypes
<1>1. DashboardInit => PageTypes
  <2>. SUFFICES ASSUME DashboardInit PROVE PageTypes
    OBVIOUS
  <2>1. TypeOK /\ RowsDated /\ Len(history) \in 0..MaxHistory
    BY ConstantsAssumption DEF DashboardInit, Init, TypeOK, RowsDated
  <2>2. DOMAIN pageItems = {} /\ DOMAIN pageDecision = {}
    BY DEF DashboardInit
  <2>3. /\ pageItems \in [DOMAIN pageItems -> Item]
        /\ pageDecision \in [DOMAIN pageItems -> Row \cup {Null}]
    BY <2>2 DEF DashboardInit
  <2>4. DashboardTypes
    BY <2>1, <2>2, <2>3, DashboardAssumption DEF DashboardInit, Init, DashboardTypes, Phases
  <2>. QED
    BY <2>4 DEF DashboardInit, PageTypes, RequestType, UnmountedIsBlank, PageInv, Mounted
<1>. QED
  BY <1>1, PageTypesKept, PTL DEF DashboardSpec

(* The state of a page is of its types whatever the others do meanwhile;   *)
(* in particular what a row shows is always a decision, also between a     *)
(* press and its answer (useOptimisticDecisions, optimisticDecision).      *)
THEOREM DashboardTypeCorrect == DashboardSpec => []DashboardTypeOK
<1>1. PageTypes => DashboardTypeOK
  <2>. SUFFICES ASSUME DashboardTypes, RequestType PROVE DashboardTypeOK
    BY DEF PageTypes
  <2>1. asOf \in 0..MaxHistory /\ ours \in 0..MaxHistory
    BY ConstantsAssumption DEF DashboardTypes
  <2>2. DOMAIN pageDecision = DOMAIN pageItems
    BY DEF DashboardTypes
  <2>. QED
    BY <2>1, <2>2 DEF DashboardTypes, RequestType, DashboardTypeOK
<1>. QED
  BY <1>1, PageTypesHold, PTL

(* However many snapshots are published between the two requests of        *)
(* fetchLatestSnapshotItems, and however many pages, users and documents   *)
(* there are: the items on the page are those of the snapshot it names.    *)
THEOREM PageIsOneSnapshotHolds == DashboardSpec => []PageIsOneSnapshot
<1>1. PageTypes => PageIsOneSnapshot
  BY DEF PageTypes, PageInv, PageIsOneSnapshot, Mounted
<1>. QED
  BY <1>1, PageTypesHold, PTL
-----------------------------------------------------------------------------
(* Buttons and list. *)

(* The promise of DecisionActions.tsx, of every page that may be open: a   *)
(* row has buttons exactly when the Needs-a-decision page lists it, and    *)
(* while no newer snapshot is out one of them leads to a PUT the server    *)
(* accepts.  Only the identity of the page's items with the latest ones,   *)
(* which PageInv gives, is needed beyond the two rules themselves.         *)
THEOREM ButtonsMatchListHolds == DashboardSpec => []ButtonsMatchList
<1>1. PageTypes => ButtonsMatchList
  <2>. SUFFICES ASSUME PageTypes, Mounted, NEW key \in DOMAIN pageItems,
                       NEW item, item = pageItems[key],
                       NEW decision, decision = ShownDecision(key),
                       NEW offers,
                       offers = RemindOffers(item, decision) \cup VersionOffers(item, decision)
                                  \cup AckOffers(item, decision)
                PROVE  /\ NeedsDecision(item, decision, clock) <=> offers # {}
                       /\ (offers # {} /\ pageId = Len(snapshots)) =>
                            \E patch \in offers : Valid(key, patch)
    BY DEF ButtonsMatchList
  <2>. DEFINE remind == [field |-> "remindAt", value |-> clock + 1]
              ack == [ field |-> "acknowledgedAdvisories",
                       value |-> {a.id : a \in item.advisories} ]
  <2>1. GapButtons(item, decision) => remind \in offers
    BY DEF RemindOffers
  <2>2. AcknowledgeButton(item, decision) => ack \in offers
    BY DEF AckOffers
  <2>3. offers # {} => GapButtons(item, decision) \/ AcknowledgeButton(item, decision)
    BY DEF RemindOffers, VersionOffers, AckOffers
  <2>4. NeedsDecision(item, decision, clock) <=>
          GapButtons(item, decision) \/ AcknowledgeButton(item, decision)
    BY DEF NeedsDecision, GapButtons, AcknowledgeButton
  <2>5. ASSUME pageId = Len(snapshots)
        PROVE  Valid(key, remind) /\ Valid(key, ack)
    <3>1. snapshots # <<>> /\ pageItems = snapshots[Len(snapshots)].items
      BY <2>5 DEF PageTypes, PageInv, Mounted, DashboardTypes, TypeOK
    <3>2. LatestItem(key) = item
      BY <3>1 DEF LatestItem
    <3>3. item \in Item /\ item # Null
      BY ShownType, NullAssumption DEF PageTypes
    <3>4. clock + 1 > clock
      BY DEF PageTypes, DashboardTypes, TypeOK
    <3>5. KnownAdvisories(key) = {a.id : a \in item.advisories}
      BY <3>2, <3>3 DEF KnownAdvisories
    <3>. QED
      BY <3>2, <3>3, <3>4, <3>5 DEF Valid, HasIdentity
  <2>. QED
    BY <2>1, <2>2, <2>3, <2>4, <2>5
<1>. QED
  BY <1>1, PageTypesHold, PTL

-----------------------------------------------------------------------------
(* What is decided was shown. *)

SeenFor(put) ==
  \/ put.patch.field = "remindAt"
  \/ \E s \in seen :
       /\ s[1] = put.key
       /\ \/ /\ put.patch.field \in {"skippedVersion", "approvedVersion"}
             /\ put.patch.value = s[2].latest
          \/ /\ put.patch.field = "acknowledgedAdvisories"
             /\ put.patch.value = {a.id : a \in s[2].advisories}

(* The rows of the page were shown, and so was what any PUT on its way     *)
(* says, one given up too.                                                 *)
SeenInv ==
  /\ Mounted => \A key \in DOMAIN pageItems : <<key, pageItems[key]>> \in seen
  /\ request # Null => SeenFor(request)
  /\ \A put \in orphans : SeenFor(put)

LEMMA SeenKept == PageTypes /\ SeenInv /\ [DashboardNext]_dashboardVars => SeenInv'
<1>. SUFFICES ASSUME PageTypes, SeenInv, [DashboardNext]_dashboardVars PROVE SeenInv'
  OBVIOUS
<1>1. CASE UNCHANGED dashboardVars
  BY <1>1 DEF dashboardVars, pageVars, SeenInv, SeenFor, Mounted
<1>2. CASE Open
  <2>1. seen' = seen /\ request' = Null /\ ~Mounted'
    BY <1>2 DEF Open, Blank, Mounted
  <2>2. ASSUME NEW put \in orphans' PROVE SeenFor(put)'
    <3>1. CASE put \in orphans
      BY <2>1, <3>1 DEF SeenInv, SeenFor
    <3>2. CASE put \notin orphans
      <4>1. request # Null /\ put = [key |-> request.key, patch |-> request.patch]
        BY <1>2, <2>2, <3>2 DEF Open
      <4>. QED
        BY <2>1, <4>1 DEF SeenInv, SeenFor
    <3>. QED
      BY <3>1, <3>2
  <2>. QED
    BY <2>1, <2>2 DEF SeenInv
<1>3. CASE visit > 0 /\ ServeItems
  <2>1. /\ seen \subseteq seen' /\ request = Null /\ UNCHANGED <<request, orphans>>
        /\ \A key \in DOMAIN pageItems' : <<key, pageItems'[key]>> \in seen'
    BY <1>3 DEF ServeItems, PageTypes, UnmountedIsBlank, Mounted
  <2>2. ASSUME NEW put, SeenFor(put) PROVE SeenFor(put)'
    BY <2>1, <2>2 DEF SeenFor
  <2>. QED
    BY <2>1, <2>2 DEF SeenInv
<1>4. CASE Decide
  <2>1. Mounted
    BY <1>4, DecideCases DEF PageTypes
  <2>2. PICK key \in DOMAIN pageItems : \E patch \in PagePatches :
               Offered(key, patch) /\ Press(key, patch)
    BY <1>4, DecideCases DEF PageTypes
  <2>3. PICK patch \in PagePatches : Offered(key, patch) /\ Press(key, patch)
    BY <2>2
  <2>4. request' = Sent(key, patch) /\ UNCHANGED <<seen, orphans, fetching, pageItems>>
    BY <2>3 DEF Press
  <2>5. <<key, pageItems[key]>> \in seen
    BY <2>1 DEF SeenInv
  <2>6. SeenFor(request)'
    BY <2>3, <2>4, <2>5 DEF Offered, Sent, SeenFor
  <2>. QED
    BY <2>4, <2>6 DEF SeenInv, SeenFor, Mounted
<1>5. CASE Serve \/ Refuse \/ LoseRequest \/ LoseAnswer
  <2>1. /\ request # Null /\ request'.key = request.key /\ request'.patch = request.patch
        /\ UNCHANGED <<seen, fetching, pageItems>>
    BY <1>5 DEF Serve, Refuse, LoseRequest, LoseAnswer, PageTypes, RequestType, Request
  <2>2. orphans' \subseteq orphans \cup {[key |-> request.key, patch |-> request.patch]}
    BY <1>5 DEF Serve, Refuse, LoseRequest, LoseAnswer
  <2>3. SeenFor([key |-> request.key, patch |-> request.patch])
    BY <2>1 DEF SeenInv, SeenFor
  <2>4. \A put \in orphans' : SeenFor(put)
    BY <2>2, <2>3 DEF SeenInv
  <2>. QED
    BY <2>1, <2>4 DEF SeenInv, SeenFor, Mounted
<1>6. CASE Settle
  BY <1>6 DEF Settle, SeenInv, SeenFor, Mounted
<1>7. CASE (visit > 0 /\ (ServeLatest \/ ItemsFail)) \/ LoadLines
  BY <1>7 DEF ServeLatest, ItemsFail, LoadLines, ServeLines, LinesFail, SeenInv, SeenFor, Mounted
<1>8. CASE (\E put \in orphans : ServeOrphan(put)) \/ WorldMoves
  <2>1. orphans' \subseteq orphans /\ UNCHANGED <<seen, request, fetching, pageItems>>
    BY <1>8 DEF ServeOrphan, WorldMoves, pageVars
  <2>. QED
    BY <2>1 DEF SeenInv, SeenFor, Mounted
<1>. QED
  BY <1>1, <1>2, <1>3, <1>4, <1>5, <1>6, <1>7, <1>8 DEF DashboardNext, LoadItems

(* What DecidedAsShown says of one entry of the trail. *)
EntryAsShown(e, shown) ==
  (e.by = Me /\ e.after # Null) =>
    /\ AckOf(e.after) = AckOf(e.before)
       \/ \E s \in shown : s[1] = e.key /\ AckOf(e.after) = {a.id : a \in s[2].advisories}
    /\ TrioOf(e.after) = TrioOf(e.before)
       \/ e.after.remindAt # Null
       \/ \E s \in shown :
            s[1] = e.key /\ s[2].latest \in {e.after.skippedVersion, e.after.approvedVersion}

LEMMA DecidedEntries ==
  DecidedAsShown <=> \A i \in 1..Len(history) : EntryAsShown(history[i], seen)
BY DEF DecidedAsShown, EntryAsShown

LEMMA PutAsShown ==
  ASSUME TypeOK, NEW put, PagePut(put), SeenFor(put), PutDecision(put.key, put.patch, Me)
  PROVE  /\ history' = Append(history, history'[Len(history) + 1])
         /\ EntryAsShown(history'[Len(history) + 1], seen)
<1>. DEFINE row == NextRow(put.key, put.patch, Me)
            e == Entry(put.key, row, Me)
<1>1. put.key \in Keys /\ put.patch \in PagePatches /\ put.patch \in AnyPatches
  BY DEF PagePut, PagePatches, Reminders, AnyPatches
<1>2. put.patch # ClearPatch
  BY <1>1 DEF PagePatches, VersionPatches, Reminders, AckPatches, ClearPatch
<1>3. row \in Row /\ Commit(put.key, row, Me)
  BY <1>1, <1>2, PatchCommits, DashboardAssumption
<1>4. row # Null
  BY <1>3, NullAssumption
<1>5. history' = Append(history, e) /\ history'[Len(history) + 1] = e
  BY <1>1, <1>3, CommitAppends, DashboardAssumption DEF Commit
<1>6. /\ e.key = put.key /\ e.after = row /\ e.before = decisions[put.key]
  BY DEF Entry
<1>7. CASE put.patch \in AckPatches
  <2>1. row = AckRow(put.key, put.patch, Me) /\ put.patch.field = "acknowledgedAdvisories"
    BY <1>7 DEF NextRow, AckPatches
  <2>2. TrioOf(row) = TrioOf(decisions[put.key]) /\ AckOf(row) = put.patch.value
    BY <1>4, <2>1 DEF TrioOf, AckOf, AckRow, NoTrio
  <2>3. EntryAsShown(e, seen)
    BY <1>6, <2>1, <2>2 DEF EntryAsShown, SeenFor
  <2>. QED
    BY <1>5, <2>3
<1>8. CASE put.patch \in VersionPatches \cup Reminders
  <2>1. /\ row = TrioRow(put.key, put.patch, Me)
        /\ put.patch.field \in {"skippedVersion", "remindAt", "approvedVersion"}
        /\ put.patch.field = "remindAt" => put.patch.value # Null
    BY <1>8, NullAssumption DEF NextRow, VersionPatches, Reminders
  <2>2. AckOf(row) = AckOf(decisions[put.key])
    BY <1>4, <2>1 DEF AckOf, TrioRow, Acknowledged
  <2>3. CASE put.patch.field = "remindAt"
    <3>1. row.remindAt # Null
      BY <2>1, <2>3 DEF TrioRow
    <3>. QED
      BY <1>5, <1>6, <2>2, <3>1 DEF EntryAsShown
  <2>4. CASE put.patch.field \in {"skippedVersion", "approvedVersion"}
    <3>1. put.patch.value \in {row.skippedVersion, row.approvedVersion}
      BY <2>1, <2>4 DEF TrioRow
    <3>2. \E s \in seen : s[1] = put.key /\ put.patch.value = s[2].latest
      BY <2>4 DEF SeenFor
    <3>. QED
      BY <1>5, <1>6, <2>2, <3>1, <3>2 DEF EntryAsShown
  <2>. QED
    BY <2>1, <2>3, <2>4
<1>. QED
  BY <1>1, <1>7, <1>8 DEF PagePatches, Reminders

(* Nobody decides on what was not shown to him, however old his page, also *)
(* after he left it: the PUTs name versions and advisories themselves, and *)
(* leave nothing for the server to fill in from a snapshot of its own.     *)
THEOREM DecidedAsShownHolds == DashboardSpec => []DecidedAsShown
<1>1. DashboardInit => SeenInv /\ DecidedAsShown
  BY DEF DashboardInit, Init, SeenInv, DecidedAsShown, Mounted
<1>2. PageTypes /\ SeenInv /\ DecidedAsShown /\ [DashboardNext]_dashboardVars => DecidedAsShown'
  <2>. SUFFICES ASSUME PageTypes, SeenInv, DecidedAsShown, [DashboardNext]_dashboardVars
                PROVE  DecidedAsShown'
    OBVIOUS
  <2>1. \A i \in 1..Len(history) : EntryAsShown(history[i], seen)
    BY DecidedEntries
  <2>2. Len(history) \in Nat /\ TypeOK
    BY DEF PageTypes, DashboardTypes, TypeOK
  <2>3. seen \subseteq seen'
    BY DEF DashboardNext, Open, LoadItems, ServeLatest, ServeItems, ItemsFail, LoadLines,
           ServeLines, LinesFail, Decide, Press, Serve, Refuse, LoseRequest, LoseAnswer, Settle,
           ServeOrphan, WorldMoves, dashboardVars, pageVars
  <2>4. ASSUME NEW e, EntryAsShown(e, seen) PROVE EntryAsShown(e, seen')
    BY <2>3, <2>4 DEF EntryAsShown
  <2>5. ASSUME NEW e, history' = Append(history, e), EntryAsShown(e, seen)
        PROVE  DecidedAsShown'
    <3>1. \A i \in 1..Len(history') : EntryAsShown(history'[i], seen)
      BY <2>1, <2>2, <2>5 DEF TypeOK
    <3>2. \A i \in 1..Len(history') : EntryAsShown(history'[i], seen')
      BY <2>4, <3>1
    <3>. QED
      BY <3>2 DEF DecidedAsShown, EntryAsShown, AckOf, TrioOf
  <2>6. CASE UNCHANGED history
    <3>1. \A i \in 1..Len(history') : EntryAsShown(history'[i], seen')
      BY <2>1, <2>4, <2>6
    <3>. QED
      BY <3>1 DEF DecidedAsShown, EntryAsShown, AckOf, TrioOf
  <2>7. CASE Serve
    BY <2>2, <2>5, <2>7, PutAsShown DEF PageTypes, RequestType, SeenInv, Serve
  <2>8. ASSUME NEW put \in orphans, PutDecision(put.key, put.patch, Me)
        PROVE  DecidedAsShown'
    BY <2>2, <2>5, <2>8, PutAsShown DEF PageTypes, DashboardTypes, SeenInv
  <2>9. CASE OthersPut
    <3>1. PICK key \in Keys, patch \in AnyPatches, by \in Users \ {Me} :
                 PutDecision(key, patch, by)
      BY <2>9, OthersStep
    <3>2. history' = Append(history, Entry(key, NextRow(key, patch, by), by))
      BY <3>1 DEF PutDecision, Commit
    <3>3. EntryAsShown(Entry(key, NextRow(key, patch, by), by), seen)
      BY <3>1 DEF EntryAsShown, Entry
    <3>. QED
      BY <2>5, <3>2, <3>3
  <2>10. CASE WorldMoves /\ ~OthersPut
    BY <2>6, <2>10 DEF WorldMoves, Tick, Ingest
  <2>11. CASE \/ UNCHANGED dashboardVars \/ Open \/ LoadItems \/ LoadLines \/ Decide
              \/ Refuse \/ LoseRequest \/ LoseAnswer \/ Settle
    BY <2>6, <2>11 DEF dashboardVars, vars, Open, LoadItems, ServeLatest, ServeItems, ItemsFail,
                       LoadLines, ServeLines, LinesFail, Decide, Press, Refuse, LoseRequest,
                       LoseAnswer, Settle
  <2>12. CASE \E put \in orphans : ServeOrphan(put)
    BY <2>6, <2>8, <2>12 DEF ServeOrphan, vars
  <2>. QED
    BY <2>7, <2>9, <2>10, <2>11, <2>12 DEF DashboardNext
<1>. QED
  BY <1>1, <1>2, PageTypesHold, SeenKept, PTL DEF DashboardSpec
-----------------------------------------------------------------------------
(* The page beside the server. *)

(* What the row of `key` will show when nothing of it is out any more: a   *)
(* PUT that was served counts as answered, one that was not as failed.     *)
Settled(key) ==
  IF request # Null /\ request.key = key
    THEN IF request.phase = "done" THEN request.reply
         ELSE IF request.previous = NoOverride THEN pageDecision[key]
         ELSE request.previous
  ELSE ShownDecision(key)

(* PageIsCurrent with a PUT out: what the rows will show is what the       *)
(* server finds already, except where an answer was lost.                  *)
CurrentInv ==
  (Mounted /\ NobodyElseWrote) =>
    \A key \in DOMAIN pageItems \ unheard : Settled(key) = DecisionFor(key, pageItems)

(* A write to a row of a page changes what is found for that row, and for  *)
(* no other of the page: one of the same repo|kind|name has a live sibling *)
(* in the row written, so the carry-over is closed to it.                  *)
LEMMA WriteOnPage ==
  ASSUME TypeOK, RowsDated, TypeOK', RowsDated',
         NEW items, DOMAIN items \subseteq Keys,
         NEW written \in DOMAIN items, NEW row \in Row, NEW by \in Users,
         Commit(written, row, by),
         NEW key \in DOMAIN items
  PROVE  DecisionFor(key, items)' = IF key = written THEN row ELSE DecisionFor(key, items)
<1>1. \A k \in Keys : decisions'[k] = IF k = written THEN row ELSE decisions[k]
  BY CommitAppends
<1>2. CASE key = written
  <2>1. decisions'[key] = row /\ row # Null /\ key # Null
    BY <1>1, <1>2, NullAssumption
  <2>. QED
    BY <1>2, <2>1 DEF DecisionFor, MatchedKey
<1>3. CASE key # written /\ RepoKindName[written] = RepoKindName[key]
  <2>1. Ambiguous(key, items) /\ decisions'[key] = decisions[key] /\ key \in Keys
    BY <1>1, <1>3 DEF Ambiguous
  <2>. QED
    BY <1>3, <2>1, NullAssumption DEF DecisionFor, MatchedKey, Ambiguous
<1>4. CASE key # written /\ RepoKindName[written] # RepoKindName[key]
  <2>1. /\ key \in Keys /\ decisions'[key] = decisions[key]
        /\ \A k \in Keys : RepoKindName[k] = RepoKindName[key] => decisions'[k] = decisions[k]
    BY <1>1, <1>4
  <2>. QED
    BY <1>4, <2>1, SameCandidatesSameMatch
<1>. QED
  BY <1>2, <1>3, <1>4

LEMMA SameDecisionsSameFind ==
  ASSUME UNCHANGED decisions, NEW key, NEW items
  PROVE  DecisionFor(key, items)' = DecisionFor(key, items)
BY DEF DecisionFor, MatchedKey, Ambiguous, Candidates, NewestCandidate

LEMMA ServeKeepsCurrent ==
  ASSUME PageTypes, PageTypes', CurrentInv, Serve
  PROVE  CurrentInv'
<1>1. PICK row : row = NextRow(request.key, request.patch, Me)
  OBVIOUS
<1>2. /\ request.key \in DOMAIN pageItems /\ request.key \in Keys
      /\ request.patch \in PagePatches /\ Mounted /\ request # Null /\ request.phase = "sent"
      /\ PutDecision(request.key, request.patch, Me)
      /\ DOMAIN pageItems \subseteq Keys
  BY ServeStep DEF PageTypes, RequestType, Serve, DashboardTypes
<1>3. request.patch \in AnyPatches /\ request.patch # ClearPatch
  BY <1>2 DEF PagePatches, AnyPatches, VersionPatches, Reminders, AckPatches, ClearPatch
<1>4. row \in Row /\ Commit(request.key, row, Me)
  BY <1>1, <1>2, <1>3, PatchCommits, DashboardAssumption DEF PageTypes, DashboardTypes
<1>5. /\ Len(history') = Len(history) + 1 /\ decisions'[request.key] = row
      /\ Len(history) \in Nat /\ ours \in Nat /\ asOf \in Nat
  <2>1. TypeOK /\ ours \in Nat /\ asOf \in Nat
    BY DEF PageTypes, DashboardTypes
  <2>2. Len(history) \in Nat
    BY <2>1 DEF TypeOK
  <2>. QED
    BY <1>2, <1>4, <2>1, <2>2, CommitAppends, DashboardAssumption
<1>6. /\ request' # Null /\ request'.key = request.key /\ request'.phase = "done"
      /\ request'.reply = row
      /\ ours' = ours + 1 /\ unheard' = unheard \ {request.key}
      /\ UNCHANGED <<fetching, pageItems, pageDecision, asOf, overrides>>
  <2>1. request' = [request EXCEPT !.phase = "done", !.reply = decisions'[request.key]]
    BY DEF Serve
  <2>2. request \in Request
    BY <1>2 DEF PageTypes, RequestType
  <2>3. /\ request' # Null /\ request'.key = request.key /\ request'.phase = "done"
        /\ request'.reply = row
    <3>1. request'.key = request.key /\ request'.phase = "done" /\ request'.reply = row
      BY <1>5, <2>1, <2>2 DEF Request
    <3>2. request' # Null
      BY <1>4, <1>5, <2>1, <2>2, DashboardAssumption DEF Request
    <3>. QED
      BY <3>1, <3>2
  <2>. QED
    BY <2>3 DEF Serve
<1>. SUFFICES ASSUME NobodyElseWrote', NEW key \in DOMAIN pageItems,
                     key \notin unheard \/ key = request.key
              PROVE  Settled(key)' = DecisionFor(key, pageItems)'
  BY <1>6 DEF CurrentInv, Settled, ShownDecision, DecisionFor, MatchedKey, Ambiguous
<1>7. key # request.key => Settled(key) = DecisionFor(key, pageItems)
  <2>1. NobodyElseWrote
    BY <1>5, <1>6 DEF NobodyElseWrote
  <2>. QED
    BY <1>2, <2>1 DEF CurrentInv
<1>8. DecisionFor(key, pageItems)'
        = IF key = request.key THEN row ELSE DecisionFor(key, pageItems)
  <2>1. PICK items : items = pageItems
    OBVIOUS
  <2>2. DecisionFor(key, items)'
          = IF key = request.key THEN row ELSE DecisionFor(key, items)
    BY <1>2, <1>4, <2>1, WriteOnPage, DashboardAssumption DEF PageTypes, DashboardTypes
  <2>3. pageItems' = items
    BY <1>6, <2>1
  <2>. QED
    BY <2>1, <2>2, <2>3 DEF DecisionFor, MatchedKey, Ambiguous
<1>9. Settled(key)' = IF key = request.key THEN row ELSE Settled(key)
  BY <1>2, <1>6 DEF Settled, ShownDecision
<1>. QED
  BY <1>7, <1>8, <1>9
LEMMA CurrentKept ==
  PageTypes /\ PageTypes' /\ CurrentInv /\ [DashboardNext]_dashboardVars => CurrentInv'
<1>. SUFFICES ASSUME PageTypes, PageTypes', CurrentInv, [DashboardNext]_dashboardVars
              PROVE  CurrentInv'
  OBVIOUS
<1>1. CASE Serve
  BY <1>1, ServeKeepsCurrent
<1>2. CASE ~Mounted'
  BY <1>2 DEF CurrentInv
<1>3. ASSUME UNCHANGED <<decisions, history, asOf, ours, pageItems>>, Mounted,
             unheard \subseteq unheard',
             \A key \in DOMAIN pageItems \ unheard' : Settled(key)' = Settled(key)
      PROVE  CurrentInv'
  <2>1. \A key \in DOMAIN pageItems : DecisionFor(key, pageItems)' = DecisionFor(key, pageItems)
    BY <1>3 DEF DecisionFor, MatchedKey, Ambiguous, Candidates, NewestCandidate
  <2>. QED
    BY <1>3, <2>1 DEF CurrentInv, NobodyElseWrote, Mounted
<1>4. CASE visit > 0 /\ ServeItems
  <2>1. PICK items : items = snapshots[pageId].items
    OBVIOUS
  <2>2. /\ pageItems' = items /\ UNCHANGED <<decisions, request, overrides>>
        /\ pageDecision' = [k \in DOMAIN items |-> DecisionFor(k, items)]
        /\ request = Null /\ overrides = [k \in Keys |-> NoOverride]
    BY <1>4, <2>1 DEF ServeItems, PageTypes, UnmountedIsBlank, Mounted, vars
  <2>3. DOMAIN items \subseteq Keys
    BY <2>2 DEF PageTypes, DashboardTypes
  <2>4. ASSUME NEW key \in DOMAIN items
        PROVE  Settled(key)' = DecisionFor(key, items)
    BY <2>2, <2>3, <2>4 DEF Settled, ShownDecision
  <2>5. ASSUME NEW key \in DOMAIN items
        PROVE  DecisionFor(key, pageItems)' = DecisionFor(key, items)
    BY <2>2 DEF DecisionFor, MatchedKey, Ambiguous, Candidates, NewestCandidate
  <2>. QED
    BY <2>2, <2>4, <2>5 DEF CurrentInv
<1>5. CASE Decide
  <2>1. Mounted
    BY <1>5, DecideCases DEF PageTypes
  <2>2. PICK pressed \in DOMAIN pageItems : \E patch \in PagePatches : Press(pressed, patch)
    BY <1>5, DecideCases DEF PageTypes
  <2>3. PICK patch \in PagePatches : Press(pressed, patch)
    BY <2>2
  <2>4. /\ request = Null /\ request' # Null /\ request'.key = pressed
        /\ request'.phase = "sent" /\ request'.previous = overrides[pressed]
        /\ overrides' = [overrides EXCEPT ![pressed] = Preview(pressed, patch)]
        /\ UNCHANGED <<vars, fetching, pageItems, pageDecision, asOf, ours, unheard>>
    <3>1. request' = Sent(pressed, patch)
      BY <2>3 DEF Press
    <3>2. Sent(pressed, patch) \in Request
      BY <2>3 DEF Sent, Request, PageTypes, DashboardTypes
    <3>3. request' # Null
      BY <3>1, <3>2, DashboardAssumption
    <3>. QED
      BY <2>3, <3>1, <3>3 DEF Press, Sent
  <2>5. ASSUME NEW key \in DOMAIN pageItems PROVE Settled(key)' = Settled(key)
    <3>1. key \in Keys /\ overrides \in [Keys -> Decision \cup {NoOverride}]
      BY DEF PageTypes, DashboardTypes
    <3>2. CASE key = pressed
      BY <2>4, <3>2 DEF Settled, ShownDecision
    <3>3. CASE key # pressed
      BY <2>4, <3>1, <3>3 DEF Settled, ShownDecision
    <3>. QED
      BY <3>2, <3>3
  <2>. QED
    BY <1>3, <2>1, <2>4, <2>5 DEF vars
<1>6. CASE Refuse \/ LoseRequest \/ LoseAnswer
  <2>1. /\ request # Null /\ request \in Request /\ Mounted
        /\ request.phase = "sent" \/ request.key \in unheard'
        /\ unheard \subseteq unheard'
        /\ UNCHANGED <<vars, fetching, pageItems, pageDecision, asOf, ours, overrides>>
    BY <1>6 DEF Refuse, LoseRequest, LoseAnswer, PageTypes, RequestType
  <2>2. /\ request'.key = request.key /\ request'.phase = "failed"
        /\ request'.previous = request.previous /\ request' # Null
    <3>1. request' \in Request
      BY <1>6, <2>1 DEF Refuse, LoseRequest, LoseAnswer, Request
    <3>2. /\ request'.key = request.key /\ request'.phase = "failed"
          /\ request'.previous = request.previous
      BY <1>6, <2>1 DEF Refuse, LoseRequest, LoseAnswer, Request
    <3>. QED
      BY <3>1, <3>2, DashboardAssumption
  <2>3. ASSUME NEW key \in DOMAIN pageItems \ unheard' PROVE Settled(key)' = Settled(key)
    BY <2>1, <2>2 DEF Settled, ShownDecision
  <2>. QED
    BY <1>3, <2>1, <2>3 DEF vars
<1>7. CASE Settle
  <2>1. /\ request # Null /\ request.phase \in {"done", "failed"} /\ Mounted
        /\ request.phase = "done" => request.reply \in Row
        /\ overrides' = [overrides EXCEPT ![request.key] =
                           IF request.phase = "done" THEN request.reply ELSE request.previous]
        /\ request' = Null
        /\ UNCHANGED <<vars, fetching, pageItems, pageDecision, asOf, ours, unheard>>
    BY <1>7 DEF Settle, PageTypes, RequestType
  <2>2. ASSUME NEW key \in DOMAIN pageItems PROVE Settled(key)' = Settled(key)
    <3>1. key \in Keys /\ overrides \in [Keys -> Decision \cup {NoOverride}]
      BY DEF PageTypes, DashboardTypes
    <3>2. CASE key = request.key
      BY <2>1, <3>1, <3>2, DashboardAssumption DEF Settled, ShownDecision
    <3>3. CASE key # request.key
      BY <2>1, <3>1, <3>3 DEF Settled, ShownDecision
    <3>. QED
      BY <3>2, <3>3
  <2>. QED
    BY <1>3, <2>1, <2>2 DEF vars
<1>8. ASSUME NEW key, NEW patch, NEW by, PutDecision(key, patch, by),
             UNCHANGED <<asOf, ours>>
      PROVE  CurrentInv'
  <2>1. history' = Append(history, Entry(key, NextRow(key, patch, by), by))
    BY <1>8 DEF PutDecision, Commit
  <2>2. Len(history') = Len(history) + 1 /\ Len(history) \in Nat
    BY <2>1 DEF PageTypes, DashboardTypes, TypeOK
  <2>3. ~NobodyElseWrote'
    BY <1>8, <2>2 DEF NobodyElseWrote, PageTypes, DashboardTypes
  <2>. QED
    BY <2>3 DEF CurrentInv
<1>9. ASSUME UNCHANGED <<decisions, history, asOf, ours, pageItems, pageDecision, overrides,
                         request, unheard, fetching>>
      PROVE  CurrentInv'
  <2>1. ASSUME NEW key \in DOMAIN pageItems PROVE Settled(key)' = Settled(key)
    BY <1>9 DEF Settled, ShownDecision
  <2>2. CASE Mounted
    BY <1>3, <1>9, <2>1, <2>2
  <2>3. CASE ~Mounted
    BY <1>9, <2>3 DEF CurrentInv, Mounted
  <2>. QED
    BY <2>2, <2>3
<1>10. CASE Open \/ (visit > 0 /\ (ServeLatest \/ ItemsFail))
  BY <1>2, <1>10 DEF Open, ServeLatest, ItemsFail, Mounted
<1>11. CASE LoadLines
  BY <1>9, <1>11 DEF LoadLines, ServeLines, LinesFail, vars
<1>12. CASE \E put \in orphans : ServeOrphan(put)
  <2>1. PICK put \in orphans : ServeOrphan(put)
    BY <1>12
  <2>2. CASE PutDecision(put.key, put.patch, Me)
    BY <1>8, <2>1, <2>2 DEF ServeOrphan
  <2>3. CASE UNCHANGED vars
    BY <1>9, <2>1, <2>3 DEF ServeOrphan, vars
  <2>. QED
    BY <2>1, <2>2, <2>3 DEF ServeOrphan
<1>13. CASE WorldMoves
  <2>1. CASE OthersPut
    BY <1>8, <1>13, <2>1, OthersStep DEF WorldMoves, pageVars
  <2>2. CASE ~OthersPut
    BY <1>9, <1>13, <2>2 DEF WorldMoves, Tick, Ingest, pageVars
  <2>. QED
    BY <2>1, <2>2
<1>14. CASE UNCHANGED dashboardVars
  BY <1>9, <1>14 DEF dashboardVars, pageVars, vars
<1>. QED
  BY <1>1, <1>4, <1>5, <1>6, <1>7, <1>10, <1>11, <1>12, <1>13, <1>14 DEF DashboardNext, LoadItems

(* Deciding on a page leaves no row behind the server but one whose answer *)
(* was lost, for every estate and any failures: with no PUT out and nobody *)
(* else deciding, each other row shows the decision findDecisionForItem    *)
(* finds for it, those decided, confirmed or rolled back, and all the rest.*)
THEOREM PageIsCurrentHolds == DashboardSpec => []PageIsCurrent
<1>1. DashboardInit => CurrentInv
  BY DEF DashboardInit, CurrentInv, Mounted
<1>2. CurrentInv => PageIsCurrent
  BY DEF CurrentInv, PageIsCurrent, Settled
<1>. QED
  BY <1>1, <1>2, PageTypesHold, CurrentKept, PTL DEF DashboardSpec
=============================================================================
