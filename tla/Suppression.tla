----------------------------- MODULE Suppression -----------------------------
(***************************************************************************)
(* The verdicts of packages/contract/src/suppression.ts: pure functions of *)
(* an item of a snapshot, the decision that applies to it and the time,    *)
(* shared by the server (soundness.ts) and the web client                  *)
(* (needsDecision.ts, DecisionActions.tsx).                                *)
(*                                                                         *)
(* A version string is any value; ParseVersion gives the numbers in it, or *)
(* Null where the source's pattern does not match.  Instants are natural   *)
(* numbers, and Null is the null of the source.                            *)
(***************************************************************************)
EXTENDS Integers, Sequences

CONSTANTS
  Null,
  ParseVersion   \* [version string -> its dotted numbers, or Null]

ASSUME ParseVersionAssumption ==
  \A v \in DOMAIN ParseVersion :
    ParseVersion[v] # Null => ParseVersion[v] \in Seq(Nat) \ {<<>>}

(* A string that parseVersion takes apart. *)
IsVersion(v) == v \in DOMAIN ParseVersion /\ ParseVersion[v] # Null

(* Mutant: a missing number is less than a zero, "2.0" newer than "2". *)
NumberAt_Unpadded(v, i) ==
  IF i \in DOMAIN ParseVersion[v] THEN ParseVersion[v][i] ELSE -1

(* numbers[i] ?? 0: the shorter list is padded with zeros. *)
NumberAt(v, i) == IF i \in DOMAIN ParseVersion[v] THEN ParseVersion[v][i] ELSE 0

(* isNewer: the first position at which the two differ decides; what       *)
(* cannot be parsed, on either side, is never newer.                       *)
IsNewer(candidate, baseline) ==
  /\ candidate # Null /\ baseline # Null
  /\ IsVersion(candidate) /\ IsVersion(baseline)
  /\ \E i \in DOMAIN ParseVersion[candidate] :
       /\ NumberAt(candidate, i) > NumberAt(baseline, i)
       /\ \A j \in 1..(i-1) : NumberAt(candidate, j) = NumberAt(baseline, j)

(* The approvedVersion branch of suppressionState: the pin moved since the *)
(* approval, or something newer than the approved version came out.        *)
ApprovalSpent(item, decision) ==
  \/ /\ decision.approvedFromPinned # Null
     /\ item.pinned # decision.approvedFromPinned
  \/ IsNewer(item.latest, decision.approvedVersion)

(* Mutant: the reminder is compared with when it was set, not with now. *)
SuppressionState_StaleNow(item, decision, now) ==
  IF decision = Null THEN "active"
  ELSE IF decision.skippedVersion # Null
    THEN IF IsNewer(item.latest, decision.skippedVersion) THEN "active" ELSE "suppressed"
  ELSE IF decision.remindAt # Null
    THEN IF decision.updatedAt < decision.remindAt THEN "suppressed" ELSE "remind"
  ELSE IF decision.approvedVersion # Null /\ ~ApprovalSpent(item, decision)
    THEN "suppressed"
  ELSE "active"

(* suppressionState: the first field of the trio that is set decides. *)
SuppressionState(item, decision, now) ==
  IF decision = Null
    THEN "active"
  ELSE IF decision.skippedVersion # Null
    THEN IF IsNewer(item.latest, decision.skippedVersion) THEN "active" ELSE "suppressed"
  ELSE IF decision.remindAt # Null
    THEN IF now < decision.remindAt THEN "suppressed" ELSE "remind"
  ELSE IF decision.approvedVersion # Null
    THEN IF ApprovalSpent(item, decision) THEN "active" ELSE "suppressed"
  ELSE "active"

AcknowledgedIds(decision) ==
  IF decision = Null THEN {}
  ELSE IF decision.acknowledgedAdvisories = Null THEN {}
  ELSE decision.acknowledgedAdvisories

(* effectiveAdvisoryStatus: only an "affected" item with a non-empty       *)
(* acknowledgement is recomputed.                                          *)
EffectiveAdvisoryStatus(item, decision) ==
  IF item.advisoryStatus # "affected" \/ AcknowledgedIds(decision) = {}
    THEN item.advisoryStatus
  ELSE IF \E a \in item.advisories : a.affected /\ a.id \notin AcknowledgedIds(decision)
    THEN "affected"
  ELSE "historical-only"

ActionableGaps == {"major", "minor", "patch"}

(* needsDecision.ts: what the Needs-a-decision page lists. *)
NeedsDecision(item, decision, now) ==
  \/ EffectiveAdvisoryStatus(item, decision) = "affected"
  \/ /\ item.gap \in ActionableGaps
     /\ SuppressionState(item, decision, now) # "suppressed"
=============================================================================
