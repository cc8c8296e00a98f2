------------------------- MODULE OptimisticDecisions -------------------------
(***************************************************************************)
(* One row of the Per-repo page: the optimistic update of                  *)
(* useOptimisticDecisions.ts, the buttons of DecisionActions.tsx that      *)
(* drive it, the PUT requests in flight and the row the server keeps.      *)
(*                                                                         *)
(* A decision is reduced to what the two axes tell apart: which of the     *)
(* three targets of the version trio holds, whether the item's advisories  *)
(* are acknowledged, and whether updatedBy is known (an optimistic         *)
(* preview leaves it null).  While a target holds, the gap is suppressed:  *)
(* Skip and Approve take the item's own latest, Remind an instant after    *)
(* the session, and the page's snapshot does not change under it.          *)
(*                                                                         *)
(* Requests run concurrently and the network may reorder them, lose one on *)
(* its way out (or the server refuse it), or lose the answer.              *)
(***************************************************************************)
EXTENDS Naturals, Sequences

CONSTANTS
  Null,
  NoOverride,      \* the overrides map has no entry for the key
  User,
  Situations,      \* rows and networks the page may meet, a set of Situation
  MaxCalls         \* bound: calls of apply

Targets == {"skippedVersion", "remindAt", "approvedVersion"}
Fields == Targets \cup {"acknowledgedAdvisories"}
Axes == {"gap", "advisory"}

Decision == [ target : Targets \cup {Null}, acked : BOOLEAN, by : {Null, User} ]

(* What the table holds always has its author. *)
Recorded == {d \in Decision : d.by = User}

Situation ==
  [ hasGap : BOOLEAN,                    \* the item has an actionable gap
    hasAdvisory : BOOLEAN,               \* the item is affected by advisories
    recorded : {Null} \cup Recorded,     \* the server's row under the item's key
    carried : {Null} \cup Recorded,      \* its row under the key the item moved from
    inOrder : BOOLEAN,                   \* neither requests nor answers are reordered
    losses : Nat ]                       \* bound: lost requests and answers

ASSUME ParametersAssumption == Situations \subseteq Situation /\ MaxCalls \in Nat

(* Null and NoOverride are values of their own. *)
ASSUME SentinelsAssumption ==
  Null \notin Fields \cup Decision /\ NoOverride \notin {Null} \cup Decision

VARIABLES
  situation,   \* never changes
  confirming,  \* DecisionActions: the field whose confirm bar is open, or Null
  override,    \* overrides.get(key): a decision, or NoOverride
  error,       \* errors.has(key)
  sequence,    \* sequenceRef.current.get(key): the number of calls per axis
  calls,       \* the calls of apply, oldest first
  server,      \* the server's row for the key
  answers,     \* how many requests the server has answered
  failures     \* how many requests or answers were lost

vars == <<situation, confirming, override, error, sequence, calls, server, answers, failures>>

(* What a call of apply closes over, and how far its request has come. *)
Call ==
  [ field : Fields, mySequence : Nat, current : {Null} \cup Decision,
    hadOverride : BOOLEAN, reply : {Null} \cup Decision, order : Nat,
    phase : {"sent", "replied", "failed", "confirmed", "rejected"} ]

-----------------------------------------------------------------------------
(* Mutant: the fallthrough default the comment of axisOf warns of. *)
AxisOf_Fallthrough(field) == "gap"

(* axisOf *)
AxisOf(field) == IF field \in Targets THEN "gap" ELSE "advisory"

TargetIn(d) == IF d = Null THEN Null ELSE d.target
AckedIn(d) == IF d = Null THEN FALSE ELSE d.acked

(* Mutant: the write keeps nothing of the row it replaces. *)
Merged_Replaces(field, row) ==
  [ target |-> IF AxisOf(field) = "gap" THEN field ELSE Null,
    acked |-> AxisOf(field) = "advisory",
    by |-> User ]

(* putDecision on the server: the merge rule of decisions.ts. *)
Merged(field, row) ==
  [ target |-> IF AxisOf(field) = "gap" THEN field ELSE TargetIn(row),
    acked |-> AxisOf(field) = "advisory" \/ AckedIn(row),
    by |-> User ]

(* optimisticDecision: the client's preview of that rule. *)
OptimisticDecision(field, current) ==
  [ target |-> IF AxisOf(field) = "gap" THEN field ELSE TargetIn(current),
    acked |-> AxisOf(field) = "advisory" \/ AckedIn(current),
    by |-> Null ]

(* findDecisionForItem, for an item with no live sibling. *)
InForce(row) == IF row # Null THEN row ELSE situation.carried

(* The decision GET /api/snapshots/:id/items joined to the item. *)
Fetched == InForce(situation.recorded)

(* effectiveItems: the decision the row shows. *)
Shown == IF override = NoOverride THEN Fetched ELSE override

(* Mutant: the gap buttons stay whatever the verdict. *)
Offered_Always(field) ==
  IF AxisOf(field) = "gap" THEN situation.hasGap ELSE situation.hasAdvisory /\ ~AckedIn(Shown)

(* The buttons DecisionActions shows on an open row. *)
Offered(field) ==
  IF AxisOf(field) = "gap" THEN situation.hasGap /\ TargetIn(Shown) = Null
  ELSE situation.hasAdvisory /\ ~AckedIn(Shown)

(* A call is current while its number is the last one of its axis. *)
IsCurrent(c) == calls[c].mySequence = sequence[AxisOf(calls[c].field)]

InFlight == {c \in 1..Len(calls) : calls[c].phase \in {"sent", "replied", "failed"}}
Quiescent == InFlight = {}

-----------------------------------------------------------------------------
(* The user. *)

OpenConfirm(field) ==
  /\ confirming = Null
  /\ Offered(field)
  /\ Len(calls) < MaxCalls
  /\ confirming' = field
  /\ UNCHANGED <<situation, override, error, sequence, calls, server, answers, failures>>

ConfirmNo ==
  /\ confirming # Null
  /\ confirming' = Null
  /\ UNCHANGED <<situation, override, error, sequence, calls, server, answers, failures>>

(* Yes: apply(), up to its await. *)
ConfirmYes ==
  /\ confirming # Null
  /\ LET axis == AxisOf(confirming)
     IN  /\ sequence' = [sequence EXCEPT ![axis] = @ + 1]
         /\ calls' = Append(calls,
              [ field |-> confirming, mySequence |-> sequence[axis] + 1,
                current |-> Shown, hadOverride |-> override # NoOverride,
                reply |-> Null, order |-> 0, phase |-> "sent" ])
  /\ override' = OptimisticDecision(confirming, Shown)
  /\ error' = FALSE
  /\ confirming' = Null
  /\ UNCHANGED <<situation, server, answers, failures>>

-----------------------------------------------------------------------------
(* The server and the network. *)

Serve(c) ==
  /\ calls[c].phase = "sent"
  /\ situation.inOrder => \A d \in 1..(c-1) : calls[d].phase # "sent"
  /\ server' = Merged(calls[c].field, server)
  /\ answers' = answers + 1
  /\ calls' = [calls EXCEPT ![c].phase = "replied", ![c].reply = server',
                            ![c].order = answers']
  /\ UNCHANGED <<situation, confirming, override, error, sequence, failures>>

(* The request never arrives, or is refused (401, 422, 500). *)
LoseRequest(c) ==
  /\ calls[c].phase = "sent"
  /\ failures < situation.losses
  /\ failures' = failures + 1
  /\ calls' = [calls EXCEPT ![c].phase = "failed"]
  /\ UNCHANGED <<situation, confirming, override, error, sequence, server, answers>>

(* The answer never arrives: the fetch rejects all the same. *)
LoseReply(c) ==
  /\ calls[c].phase = "replied"
  /\ failures < situation.losses
  /\ failures' = failures + 1
  /\ calls' = [calls EXCEPT ![c].phase = "failed"]
  /\ UNCHANGED <<situation, confirming, override, error, sequence, server, answers>>

-----------------------------------------------------------------------------
(* The rest of apply(), when its PUT settles. *)

Settled(c, phase) == calls' = [calls EXCEPT ![c].phase = phase]

InTurn(c) ==
  situation.inOrder =>
    \A d \in InFlight : calls[d].phase = "replied" => calls[d].order >= calls[c].order

(* Mutant: the confirmed decision is awaited and thrown away. *)
Confirmed_Ignored(c) ==
  /\ calls[c].phase = "replied"
  /\ InTurn(c)
  /\ Settled(c, "confirmed")
  /\ UNCHANGED <<situation, confirming, override, error, sequence, server, answers, failures>>

(* Mutant: the override is dropped once confirmed, as if `items` had been  *)
(* fetched again.                                                          *)
Confirmed_Drops(c) ==
  /\ calls[c].phase = "replied"
  /\ InTurn(c)
  /\ Settled(c, "confirmed")
  /\ override' = IF IsCurrent(c) THEN NoOverride ELSE override
  /\ UNCHANGED <<situation, confirming, error, sequence, server, answers, failures>>

(* The PUT resolved: the confirmed decision replaces the preview. *)
Confirmed(c) ==
  /\ calls[c].phase = "replied"
  /\ InTurn(c)
  /\ Settled(c, "confirmed")
  /\ override' = IF IsCurrent(c) THEN calls[c].reply ELSE override
  /\ UNCHANGED <<situation, confirming, error, sequence, server, answers, failures>>

(* Mutant: the failure is reported, the preview stays. *)
Rejected_NoRollback(c) ==
  /\ calls[c].phase = "failed"
  /\ Settled(c, "rejected")
  /\ error' = IF IsCurrent(c) THEN TRUE ELSE error
  /\ UNCHANGED <<situation, confirming, override, sequence, server, answers, failures>>

(* Mutant: the preview goes, the failure is not reported. *)
Rejected_Silently(c) ==
  /\ calls[c].phase = "failed"
  /\ Settled(c, "rejected")
  /\ override' = IF ~IsCurrent(c) THEN override
                 ELSE IF calls[c].hadOverride THEN calls[c].current ELSE NoOverride
  /\ UNCHANGED <<situation, confirming, error, sequence, server, answers, failures>>

(* The PUT rejected: roll back to what apply() saw, and report. *)
Rejected(c) ==
  /\ calls[c].phase = "failed"
  /\ Settled(c, "rejected")
  /\ override' = IF ~IsCurrent(c) THEN override
                 ELSE IF calls[c].hadOverride THEN calls[c].current ELSE NoOverride
  /\ error' = IF IsCurrent(c) THEN TRUE ELSE error
  /\ UNCHANGED <<situation, confirming, sequence, server, answers, failures>>

Init ==
  /\ situation \in Situations
  /\ confirming = Null
  /\ override = NoOverride
  /\ error = FALSE
  /\ sequence = [axis \in Axes |-> 0]
  /\ calls = <<>>
  /\ server = situation.recorded
  /\ answers = 0
  /\ failures = 0

Network(c) == Serve(c) \/ LoseRequest(c) \/ LoseReply(c)
Settle(c) == Confirmed(c) \/ Rejected(c)

Next ==
  \/ \E field \in Fields : OpenConfirm(field)
  \/ ConfirmNo
  \/ ConfirmYes
  \/ \E c \in 1..Len(calls) : Network(c) \/ Settle(c)

Spec == Init /\ [][Next]_vars

(* A request is answered or fails, and the page's callbacks then run; the  *)
(* user may stop at any point.                                             *)
FairSpec ==
  /\ Spec
  /\ \A c \in 1..MaxCalls :
       /\ WF_vars(c \in 1..Len(calls) /\ Network(c))
       /\ WF_vars(c \in 1..Len(calls) /\ Settle(c))

-----------------------------------------------------------------------------
(* Properties. *)

TypeOK ==
  /\ confirming \in Fields \cup {Null}
  /\ override \in {NoOverride} \cup Decision
  /\ error \in BOOLEAN
  /\ sequence \in [Axes -> 0..MaxCalls]
  /\ calls \in Seq(Call)
  /\ server \in {Null} \cup Decision
  /\ answers \in 0..MaxCalls
  /\ situation \in Situations /\ failures \in 0..situation.losses

SameDecision(d, e) == TargetIn(d) = TargetIn(e) /\ AckedIn(d) = AckedIn(e)

(* The answer of call c was lost, and no later one told the page. *)
AnswerLost(c) ==
  /\ calls[c].phase = "rejected"
  /\ calls[c].reply # Null
  /\ ~\E d \in (c+1)..Len(calls) : calls[d].phase = "confirmed"

(* Once every request settled, the row shows the decision in force at the  *)
(* server (useOptimisticDecisions.ts, apply: confirm or roll back),        *)
(* whatever requests were lost, also where the first PUT of a moved item   *)
(* replaces a decision carried over; only a lost answer may leave them     *)
(* apart.                                                                  *)
ViewMatchesRecord ==
  (Quiescent /\ ~\E c \in 1..Len(calls) : AnswerLost(c)) =>
    SameDecision(Shown, InForce(server))

(* A row with buttons of one axis never has two requests in flight: the    *)
(* preview hides the buttons that would fire the second one                *)
(* (DecisionActions.tsx).  With both axes, an answer that precedes the     *)
(* other axis's takes that axis's preview away, and its buttons are back.  *)
OneCallPerAxis ==
  ~(situation.hasGap /\ situation.hasAdvisory) => \A c, d \in InFlight : c = d

(* A failed action never passes for a recorded one: if the last call of    *)
(* the session failed, its error is on the row.                            *)
FailureReported ==
  (calls # <<>> /\ calls[Len(calls)].phase = "rejected") => error

(* The nameless preview gives way to a decision with its author.           *)
Preview == override # NoOverride /\ override.by = Null
PreviewResolves == Preview ~> ~Preview

-----------------------------------------------------------------------------
(* The server of this module is the store of DecisionStore, of one         *)
(* snapshot: key 1 is the item, which alone is in it, and key 2 is where   *)
(* it was before.  The versions, the pin, the advisory and the reminder    *)
(* are the one of each that the buttons send.                              *)

Snapshot ==
  [ generatedAt |-> 1,
    items |-> [k \in {1} |->
      [ pinned |-> 1, latest |-> 1, gap |-> "minor", advisoryStatus |-> "affected",
        advisories |-> {[id |-> 1, affected |-> TRUE]} ]] ]

RowOf(d) ==
  LET target(field) == IF d.target = field THEN 1 ELSE Null
  IN  IF d = Null THEN Null
      ELSE [ skippedVersion |-> target("skippedVersion"),
             remindAt |-> target("remindAt"),
             approvedVersion |-> target("approvedVersion"),
             approvedFromPinned |-> target("approvedVersion"),
             acknowledgedAdvisories |-> IF d.acked THEN {1} ELSE Null,
             updatedAt |-> 0,
             updatedBy |-> d.by ]

(* The call served n-th, and the row it left. *)
Nth(n) == CHOOSE c \in 1..Len(calls) : calls[c].order = n
Left(n) == IF n = 0 THEN situation.recorded ELSE calls[Nth(n)].reply

AuditTrail ==
  [n \in 1..answers |->
     [ key |-> 1, before |-> RowOf(Left(n - 1)), after |-> RowOf(Left(n)),
       at |-> 0, by |-> User ]]

Store == INSTANCE DecisionStore WITH
  Keys <- {1, 2}, RepoKindName <- <<"item", "item">>, WellFormedKeys <- {1, 2},
  VersionStrings <- {1}, ParseVersion <- <<<<1>>>>, Pins <- {1}, Advisories <- {1},
  Users <- {User}, Docs <- {Snapshot}, MaxHistory <- MaxCalls, MaxClock <- 1,
  snapshots <- <<Snapshot>>,
  decisions <- <<RowOf(server), RowOf(situation.carried)>>,
  history <- AuditTrail,
  clock <- 0

(* Null is no value of that store either. *)
ASSUME StoreSentinelAssumption ==
  Null \notin Store!Row \cup Store!Item \cup Nat /\ Null # <<1>>

(* Every request the page has served is a PUT of the store, with its audit *)
(* entry, in the order it was served, and nothing else changes a row; the  *)
(* decision the page then holds to be in force is the one the store finds. *)
ServesAsStore ==
  [][ Store!Next /\ RowOf(InForce(server))' = Store!LatestDecisionFor(1)' ]_(Store!vars)

-----------------------------------------------------------------------------
(* Claims of the repository the code does not keep. *)

(* "Roll back to exactly the pre-action state", "reverting to whatever     *)
(* `items` itself says": after every answer is in, the row shows no target *)
(* and no acknowledgement that was neither fetched nor recorded.           *)
NothingUnrecordedShown ==
  (Quiescent /\ ~\E c \in 1..Len(calls) : AnswerLost(c)) =>
    /\ TargetIn(Shown) \in {Null, TargetIn(Fetched), TargetIn(server)}
    /\ AckedIn(Shown) => AckedIn(Fetched) \/ AckedIn(server)

(* "both actions are meant to succeed and both confirmed responses must    *)
(* land, not just whichever fired last": when every call was confirmed,    *)
(* the row shows everything the user chose.                                *)
BothAxesLand ==
  (\A c \in 1..Len(calls) : calls[c].phase = "confirmed") =>
    \A c \in 1..Len(calls) :
      IsCurrent(c) =>
        IF AxisOf(calls[c].field) = "gap" THEN TargetIn(Shown) = calls[c].field
        ELSE AckedIn(Shown)
=============================================================================
