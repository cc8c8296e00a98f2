--------------------- MODULE OptimisticDecisionsProofs ---------------------
(***************************************************************************)
(* Theorems about OptimisticDecisions, for any number of calls, losses and *)
(* orders of the network.                                                  *)
(***************************************************************************)
EXTENDS OptimisticDecisions, FiniteSetTheorems, TLAPS

USE SentinelsAssumption, ParametersAssumption

OneAxis == ~(situation.hasGap /\ situation.hasAdvisory)

HasAxis(axis) == IF axis = "gap" THEN situation.hasGap ELSE situation.hasAdvisory

Pending(call) == call.phase \in {"sent", "replied", "failed"}

LastCall == calls[Len(calls)]

(* TypeOK without its bounds, and what a call carries once it is served.   *)
Types ==
  /\ situation \in Situation
  /\ confirming \in Fields \cup {Null}
  /\ override \in {NoOverride} \cup Decision
  /\ sequence \in [Axes -> Nat]
  /\ calls \in Seq(Call)
  /\ server \in {Null} \cup Decision
  /\ answers \in Nat
  /\ \A c \in 1..Len(calls) :
       /\ calls[c].phase = "replied" => calls[c].reply \in Decision
       /\ calls[c].hadOverride => calls[c].current \in Decision

(* The last call of the session is the current one of its axis, and when   *)
(* it failed the row says so.                                              *)
LastInv ==
  calls # <<>> =>
    /\ IsCurrent(Len(calls))
    /\ LastCall.phase = "rejected" => error

(* On a row of one axis only the last call is ever out; while it is, the   *)
(* preview hides the buttons of the axis, and no confirm bar is open.      *)
OneCallInv ==
  OneAxis =>
    /\ \A c \in 1..Len(calls) : Pending(calls[c]) => c = Len(calls)
    /\ confirming # Null => /\ HasAxis(AxisOf(confirming))
                            /\ \A c \in 1..Len(calls) : ~Pending(calls[c])
    /\ (\E c \in 1..Len(calls) : Pending(calls[c])) => \A field \in Fields : ~Offered(field)

Inv == Types /\ LastInv /\ OneCallInv

-----------------------------------------------------------------------------
(* A call after it was sent. *)

(* Call c moves on: its field, its number and what it closed over stay.    *)
Moves(c, call) ==
  /\ call \in Call
  /\ calls' = [calls EXCEPT ![c] = call]
  /\ call.field = calls[c].field /\ call.mySequence = calls[c].mySequence
  /\ call.hadOverride = calls[c].hadOverride /\ call.current = calls[c].current
  /\ call.phase = "replied" => call.reply \in Decision
  /\ Pending(calls[c])
  /\ \/ Pending(call) /\ UNCHANGED <<override, error>>
     \/ call.phase = "confirmed" /\ error' = error
     \/ /\ call.phase = "rejected"
        /\ IsCurrent(c) => error' = TRUE
        /\ error' = TRUE \/ error' = error

LEMMA PhaseSet ==
  ASSUME NEW call \in Call,
         NEW phase \in {"sent", "replied", "failed", "confirmed", "rejected"}
  PROVE  LET after == [call EXCEPT !.phase = phase]
         IN  /\ after \in Call /\ after.phase = phase
             /\ after.field = call.field /\ after.mySequence = call.mySequence
             /\ after.hadOverride = call.hadOverride /\ after.current = call.current
BY DEF Call

LEMMA DecisionTypes ==
  ASSUME NEW field \in Fields, NEW row \in {Null} \cup Decision
  PROVE  /\ Merged(field, row) \in Decision
         /\ OptimisticDecision(field, row) \in Decision
BY DEF Merged, OptimisticDecision, TargetIn, AckedIn, Decision, Fields, AxisOf

LEMMA NetworkMoves ==
  ASSUME Types, NEW c \in 1..Len(calls), Network(c)
  PROVE  /\ \E call : Moves(c, call)
         /\ UNCHANGED <<situation, confirming, override, sequence>>
         /\ server' \in {Null} \cup Decision /\ answers' \in Nat
<1>1. calls[c] \in Call /\ calls[c].field \in Fields
  <2>1. calls[c] \in Call
    BY DEF Types
  <2>. QED
    BY <2>1 DEF Call
<1>2. CASE LoseRequest(c) \/ LoseReply(c)
  <2>1. PICK call : call = [calls[c] EXCEPT !.phase = "failed"]
    OBVIOUS
  <2>2. /\ call \in Call /\ call.phase = "failed"
        /\ call.field = calls[c].field /\ call.mySequence = calls[c].mySequence
        /\ call.hadOverride = calls[c].hadOverride /\ call.current = calls[c].current
    BY <1>1, <2>1, PhaseSet
  <2>3. /\ calls' = [calls EXCEPT ![c] = call] /\ calls[c].phase \in {"sent", "replied"}
        /\ UNCHANGED <<situation, confirming, override, error, sequence, server, answers>>
    BY <1>2, <2>1 DEF LoseRequest, LoseReply
  <2>. QED
    BY <2>2, <2>3 DEF Moves, Pending, Types
<1>3. CASE Serve(c)
  <2>1. PICK reply, order, call :
          /\ reply = server' /\ order = answers'
          /\ call = [calls[c] EXCEPT !.phase = "replied", !.reply = reply, !.order = order]
    OBVIOUS
  <2>2. reply \in Decision /\ order \in Nat
    BY <1>1, <1>3, <2>1, DecisionTypes DEF Serve, Types
  <2>3. /\ call \in Call /\ call.phase = "replied" /\ call.reply = reply
        /\ call.field = calls[c].field /\ call.mySequence = calls[c].mySequence
        /\ call.hadOverride = calls[c].hadOverride /\ call.current = calls[c].current
    BY <1>1, <2>1, <2>2 DEF Call
  <2>4. /\ calls' = [calls EXCEPT ![c] = call] /\ calls[c].phase = "sent"
        /\ UNCHANGED <<situation, confirming, override, error, sequence>>
    BY <1>3, <2>1 DEF Serve
  <2>. QED
    BY <2>1, <2>2, <2>3, <2>4 DEF Moves, Pending
<1>. QED
  BY <1>2, <1>3 DEF Network

LEMMA SettleMoves ==
  ASSUME Types, NEW c \in 1..Len(calls), Settle(c)
  PROVE  /\ \E call : Moves(c, call) /\ ~Pending(call)
         /\ UNCHANGED <<situation, confirming, sequence, server, answers>>
         /\ override' \in {NoOverride} \cup Decision
<1>1. calls[c] \in Call
  BY DEF Types
<1>2. PICK phase \in {"confirmed", "rejected"} : calls' = [calls EXCEPT ![c].phase = phase]
  BY DEF Settle, Confirmed, Rejected, Settled
<1>3. PICK call : call = [calls[c] EXCEPT !.phase = phase]
  OBVIOUS
<1>. DEFINE phases == {"sent", "replied", "failed", "confirmed", "rejected"}
<1>. phase \in phases
  OBVIOUS
<1>4. /\ call \in Call /\ call.phase = phase
      /\ call.field = calls[c].field /\ call.mySequence = calls[c].mySequence
      /\ call.hadOverride = calls[c].hadOverride /\ call.current = calls[c].current
  BY <1>1, <1>3, PhaseSet
<1>5. calls' = [calls EXCEPT ![c] = call]
  BY <1>2, <1>3
<1>6. calls'[c].phase = phase
  <2>1. calls \in Seq(Call)
    BY DEF Types
  <2>2. calls'[c] = call
    BY <1>5, <2>1
  <2>. QED
    BY <1>4, <2>2
<1>7. CASE Confirmed(c)
  <2>1. /\ calls[c].phase = "replied" /\ calls'[c].phase = "confirmed" /\ error' = error
        /\ override' = IF IsCurrent(c) THEN calls[c].reply ELSE override
        /\ UNCHANGED <<situation, confirming, sequence, server, answers>>
    BY <1>1, <1>7 DEF Confirmed, Settled, Call, Types
  <2>. QED
    BY <1>4, <1>5, <1>6, <2>1 DEF Moves, Pending, Types
<1>8. CASE Rejected(c)
  <2>1. /\ calls[c].phase = "failed" /\ calls'[c].phase = "rejected"
        /\ error' = IF IsCurrent(c) THEN TRUE ELSE error
        /\ override' = IF ~IsCurrent(c) THEN override
                       ELSE IF calls[c].hadOverride THEN calls[c].current ELSE NoOverride
        /\ UNCHANGED <<situation, confirming, sequence, server, answers>>
    BY <1>1, <1>8 DEF Rejected, Settled, Call, Types
  <2>. QED
    <3>1. (IsCurrent(c) => error' = TRUE) /\ (error' = TRUE \/ error' = error)
      BY <2>1, Zenon
    <3>. QED
      BY <1>4, <1>5, <1>6, <2>1, <3>1 DEF Moves, Pending, Types
<1>. QED
  BY <1>7, <1>8 DEF Settle

LEMMA MovedCalls ==
  ASSUME Types, NEW c \in 1..Len(calls), NEW call, Moves(c, call)
  PROVE  /\ calls' \in Seq(Call) /\ Len(calls') = Len(calls) /\ Len(calls) \in Nat
         /\ \A d \in 1..Len(calls) : calls'[d] = IF d = c THEN call ELSE calls[d]
         /\ call.field \in Fields
<1>1. calls \in Seq(Call) /\ call \in Call /\ calls' = [calls EXCEPT ![c] = call]
  BY DEF Types, Moves
<1>. QED
  BY <1>1 DEF Call

LEMMA MoveKeepsInv ==
  ASSUME Inv, NEW c \in 1..Len(calls), NEW call, Moves(c, call),
         UNCHANGED <<situation, confirming, sequence>>,
         Pending(call) => override' = override,
         server' \in {Null} \cup Decision, answers' \in Nat,
         override' \in {NoOverride} \cup Decision
  PROVE  Inv'
<1>1. Types'
  BY MovedCalls DEF Inv, Types, Moves
<1>2. LastInv'
  <2>1. LastInv /\ calls # <<>> /\ calls' # <<>> /\ Len(calls) \in 1..Len(calls)
    BY MovedCalls DEF Inv, Types
  <2>2. IsCurrent(Len(calls))'
    BY <2>1, MovedCalls DEF LastInv, IsCurrent, Moves, AxisOf
  <2>3. CASE c = Len(calls)
    <3>1. LastCall' = call
      BY <2>1, <2>3, MovedCalls DEF LastCall, Inv
    <3>2. call.phase = "rejected" => error' = TRUE
      BY <2>1, <2>3 DEF Moves, Pending, LastInv
    <3>3. call.phase = "rejected" => error'
      BY <3>2, Zenon
    <3>. QED
      BY <2>2, <3>1, <3>3, Zenon DEF LastInv
  <2>4. CASE c # Len(calls)
    <3>1. LastCall' = LastCall
      BY <2>1, <2>4, MovedCalls DEF LastCall, Inv
    <3>2. error' = TRUE \/ error' = error
      BY DEF Moves
    <3>3. error => error'
      BY <3>2, Zenon
    <3>. QED
      BY <2>1, <2>2, <3>1, <3>3, Zenon DEF LastInv
  <2>. QED
    BY <2>3, <2>4
<1>3. OneCallInv'
  <2>. SUFFICES ASSUME OneAxis PROVE OneCallInv'
    BY DEF OneCallInv, OneAxis
  <2>1. c = Len(calls) /\ Pending(calls[c])
        /\ \A d \in 1..Len(calls) : Pending(calls[d]) => d = Len(calls)
        /\ \A field \in Fields : ~Offered(field)
    BY DEF Inv, OneCallInv, Moves
  <2>2. confirming = Null
    BY <2>1 DEF Inv, OneCallInv
  <2>3. CASE Pending(call)
    <3>1. \A field \in Fields : Offered(field)' <=> Offered(field)
      BY <2>3 DEF Offered, Shown, Fetched, InForce
    <3>. QED
      BY <2>1, <2>2, <2>3, <3>1, MovedCalls DEF OneCallInv, Inv
  <2>4. CASE ~Pending(call)
    <3>1. \A d \in 1..Len(calls') : ~Pending(calls'[d])
      BY <2>1, <2>4, MovedCalls DEF Inv
    <3>. QED
      BY <2>2, <3>1 DEF OneCallInv, Pending
  <2>. QED
    BY <2>3, <2>4
<1>. QED
  BY <1>1, <1>2, <1>3 DEF Inv

-----------------------------------------------------------------------------
(* The user. *)

LEMMA ShownType ==
  ASSUME Types
  PROVE  Shown \in {Null} \cup Decision
BY DEF Types, Shown, Fetched, InForce, Situation, Recorded

LEMMA ConfirmYesKeepsInv ==
  ASSUME Inv, ConfirmYes
  PROVE  Inv'
<1>1. Types /\ confirming \in Fields /\ AxisOf(confirming) \in Axes
  BY DEF Inv, Types, ConfirmYes, AxisOf, Axes
<1>2. PICK axis, shown, call :
        /\ axis = AxisOf(confirming) /\ shown = Shown
        /\ call = [ field |-> confirming, mySequence |-> sequence[axis] + 1,
                    current |-> shown, hadOverride |-> override # NoOverride,
                    reply |-> Null, order |-> 0, phase |-> "sent" ]
  OBVIOUS
<1>3. shown \in {Null} \cup Decision /\ axis \in Axes /\ sequence[axis] + 1 \in Nat
  BY <1>1, <1>2, ShownType DEF Types
<1>4. (override # NoOverride) \in BOOLEAN
  BY Zenon
<1>5. call \in Call
  BY <1>1, <1>2, <1>3, <1>4 DEF Call
<1>6. /\ calls' = Append(calls, call)
      /\ sequence' = [sequence EXCEPT ![axis] = sequence[axis] + 1]
      /\ override' = OptimisticDecision(confirming, shown)
      /\ error' = FALSE /\ confirming' = Null
      /\ UNCHANGED <<situation, server, answers>>
  BY <1>2 DEF ConfirmYes
<1>7. override' \in Decision
  BY <1>1, <1>3, <1>6, DecisionTypes
<1>8. /\ calls' \in Seq(Call) /\ Len(calls) \in Nat /\ Len(calls') = Len(calls) + 1
      /\ calls'[Len(calls) + 1] = call
      /\ \A d \in 1..Len(calls) : calls'[d] = calls[d]
  BY <1>1, <1>5, <1>6 DEF Types
<1>9. /\ call.field = confirming /\ call.mySequence = sequence[axis] + 1
      /\ call.phase = "sent" /\ call.current = shown
      /\ call.hadOverride => override # NoOverride
  BY <1>2
<1>10. call.hadOverride => call.current \in Decision
  BY <1>1, <1>2, <1>9 DEF Types, Shown
<1>11. Types'
  <2>1. sequence' \in [Axes -> Nat]
    BY <1>1, <1>3, <1>6 DEF Types
  <2>2. \A d \in 1..Len(calls') :
          /\ calls'[d].phase = "replied" => calls'[d].reply \in Decision
          /\ calls'[d].hadOverride => calls'[d].current \in Decision
    BY <1>1, <1>8, <1>9, <1>10 DEF Types
  <2>. QED
    BY <1>1, <1>6, <1>7, <1>8, <2>1, <2>2 DEF Types
<1>12. LastInv'
  <2>1. LastCall' = call
    BY <1>8 DEF LastCall
  <2>2. IsCurrent(Len(calls))'
    BY <1>1, <1>2, <1>3, <1>6, <1>8, <1>9 DEF IsCurrent, Types
  <2>. QED
    BY <1>9, <2>1, <2>2 DEF LastInv
<1>13. OneCallInv'
  <2>. SUFFICES ASSUME OneAxis PROVE OneCallInv'
    BY <1>6 DEF OneCallInv, OneAxis
  <2>1. HasAxis(axis) /\ \A d \in 1..Len(calls) : ~Pending(calls[d])
    BY <1>1, <1>2 DEF Inv, OneCallInv
  <2>2. \A d \in 1..Len(calls') : Pending(calls'[d]) => d = Len(calls')
    BY <1>8, <2>1
  <2>3. Shown' = override'
    BY <1>7 DEF Shown
  <2>4. axis = "gap" => TargetIn(Shown') # Null
    <3>1. ASSUME axis = "gap"
          PROVE  override'.target = confirming
      BY <1>1, <1>2, <1>6, <3>1 DEF OptimisticDecision
    <3>2. override' # Null /\ confirming # Null
      BY <1>1, <1>7
    <3>. QED
      BY <2>3, <3>1, <3>2 DEF TargetIn
  <2>5. axis = "advisory" => AckedIn(Shown')
    <3>1. ASSUME axis = "advisory"
          PROVE  override'.acked = TRUE
      BY <1>1, <1>2, <1>6, <3>1 DEF OptimisticDecision
    <3>2. override' # Null
      BY <1>7
    <3>. QED
      BY <2>3, <3>1, <3>2 DEF AckedIn
  <2>6. \A field \in Fields : ~Offered(field)'
    BY <1>2, <1>3, <1>6, <2>1, <2>4, <2>5 DEF Offered, HasAxis, OneAxis, AxisOf, Axes
  <2>. QED
    BY <1>6, <2>2, <2>6 DEF OneCallInv
<1>. QED
  BY <1>11, <1>12, <1>13 DEF Inv

(* An open confirm bar changes nothing the invariant reads but itself. *)
LEMMA BarKeepsInv ==
  ASSUME Inv, confirming' \in Fields \cup {Null},
         UNCHANGED <<situation, override, error, sequence, calls, server, answers>>,
         confirming' # Null =>
           /\ Offered(confirming')
           /\ HasAxis(AxisOf(confirming'))
  PROVE  Inv'
<1>1. Types'
  BY DEF Inv, Types
<1>2. LastInv'
  BY DEF Inv, LastInv, LastCall, IsCurrent
<1>3. OneCallInv'
  <2>. SUFFICES ASSUME OneAxis PROVE OneCallInv'
    BY DEF OneCallInv, OneAxis
  <2>1. \A field \in Fields : Offered(field)' <=> Offered(field)
    BY DEF Offered, Shown, Fetched, InForce
  <2>2. confirming' # Null => \A c \in 1..Len(calls) : ~Pending(calls[c])
    BY DEF Inv, OneCallInv
  <2>. QED
    BY <2>1, <2>2 DEF Inv, OneCallInv, HasAxis, Pending
<1>. QED
  BY <1>1, <1>2, <1>3 DEF Inv

-----------------------------------------------------------------------------
(* The invariant, and the two properties. *)

LEMMA InitInv == Init => Inv
<1>. SUFFICES ASSUME Init PROVE Inv
  OBVIOUS
<1>1. Types
  BY DEF Init, Types, Situation, Recorded
<1>2. LastInv /\ OneCallInv
  BY DEF Init, LastInv, OneCallInv
<1>. QED
  BY <1>1, <1>2 DEF Inv

LEMMA NextKeepsInv == Inv /\ [Next]_vars => Inv'
<1>. SUFFICES ASSUME Inv, [Next]_vars PROVE Inv'
  OBVIOUS
<1>1. ASSUME NEW field \in Fields, OpenConfirm(field) PROVE Inv'
  <2>1. /\ confirming' = field /\ Offered(field)
        /\ UNCHANGED <<situation, override, error, sequence, calls, server, answers>>
    BY <1>1 DEF OpenConfirm
  <2>2. HasAxis(AxisOf(field))
    BY <2>1 DEF Offered, HasAxis, AxisOf
  <2>. QED
    BY <2>1, <2>2, BarKeepsInv
<1>2. CASE ConfirmNo
  BY <1>2, BarKeepsInv DEF ConfirmNo
<1>3. CASE ConfirmYes
  BY <1>3, ConfirmYesKeepsInv
<1>4. ASSUME NEW c \in 1..Len(calls), Network(c) PROVE Inv'
  BY <1>4, NetworkMoves, MoveKeepsInv DEF Inv, Types
<1>5. ASSUME NEW c \in 1..Len(calls), Settle(c) PROVE Inv'
  BY <1>5, SettleMoves, MoveKeepsInv DEF Inv, Types
<1>6. CASE UNCHANGED vars
  BY <1>6, BarKeepsInv DEF vars, Inv, Types, LastInv, LastCall, IsCurrent, OneCallInv,
     OneAxis, HasAxis, Offered, Shown, Fetched, InForce
<1>. QED
  BY <1>1, <1>2, <1>3, <1>4, <1>5, <1>6 DEF Next

LEMMA InvHolds == Spec => []Inv
BY InitInv, NextKeepsInv, PTL DEF Spec

(* useOptimisticDecisions.ts, DecisionActions.tsx: on a row with buttons   *)
(* of one axis no second request of it is ever fired while one is out.     *)
THEOREM OneCallPerAxisHolds == Spec => []OneCallPerAxis
<1>1. Inv => OneCallPerAxis
  BY DEF Inv, OneCallInv, OneAxis, OneCallPerAxis, InFlight, Pending
<1>. QED
  BY <1>1, InvHolds, PTL

(* useOptimisticDecisions.ts, apply: when the last call of the session     *)
(* failed, its error is on the row, whatever the order of the settlements. *)
THEOREM FailureReportedHolds == Spec => []FailureReported
<1>1. Inv => FailureReported
  BY Zenon DEF Inv, LastInv, LastCall, FailureReported
<1>. QED
  BY <1>1, InvHolds, PTL


-----------------------------------------------------------------------------
(* What each step of a call changes. *)

(* The number of requests served, the order they were served in and what   *)
(* each of them left.                                                      *)
CallServed(call, count, row) ==
  /\ call.order \in 0..count
  /\ call.order = 0 <=> call.reply = Null
  /\ call.phase = "sent" => call.order = 0
  /\ call.phase \in {"replied", "confirmed"} => call.order # 0
  /\ call.order # 0 /\ call.order = count => call.reply = row

ServedInv ==
  /\ answers = Cardinality({c \in 1..Len(calls) : calls[c].order # 0})
  /\ \A c \in 1..Len(calls) : CallServed(calls[c], answers, server)
  /\ \A c, d \in 1..Len(calls) : calls[c].order = calls[d].order => c = d \/ calls[c].order = 0
  /\ \A n \in 1..answers : \E c \in 1..Len(calls) : calls[c].order = n
  /\ answers = 0 => server = situation.recorded

BoundsInv ==
  /\ situation \in Situations
  /\ error \in BOOLEAN
  /\ failures \in 0..situation.losses
  /\ sequence["gap"] + sequence["advisory"] = Len(calls)
  /\ Len(calls) <= MaxCalls
  /\ confirming # Null => Len(calls) < MaxCalls

Reliable == situation.inOrder /\ situation.losses = 0

InOrderInv ==
  Reliable =>
    /\ \A c \in 1..Len(calls) : calls[c].phase \in {"sent", "replied", "confirmed"}
    /\ \A c, d \in 1..Len(calls) : c < d =>
         /\ calls[c].phase = "sent" => calls[d].phase = "sent"
         /\ calls[d].phase = "confirmed" => calls[c].phase = "confirmed"
         /\ calls[d].order # 0 => calls[c].order < calls[d].order
    /\ calls = <<>> => override = NoOverride
    /\ calls # <<>> /\ LastCall.phase = "confirmed" => override = LastCall.reply

Lost == \E c \in 1..Len(calls) : AnswerLost(c)

RollbackInv ==
  \A c \in 1..Len(calls) : ~calls[c].hadOverride => calls[c].current = Fetched

OneViewInv ==
  OneAxis =>
    /\ Quiescent => Lost \/ SameDecision(Shown, InForce(server))
    /\ \A c \in InFlight :
         /\ calls[c].reply = Null => Lost \/ SameDecision(calls[c].current, InForce(server))
         /\ calls[c].phase = "replied" => calls[c].reply = server

ViewInv == OneAxis \/ Reliable => ViewMatchesRecord

(* Call c moves to a phase, with a reply and its place in the order of the *)
(* served requests; nothing else of any call changes.                      *)
StepOf(c, phase, reply, order) ==
  /\ calls' \in Seq(Call) /\ Len(calls') = Len(calls)
  /\ \A d \in 1..Len(calls) : d # c => calls'[d] = calls[d]
  /\ calls'[c].field = calls[c].field /\ calls'[c].mySequence = calls[c].mySequence
  /\ calls'[c].current = calls[c].current /\ calls'[c].hadOverride = calls[c].hadOverride
  /\ calls'[c].phase = phase /\ calls'[c].reply = reply /\ calls'[c].order = order

LEMMA CallReplaced ==
  ASSUME Types, NEW c \in 1..Len(calls), NEW call \in Call,
         calls' = [calls EXCEPT ![c] = call]
  PROVE  /\ calls' \in Seq(Call) /\ Len(calls') = Len(calls) /\ calls'[c] = call
         /\ \A d \in 1..Len(calls) : d # c => calls'[d] = calls[d]
<1>1. calls \in Seq(Call)
  BY DEF Types
<1>. QED
  BY <1>1

LEMMA CallStep ==
  ASSUME Types, NEW c \in 1..Len(calls),
         NEW phase \in {"sent", "replied", "failed", "confirmed", "rejected"},
         NEW reply \in {Null} \cup Decision, NEW order \in Nat,
         NEW call,
         call = [calls[c] EXCEPT !.phase = phase, !.reply = reply, !.order = order],
         calls' = [calls EXCEPT ![c] = call]
  PROVE  StepOf(c, phase, reply, order)
<1>1. calls \in Seq(Call) /\ calls[c] \in Call
  BY DEF Types
<1>2. /\ call \in Call
      /\ call.field = calls[c].field /\ call.mySequence = calls[c].mySequence
      /\ call.current = calls[c].current /\ call.hadOverride = calls[c].hadOverride
      /\ call.phase = phase /\ call.reply = reply /\ call.order = order
  BY <1>1 DEF Call
<1>3. /\ calls' \in Seq(Call) /\ Len(calls') = Len(calls) /\ calls'[c] = call
      /\ \A d \in 1..Len(calls) : d # c => calls'[d] = calls[d]
  BY <1>2, CallReplaced, Zenon
<1>. QED
  BY <1>2, <1>3 DEF StepOf

LEMMA PhaseStep ==
  ASSUME Types, NEW c \in 1..Len(calls),
         NEW phase \in {"sent", "replied", "failed", "confirmed", "rejected"},
         calls' = [calls EXCEPT ![c].phase = phase]
  PROVE  StepOf(c, phase, calls[c].reply, calls[c].order)
<1>1. calls \in Seq(Call) /\ calls[c] \in Call
  BY DEF Types
<1>2. calls[c].reply \in {Null} \cup Decision /\ calls[c].order \in Nat
  BY <1>1 DEF Call
<1>3. [calls[c] EXCEPT !.phase = phase]
        = [calls[c] EXCEPT !.phase = phase, !.reply = calls[c].reply, !.order = calls[c].order]
  BY <1>1 DEF Call
<1>4. PICK call : call = [calls[c] EXCEPT !.phase = phase]
  OBVIOUS
<1>5. /\ calls' = [calls EXCEPT ![c] = call]
      /\ call = [calls[c] EXCEPT !.phase = phase, !.reply = calls[c].reply,
                                !.order = calls[c].order]
  BY <1>3, <1>4
<1>. QED
  BY <1>2, <1>5, CallStep, Zenon

LEMMA ServeStep ==
  ASSUME Types, NEW c \in 1..Len(calls), Serve(c)
  PROVE  /\ StepOf(c, "replied", server', answers + 1)
         /\ server' = Merged(calls[c].field, server) /\ server' \in Decision
         /\ answers' = answers + 1
<1>1. calls[c] \in Call /\ calls[c].field \in Fields
  <2>1. calls[c] \in Call
    BY DEF Types
  <2>. QED
    BY <2>1 DEF Call
<1>2. /\ server' = Merged(calls[c].field, server) /\ answers' = answers + 1
      /\ calls' = [calls EXCEPT ![c] = [calls[c] EXCEPT !.phase = "replied", !.reply = server',
                                                      !.order = answers + 1]]
  BY DEF Serve
<1>3. server' \in Decision /\ answers + 1 \in Nat
  BY <1>1, <1>2, DecisionTypes DEF Types
<1>4. PICK reply, order : reply = server' /\ order = answers + 1
  OBVIOUS
<1>5. PICK call : call = [calls[c] EXCEPT !.phase = "replied", !.reply = reply, !.order = order]
  OBVIOUS
<1>6. calls' = [calls EXCEPT ![c] = call]
  BY <1>2, <1>4, <1>5
<1>7. StepOf(c, "replied", reply, order)
  BY <1>3, <1>4, <1>5, <1>6, CallStep
<1>. QED
  BY <1>2, <1>3, <1>4, <1>7

(* The other steps of a call: its phase alone moves on. *)
LEMMA OtherSteps ==
  ASSUME Types, NEW c \in 1..Len(calls),
         LoseRequest(c) \/ LoseReply(c) \/ Settle(c)
  PROVE  \E phase \in {"failed", "confirmed", "rejected"} :
           /\ StepOf(c, phase, calls[c].reply, calls[c].order)
           /\ phase = "confirmed" <=> Confirmed(c)
           /\ phase = "rejected" <=> Rejected(c)
           /\ UNCHANGED <<server, answers>>
<1>1. ASSUME LoseRequest(c) \/ LoseReply(c) PROVE calls' = [calls EXCEPT ![c].phase = "failed"]
  BY <1>1 DEF LoseRequest, LoseReply
<1>2. ASSUME Confirmed(c) PROVE calls' = [calls EXCEPT ![c].phase = "confirmed"]
  BY <1>2 DEF Confirmed, Settled
<1>3. ASSUME Rejected(c) PROVE calls' = [calls EXCEPT ![c].phase = "rejected"]
  BY <1>3 DEF Rejected, Settled
<1>4. UNCHANGED <<server, answers>>
  BY DEF LoseRequest, LoseReply, Settle, Confirmed, Rejected
<1>5. ASSUME NEW phase \in {"failed", "confirmed", "rejected"},
             NEW other \in {"failed", "confirmed", "rejected"},
             calls' = [calls EXCEPT ![c].phase = phase],
             calls' = [calls EXCEPT ![c].phase = other]
      PROVE  phase = other
  <2>1. StepOf(c, phase, calls[c].reply, calls[c].order)
    BY <1>5, PhaseStep
  <2>2. StepOf(c, other, calls[c].reply, calls[c].order)
    BY <1>5, PhaseStep
  <2>. QED
    BY <2>1, <2>2 DEF StepOf
<1>6. PICK phase \in {"failed", "confirmed", "rejected"} :
        /\ calls' = [calls EXCEPT ![c].phase = phase]
        /\ phase = "confirmed" <=> Confirmed(c)
        /\ phase = "rejected" <=> Rejected(c)
  BY <1>1, <1>2, <1>3, <1>5 DEF Settle
<1>7. StepOf(c, phase, calls[c].reply, calls[c].order)
  BY <1>6, PhaseStep
<1>. QED
  BY <1>4, <1>6, <1>7

(* A confirmed bar appends the call apply() makes. *)
LEMMA ApplyStep ==
  ASSUME Types, ConfirmYes
  PROVE  /\ calls' \in Seq(Call) /\ Len(calls) \in Nat /\ Len(calls') = Len(calls) + 1
         /\ \A d \in 1..Len(calls) : calls'[d] = calls[d]
         /\ LET call == calls'[Len(calls) + 1]
            IN  /\ call.phase = "sent" /\ call.reply = Null /\ call.order = 0
                /\ call.current = Shown
                /\ call.hadOverride <=> override # NoOverride
         /\ sequence'["gap"] + sequence'["advisory"]
              = sequence["gap"] + sequence["advisory"] + 1
<1>1. confirming \in Fields /\ AxisOf(confirming) \in Axes
  BY DEF Types, ConfirmYes, AxisOf, Axes
<1>2. PICK axis, shown, had, call :
        /\ axis = AxisOf(confirming) /\ shown = Shown /\ had = (override # NoOverride)
        /\ call = [ field |-> confirming, mySequence |-> sequence[axis] + 1,
                    current |-> shown, hadOverride |-> had,
                    reply |-> Null, order |-> 0, phase |-> "sent" ]
  OBVIOUS
<1>3. shown \in {Null} \cup Decision /\ axis \in Axes /\ sequence[axis] + 1 \in Nat
  BY <1>1, <1>2, ShownType DEF Types
<1>4. had \in BOOLEAN
  BY <1>2, Zenon
<1>5. call \in Call
  BY <1>1, <1>2, <1>3, <1>4 DEF Call
<1>6. /\ calls' = Append(calls, call)
      /\ sequence' = [sequence EXCEPT ![axis] = sequence[axis] + 1]
  BY <1>2 DEF ConfirmYes
<1>7. /\ calls' \in Seq(Call) /\ Len(calls) \in Nat /\ Len(calls') = Len(calls) + 1
      /\ calls'[Len(calls) + 1] = call
      /\ \A d \in 1..Len(calls) : calls'[d] = calls[d]
  BY <1>5, <1>6 DEF Types
<1>8. /\ call.phase = "sent" /\ call.reply = Null /\ call.order = 0
      /\ call.current = shown /\ call.hadOverride = had
  BY <1>2
<1>9. had <=> override # NoOverride
  BY <1>2, Zenon
<1>10. sequence'["gap"] + sequence'["advisory"] = sequence["gap"] + sequence["advisory"] + 1
  BY <1>3, <1>6 DEF Types, Axes
<1>. QED
  BY <1>2, <1>7, <1>8, <1>9, <1>10, Zenon

-----------------------------------------------------------------------------
(* The requests served. *)

LEMMA ServedKept ==
  ASSUME Types, ServedInv, [Next]_vars
  PROVE  ServedInv'
<1>1. /\ Len(calls) \in Nat
      /\ \A c \in 1..Len(calls) : /\ calls[c].order \in 0..answers
                                  /\ calls[c].reply \in {Null} \cup Decision
  <2>1. \A c \in 1..Len(calls) : calls[c] \in Call
    BY DEF Types
  <2>. QED
    BY <2>1 DEF Types, ServedInv, CallServed, Call
<1>2. CASE UNCHANGED <<situation, calls, server, answers>>
  BY <1>2 DEF ServedInv
<1>3. CASE ConfirmYes
  <2>1. UNCHANGED <<situation, server, answers>>
    BY <1>3 DEF ConfirmYes
  <2>2. /\ Len(calls') = Len(calls) + 1
        /\ \A d \in 1..Len(calls) : calls'[d] = calls[d]
        /\ calls'[Len(calls) + 1].phase = "sent" /\ calls'[Len(calls) + 1].reply = Null
        /\ calls'[Len(calls) + 1].order = 0
    BY <1>3, ApplyStep
  <2>3. {c \in 1..Len(calls') : calls'[c].order # 0} = {c \in 1..Len(calls) : calls[c].order # 0}
    BY <1>1, <2>2
  <2>4. \A n \in 1..answers' : \E c \in 1..Len(calls') : calls'[c].order = n
    BY <1>1, <2>1, <2>2 DEF ServedInv
  <2>5. \A c, d \in 1..Len(calls') :
          calls'[c].order = calls'[d].order => c = d \/ calls'[c].order = 0
    BY <1>1, <2>2 DEF ServedInv
  <2>6. \A c \in 1..Len(calls') : CallServed(calls'[c], answers, server)
    <3>1. CallServed(calls'[Len(calls) + 1], answers, server)
      BY <2>2 DEF CallServed, Types
    <3>. QED
      BY <1>1, <2>2, <3>1 DEF ServedInv
  <2>. QED
    BY <2>1, <2>3, <2>4, <2>5, <2>6 DEF ServedInv
<1>4. ASSUME NEW c \in 1..Len(calls), LoseRequest(c) \/ LoseReply(c) \/ Settle(c)
      PROVE  ServedInv'
  <2>1. PICK phase \in {"failed", "confirmed", "rejected"} :
          /\ StepOf(c, phase, calls[c].reply, calls[c].order)
          /\ phase = "confirmed" <=> Confirmed(c)
          /\ UNCHANGED <<server, answers>>
    BY <1>4, OtherSteps
  <2>2. phase = "confirmed" => calls[c].phase = "replied"
    BY <2>1 DEF Confirmed
  <2>3. /\ Len(calls') = Len(calls) /\ situation' = situation
        /\ \A d \in 1..Len(calls) :
             /\ calls'[d].order = calls[d].order /\ calls'[d].reply = calls[d].reply
             /\ calls'[d].phase = calls[d].phase \/ (d = c /\ calls'[d].phase = phase)
    BY <1>4, <2>1 DEF StepOf, LoseRequest, LoseReply, Settle, Confirmed, Rejected
  <2>4. {d \in 1..Len(calls') : calls'[d].order # 0} = {d \in 1..Len(calls) : calls[d].order # 0}
    BY <2>3
  <2>5. ASSUME NEW d \in 1..Len(calls) PROVE CallServed(calls'[d], answers, server)
    <3>1. CallServed(calls[d], answers, server)
      BY DEF ServedInv
    <3>2. calls'[d].phase \in {"replied", "confirmed"}
            => calls[d].phase \in {"replied", "confirmed"}
      BY <2>2, <2>3
    <3>3. calls'[d].phase = "sent" => calls[d].phase = "sent"
      BY <2>3
    <3>. QED
      BY <2>3, <3>1, <3>2, <3>3 DEF CallServed
  <2>6. \A n \in 1..answers : \E d \in 1..Len(calls') : calls'[d].order = n
    BY <2>3 DEF ServedInv
  <2>7. \A d, e \in 1..Len(calls') :
          calls'[d].order = calls'[e].order => d = e \/ calls'[d].order = 0
    BY <2>3 DEF ServedInv
  <2>. QED
    BY <2>1, <2>3, <2>4, <2>5, <2>6, <2>7 DEF ServedInv
<1>5. ASSUME NEW c \in 1..Len(calls), Serve(c) PROVE ServedInv'
  <2>1. /\ StepOf(c, "replied", server', answers + 1) /\ server' \in Decision
        /\ answers' = answers + 1 /\ answers \in Nat
    BY <1>5, ServeStep DEF Types
  <2>2. /\ Len(calls') = Len(calls)
        /\ \A d \in 1..Len(calls) : d # c => calls'[d] = calls[d]
        /\ calls'[c].phase = "replied" /\ calls'[c].reply = server'
        /\ calls'[c].order = answers + 1 /\ calls[c].order = 0
    BY <1>5, <2>1 DEF StepOf, Serve, ServedInv, CallServed
  <2>. DEFINE served == {d \in 1..Len(calls) : calls[d].order # 0}
  <2>3. {d \in 1..Len(calls') : calls'[d].order # 0} = served \cup {c}
    BY <2>1, <2>2
  <2>4. IsFiniteSet(served) /\ c \notin served
    <3>1. IsFiniteSet(1..Len(calls))
      BY <1>1, FS_Interval
    <3>. QED
      BY <2>2, <3>1, FS_Subset
  <2>5. answers' = Cardinality({d \in 1..Len(calls') : calls'[d].order # 0})
    <3>1. answers = Cardinality(served)
      BY DEF ServedInv
    <3>. HIDE DEF served
    <3>. QED
      BY <2>1, <2>3, <2>4, <3>1, FS_AddElement
  <2>6. ASSUME NEW d \in 1..Len(calls') PROVE CallServed(calls'[d], answers', server')
    <3>1. CASE d = c
      BY <2>1, <2>2, <3>1 DEF CallServed
    <3>2. CASE d # c
      <4>1. calls'[d] = calls[d] /\ CallServed(calls[d], answers, server)
        BY <2>2, <3>2 DEF ServedInv
      <4>. QED
        BY <2>1, <4>1 DEF CallServed
    <3>. QED
      BY <3>1, <3>2
  <2>7. ASSUME NEW d \in 1..Len(calls'), NEW e \in 1..Len(calls'),
               calls'[d].order = calls'[e].order
        PROVE  d = e \/ calls'[d].order = 0
    <3>1. calls[d].order # answers + 1 /\ calls[e].order # answers + 1
      BY <1>1, <2>1, <2>2
    <3>2. calls[d].order = calls[e].order => d = e \/ calls[d].order = 0
      BY <2>2 DEF ServedInv
    <3>. QED
      BY <2>2, <2>7, <3>1, <3>2
  <2>8. \A n \in 1..answers' : \E d \in 1..Len(calls') : calls'[d].order = n
    <3>1. ASSUME NEW n \in 1..answers' PROVE \E d \in 1..Len(calls') : calls'[d].order = n
      <4>1. CASE n = answers + 1
        BY <2>2, <4>1
      <4>2. CASE n # answers + 1
        <5>. n \in 1..answers
          BY <2>1, <4>2
        <5>1. PICK d \in 1..Len(calls) : calls[d].order = n
          BY DEF ServedInv
        <5>2. d # c
          BY <2>2, <5>1
        <5>. QED
          BY <2>2, <5>1, <5>2
      <4>. QED
        BY <4>1, <4>2
    <3>. QED
      BY <3>1
  <2>9. answers' # 0
    BY <2>1
  <2>. QED
    BY <2>5, <2>6, <2>7, <2>8, <2>9 DEF ServedInv
<1>6. ASSUME NEW field \in Fields, OpenConfirm(field) PROVE ServedInv'
  BY <1>2, <1>6 DEF OpenConfirm
<1>7. CASE ConfirmNo \/ UNCHANGED vars
  BY <1>2, <1>7 DEF ConfirmNo, vars
<1>. QED
  BY <1>3, <1>4, <1>5, <1>6, <1>7 DEF Next, Network

LEMMA BoundsKept ==
  ASSUME Types, BoundsInv, [Next]_vars
  PROVE  BoundsInv'
<1>. USE DEF BoundsInv
<1>1. /\ Len(calls) \in Nat /\ sequence["gap"] \in Nat /\ sequence["advisory"] \in Nat
      /\ situation.losses \in Nat
  BY DEF Types, Axes, Situation
<1>2. CASE ConfirmYes
  <2>1. UNCHANGED <<situation, failures>> /\ confirming' = Null /\ error' = FALSE
        /\ Len(calls) < MaxCalls
    BY <1>2 DEF ConfirmYes
  <2>2. /\ Len(calls') = Len(calls) + 1
        /\ sequence'["gap"] + sequence'["advisory"]
             = sequence["gap"] + sequence["advisory"] + 1
    BY <1>2, ApplyStep
  <2>3. sequence'["gap"] + sequence'["advisory"] = Len(calls') /\ Len(calls') <= MaxCalls
    BY <1>1, <2>1, <2>2
  <2>4. error' \in BOOLEAN
    BY <2>1, Zenon
  <2>. QED
    BY <2>1, <2>3, <2>4
<1>3. ASSUME NEW field \in Fields, OpenConfirm(field) PROVE BoundsInv'
  BY <1>3 DEF OpenConfirm
<1>4. ASSUME NEW c \in 1..Len(calls), Network(c) \/ Settle(c) PROVE BoundsInv'
  <2>1. Len(calls') = Len(calls)
    BY <1>4, ServeStep, OtherSteps DEF Network, StepOf
  <2>2. /\ UNCHANGED <<situation, confirming, sequence>>
        /\ failures' = failures \/ (failures < situation.losses /\ failures' = failures + 1)
    BY <1>4 DEF Network, Serve, LoseRequest, LoseReply, Settle, Confirmed, Rejected
  <2>3. error' \in BOOLEAN
    <3>1. error' = error \/ error' = TRUE
      BY <1>4, Zenon DEF Network, Serve, LoseRequest, LoseReply, Settle, Confirmed, Rejected
    <3>. QED
      BY <3>1, Zenon
  <2>4. failures' \in 0..situation'.losses
    BY <1>1, <2>2
  <2>. QED
    BY <2>1, <2>2, <2>3, <2>4
<1>5. CASE ConfirmNo
  BY <1>5 DEF ConfirmNo
<1>6. CASE UNCHANGED vars
  BY <1>6 DEF vars
<1>. QED
  BY <1>2, <1>3, <1>4, <1>5, <1>6 DEF Next

LEMMA CountsInvariant == Spec => [](Inv /\ ServedInv /\ BoundsInv)
<1>1. Init => ServedInv /\ BoundsInv
  <2>. SUFFICES ASSUME Init PROVE ServedInv /\ BoundsInv
    OBVIOUS
  <2>1. {c \in 1..Len(calls) : calls[c].order # 0} = {}
    BY DEF Init
  <2>2. ServedInv
    BY <2>1, FS_EmptySet DEF Init, ServedInv, CallServed
  <2>3. error \in BOOLEAN
    BY Zenon DEF Init
  <2>4. BoundsInv
    <3>1. /\ situation \in Situations /\ calls = <<>> /\ failures = 0 /\ confirming = Null
          /\ sequence = [axis \in Axes |-> 0]
      BY DEF Init
    <3>2. 0 \in 0..situation.losses
      BY <3>1 DEF Situation
    <3>3. sequence["gap"] = 0 /\ sequence["advisory"] = 0
      BY <3>1 DEF Axes
    <3>. QED
      BY <2>3, <3>1, <3>2, <3>3 DEF BoundsInv
  <2>. QED
    BY <2>2, <2>4
<1>2. Inv /\ ServedInv /\ BoundsInv /\ [Next]_vars => ServedInv' /\ BoundsInv'
  BY ServedKept, BoundsKept DEF Inv
<1>. QED
  BY <1>1, <1>2, InvHolds, PTL DEF Spec

(* The counters of the row: each call of apply has a number of its axis    *)
(* and at most one answer, and no more is lost than the network may lose.  *)
THEOREM TypeCorrect == Spec => []TypeOK
<1>1. Inv /\ ServedInv /\ BoundsInv => TypeOK
  <2>. SUFFICES ASSUME Inv, ServedInv, BoundsInv PROVE TypeOK
    OBVIOUS
  <2>1. Types /\ Len(calls) \in Nat
    BY DEF Inv, Types
  <2>2. answers \in 0..MaxCalls
    <3>. DEFINE served == {c \in 1..Len(calls) : calls[c].order # 0}
    <3>1. IsFiniteSet(1..Len(calls)) /\ Cardinality(1..Len(calls)) = Len(calls)
      BY <2>1, FS_Interval
    <3>2. Cardinality(served) <= Len(calls)
      BY <3>1, FS_Subset
    <3>3. answers = Cardinality(served)
      BY DEF ServedInv
    <3>. HIDE DEF served
    <3>. QED
      BY <2>1, <3>2, <3>3 DEF Types, BoundsInv
  <2>3. sequence \in [Axes -> 0..MaxCalls]
    BY <2>1 DEF Types, BoundsInv, Axes
  <2>. QED
    BY <2>1, <2>2, <2>3 DEF TypeOK, Types, BoundsInv
<1>. QED
  BY <1>1, CountsInvariant, PTL

-----------------------------------------------------------------------------
(* What the row shows, once every request settled. *)

LEMMA InOrderKept ==
  ASSUME Inv, ServedInv, BoundsInv, InOrderInv, [Next]_vars
  PROVE  InOrderInv'
<1>1. situation' = situation
  BY DEF Next, OpenConfirm, ConfirmNo, ConfirmYes, Network, Serve, LoseRequest, LoseReply,
         Settle, Confirmed, Rejected, vars
<1>. SUFFICES ASSUME Reliable PROVE InOrderInv'
  BY <1>1 DEF InOrderInv, Reliable
<1>2. /\ Types /\ calls \in Seq(Call) /\ Len(calls) \in Nat /\ answers \in Nat
      /\ failures = 0
      /\ \A c \in 1..Len(calls) : CallServed(calls[c], answers, server)
  BY DEF Inv, Types, ServedInv, BoundsInv, Reliable
<1>3. /\ \A c \in 1..Len(calls) : calls[c].phase \in {"sent", "replied", "confirmed"}
      /\ \A c, d \in 1..Len(calls) : c < d =>
           /\ calls[c].phase = "sent" => calls[d].phase = "sent"
           /\ calls[d].phase = "confirmed" => calls[c].phase = "confirmed"
           /\ calls[d].order # 0 => calls[c].order < calls[d].order
      /\ calls = <<>> => override = NoOverride
      /\ calls # <<>> /\ LastCall.phase = "confirmed" => override = LastCall.reply
  BY DEF InOrderInv
<1>4. CASE UNCHANGED <<calls, override>>
  BY <1>3, <1>4 DEF InOrderInv, LastCall
<1>5. CASE ConfirmYes
  <2>1. /\ Len(calls') = Len(calls) + 1
        /\ \A d \in 1..Len(calls) : calls'[d] = calls[d]
        /\ calls'[Len(calls) + 1].phase = "sent" /\ calls'[Len(calls) + 1].order = 0
    BY <1>2, <1>5, ApplyStep
  <2>2. \A c \in 1..Len(calls') : calls'[c].phase \in {"sent", "replied", "confirmed"}
    BY <1>2, <1>3, <2>1
  <2>3. ASSUME NEW c \in 1..Len(calls'), NEW d \in 1..Len(calls'), c < d
        PROVE  /\ calls'[c].phase = "sent" => calls'[d].phase = "sent"
               /\ calls'[d].phase = "confirmed" => calls'[c].phase = "confirmed"
               /\ calls'[d].order # 0 => calls'[c].order < calls'[d].order
    <3>1. CASE d = Len(calls) + 1
      BY <2>1, <3>1
    <3>2. CASE d # Len(calls) + 1
      <4>1. c \in 1..Len(calls) /\ d \in 1..Len(calls)
        BY <1>2, <2>1, <2>3, <3>2
      <4>. QED
        BY <1>3, <2>1, <2>3, <4>1
    <3>. QED
      BY <3>1, <3>2
  <2>4. calls' # <<>> /\ LastCall'.phase # "confirmed"
    BY <1>2, <2>1 DEF LastCall
  <2>. QED
    BY <2>2, <2>3, <2>4 DEF InOrderInv
<1>6. ASSUME NEW c \in 1..Len(calls), Serve(c) PROVE InOrderInv'
  <2>1. /\ StepOf(c, "replied", server', answers + 1) /\ override' = override
        /\ calls[c].phase = "sent" /\ \A d \in 1..(c-1) : calls[d].phase # "sent"
    BY <1>2, <1>6, ServeStep DEF Serve, Reliable
  <2>2. /\ Len(calls') = Len(calls)
        /\ \A d \in 1..Len(calls) : d # c => calls'[d] = calls[d]
        /\ calls'[c].phase = "replied" /\ calls'[c].order = answers + 1
    BY <2>1 DEF StepOf
  <2>3. \A d \in 1..Len(calls) : /\ calls[d].order \in 0..answers
                                 /\ calls[d].phase = "sent" => calls[d].order = 0
    BY <1>2 DEF CallServed
  <2>4. ASSUME NEW d \in 1..Len(calls), NEW e \in 1..Len(calls), d < e
        PROVE  /\ calls'[d].phase = "sent" => calls'[e].phase = "sent"
               /\ calls'[e].phase = "confirmed" => calls'[d].phase = "confirmed"
               /\ calls'[e].order # 0 => calls'[d].order < calls'[e].order
    <3>1. CASE d = c
      <4>1. calls'[e].phase = "sent" /\ calls'[e].order = 0
        BY <1>3, <2>1, <2>2, <2>3, <2>4, <3>1
      <4>. QED
        BY <4>1
    <3>2. CASE e = c
      <4>1. calls'[d] = calls[d] /\ calls[d].phase # "sent"
        BY <1>2, <2>1, <2>2, <2>4, <3>2
      <4>. QED
        BY <1>2, <2>2, <2>3, <3>2, <4>1
    <3>3. CASE d # c /\ e # c
      BY <1>3, <2>2, <2>4, <3>3
    <3>. QED
      BY <3>1, <3>2, <3>3
  <2>5. calls # <<>> /\ calls' # <<>> /\ LastCall'.phase # "confirmed"
    <3>1. Len(calls) \in 1..Len(calls)
      BY <1>2
    <3>2. calls[Len(calls)].phase = "sent"
      BY <1>2, <1>3, <2>1, <3>1
    <3>3. calls'[Len(calls)].phase # "confirmed"
      BY <2>2, <3>1, <3>2
    <3>. QED
      BY <2>1, <2>2, <3>1, <3>3 DEF LastCall, StepOf
  <2>6. \A d \in 1..Len(calls) : calls'[d].phase \in {"sent", "replied", "confirmed"}
    BY <1>3, <2>2
  <2>. QED
    BY <2>2, <2>4, <2>5, <2>6 DEF InOrderInv
<1>7. ASSUME NEW c \in 1..Len(calls), Confirmed(c) PROVE InOrderInv'
  <2>1. /\ StepOf(c, "confirmed", calls[c].reply, calls[c].order)
        /\ calls[c].phase = "replied"
        /\ override' = IF IsCurrent(c) THEN calls[c].reply ELSE override
        /\ \A d \in 1..Len(calls) : calls[d].phase = "replied" => calls[d].order >= calls[c].order
    BY <1>2, <1>7, PhaseStep DEF Confirmed, Settled, InTurn, InFlight, Reliable
  <2>2. /\ Len(calls') = Len(calls)
        /\ \A d \in 1..Len(calls) : d # c => calls'[d] = calls[d]
        /\ calls'[c].phase = "confirmed" /\ calls'[c].order = calls[c].order
        /\ calls'[c].reply = calls[c].reply
    BY <2>1 DEF StepOf
  <2>3. \A d \in 1..Len(calls) : calls[d].order \in Nat
    BY <1>2 DEF CallServed
  <2>4. ASSUME NEW d \in 1..Len(calls), d < c PROVE calls[d].phase = "confirmed"
    <3>1. calls[c].order # 0
      BY <1>2, <2>1 DEF CallServed
    <3>2. calls[d].order < calls[c].order /\ calls[d].phase # "sent"
      BY <1>3, <2>1, <2>4, <3>1
    <3>3. calls[d].phase # "replied"
      BY <2>1, <2>3, <3>2
    <3>. QED
      BY <1>3, <3>2, <3>3
  <2>5. ASSUME NEW d \in 1..Len(calls), NEW e \in 1..Len(calls), d < e
        PROVE  /\ calls'[d].phase = "sent" => calls'[e].phase = "sent"
               /\ calls'[e].phase = "confirmed" => calls'[d].phase = "confirmed"
               /\ calls'[e].order # 0 => calls'[d].order < calls'[e].order
    <3>1. calls'[d].order = calls[d].order /\ calls'[e].order = calls[e].order
      BY <2>2
    <3>2. CASE e = c
      <4>1. calls'[d].phase = "confirmed"
        BY <2>2, <2>4, <2>5, <3>2
      <4>. QED
        BY <1>3, <2>5, <3>1, <4>1
    <3>3. CASE e # c
      BY <1>3, <2>2, <2>5, <3>1, <3>3
    <3>. QED
      BY <3>2, <3>3
  <2>6. calls' # <<>> /\ (LastCall'.phase = "confirmed" => override' = LastCall'.reply)
    <3>1. Len(calls) \in 1..Len(calls) /\ calls # <<>> /\ calls' # <<>>
      BY <1>2, <2>1, <2>2 DEF StepOf
    <3>2. CASE c = Len(calls)
      <4>1. IsCurrent(c)
        BY <3>1, <3>2 DEF Inv, LastInv
      <4>. QED
        BY <2>1, <2>2, <3>1, <3>2, <4>1 DEF LastCall
    <3>3. CASE c # Len(calls)
      <4>1. calls'[Len(calls)].phase # "confirmed"
        BY <1>2, <1>3, <2>1, <2>2, <3>1, <3>3
      <4>. QED
        BY <2>2, <3>1, <4>1 DEF LastCall
    <3>. QED
      BY <3>2, <3>3
  <2>7. \A d \in 1..Len(calls) : calls'[d].phase \in {"sent", "replied", "confirmed"}
    BY <1>3, <2>2
  <2>. QED
    BY <2>2, <2>5, <2>6, <2>7 DEF InOrderInv
<1>8. ASSUME NEW c \in 1..Len(calls), LoseRequest(c) \/ LoseReply(c) \/ Rejected(c)
      PROVE  FALSE
  BY <1>2, <1>3, <1>8 DEF LoseRequest, LoseReply, Rejected, Reliable
<1>9. ASSUME NEW field \in Fields, OpenConfirm(field) PROVE InOrderInv'
  BY <1>4, <1>9 DEF OpenConfirm
<1>10. CASE ConfirmNo \/ UNCHANGED vars
  BY <1>4, <1>10 DEF ConfirmNo, vars
<1>. QED
  BY <1>5, <1>6, <1>7, <1>8, <1>9, <1>10 DEF Next, Network, Settle

(* The call a lost answer belongs to stays the last to know of it, until a *)
(* later call is confirmed.                                                *)
LEMMA LostKept ==
  ASSUME Types, Lost, NEW c \in 1..Len(calls), Pending(calls[c]),
         NEW phase \in {"replied", "failed", "rejected"}, NEW reply, NEW order,
         StepOf(c, phase, reply, order)
  PROVE  Lost'
<1>1. PICK d \in 1..Len(calls) : AnswerLost(d)
  BY DEF Lost
<1>2. d # c
  BY <1>1 DEF AnswerLost, Pending
<1>3. AnswerLost(d)'
  <2>1. \A e \in (d+1)..Len(calls) : calls'[e].phase # "confirmed"
    BY <1>1 DEF AnswerLost, StepOf
  <2>. QED
    BY <1>1, <1>2, <2>1 DEF AnswerLost, StepOf
<1>. QED
  BY <1>3 DEF Lost, StepOf

LEMMA RollbackKept ==
  ASSUME Types, RollbackInv, [Next]_vars
  PROVE  RollbackInv'
<1>1. Fetched' = Fetched
  BY DEF Next, OpenConfirm, ConfirmNo, ConfirmYes, Network, Serve, LoseRequest, LoseReply,
         Settle, Confirmed, Rejected, vars, Fetched, InForce
<1>2. CASE UNCHANGED calls
  BY <1>1, <1>2 DEF RollbackInv
<1>3. CASE ConfirmYes
  <2>1. /\ Len(calls) \in Nat /\ Len(calls') = Len(calls) + 1
        /\ \A d \in 1..Len(calls) : calls'[d] = calls[d]
        /\ calls'[Len(calls) + 1].current = Shown
        /\ calls'[Len(calls) + 1].hadOverride <=> override # NoOverride
    BY <1>3, ApplyStep
  <2>2. ~calls'[Len(calls) + 1].hadOverride => calls'[Len(calls) + 1].current = Fetched
    BY <2>1 DEF Shown
  <2>3. ASSUME NEW c \in 1..Len(calls'), ~calls'[c].hadOverride
        PROVE  calls'[c].current = Fetched
    <3>1. CASE c = Len(calls) + 1
      BY <2>2, <2>3, <3>1
    <3>2. CASE c # Len(calls) + 1
      <4>1. c \in 1..Len(calls) /\ calls'[c] = calls[c]
        BY <2>1, <3>2
      <4>. QED
        BY <2>3, <4>1 DEF RollbackInv
    <3>. QED
      BY <3>1, <3>2
  <2>. QED
    BY <1>1, <2>3 DEF RollbackInv
<1>4. ASSUME NEW c \in 1..Len(calls), Network(c) \/ Settle(c) PROVE RollbackInv'
  <2>1. \E phase, reply, order : StepOf(c, phase, reply, order)
    BY <1>4, ServeStep, OtherSteps DEF Network
  <2>. QED
    BY <1>1, <2>1 DEF StepOf, RollbackInv
<1>. QED
  BY <1>2, <1>3, <1>4 DEF Next, OpenConfirm, ConfirmNo, vars

LEMMA OneViewKept ==
  ASSUME Inv, ServedInv, RollbackInv, OneViewInv, [Next]_vars
  PROVE  OneViewInv'
<1>1. situation' = situation
  BY DEF Next, OpenConfirm, ConfirmNo, ConfirmYes, Network, Serve, LoseRequest, LoseReply,
         Settle, Confirmed, Rejected, vars
<1>. SUFFICES ASSUME OneAxis PROVE OneViewInv'
  BY <1>1 DEF OneViewInv, OneAxis
<1>2. /\ Types /\ calls \in Seq(Call) /\ Len(calls) \in Nat
      /\ \A c \in 1..Len(calls) : CallServed(calls[c], answers, server)
      /\ \A c \in 1..Len(calls) : Pending(calls[c]) => c = Len(calls)
  BY DEF Inv, Types, ServedInv, OneCallInv
<1>3. /\ (\A c \in 1..Len(calls) : ~Pending(calls[c]))
           => Lost \/ SameDecision(Shown, InForce(server))
      /\ \A c \in 1..Len(calls) : Pending(calls[c]) =>
           /\ calls[c].reply = Null => Lost \/ SameDecision(calls[c].current, InForce(server))
           /\ calls[c].phase = "replied" => calls[c].reply = server
  BY DEF OneViewInv, Quiescent, InFlight, Pending
<1>4. ASSUME (\A c \in 1..Len(calls') : ~Pending(calls'[c]))
               => Lost' \/ SameDecision(Shown', InForce(server)'),
             \A c \in 1..Len(calls') : Pending(calls'[c]) =>
               /\ calls'[c].reply = Null
                    => Lost' \/ SameDecision(calls'[c].current, InForce(server)')
               /\ calls'[c].phase = "replied" => calls'[c].reply = server'
      PROVE  OneViewInv'
  <2>1. ASSUME Quiescent' PROVE \A c \in 1..Len(calls') : ~Pending(calls'[c])
    BY <2>1 DEF Quiescent, InFlight, Pending
  <2>2. ASSUME NEW c \in InFlight' PROVE c \in 1..Len(calls') /\ Pending(calls'[c])
    BY DEF InFlight, Pending
  <2>3. \A d, e : SameDecision(d, e)' <=> SameDecision(d, e)
    BY DEF SameDecision, TargetIn, AckedIn
  <2>. QED
    BY <1>4, <2>1, <2>2, <2>3 DEF OneViewInv
<1>5. ASSUME UNCHANGED <<calls, override, server>> PROVE OneViewInv'
  <2>1. /\ Shown' = Shown /\ InForce(server)' = InForce(server)
        /\ Lost' <=> Lost
    BY <1>1, <1>5 DEF Shown, Fetched, InForce, Lost, AnswerLost
  <2>. QED
    BY <1>3, <1>4, <1>5, <2>1
<1>6. CASE ConfirmYes
  <2>1. /\ Len(calls') = Len(calls) + 1
        /\ \A d \in 1..Len(calls) : calls'[d] = calls[d] /\ ~Pending(calls[d])
        /\ calls'[Len(calls) + 1].phase = "sent"
        /\ calls'[Len(calls) + 1].current = Shown
    BY <1>2, <1>6, ApplyStep DEF Inv, OneCallInv, ConfirmYes
  <2>2. InForce(server)' = InForce(server)
    BY <1>1, <1>6 DEF InForce, ConfirmYes
  <2>3. Lost => Lost'
    <3>1. ASSUME NEW d \in 1..Len(calls), AnswerLost(d) PROVE AnswerLost(d)'
      <4>1. \A e \in (d+1)..Len(calls') : calls'[e].phase # "confirmed"
        BY <1>2, <2>1, <3>1 DEF AnswerLost
      <4>. QED
        BY <2>1, <3>1, <4>1 DEF AnswerLost
    <3>. QED
      BY <1>2, <2>1, <3>1 DEF Lost
  <2>4. Lost' \/ SameDecision(Shown, InForce(server)')
    BY <1>3, <2>1, <2>2, <2>3
  <2>5. Pending(calls'[Len(calls) + 1]) /\ Len(calls) + 1 \in 1..Len(calls')
    BY <1>2, <2>1 DEF Pending
  <2>6. ASSUME NEW c \in 1..Len(calls'), Pending(calls'[c]) PROVE c = Len(calls) + 1
    BY <1>2, <2>1, <2>6
  <2>. QED
    BY <1>4, <2>1, <2>4, <2>5, <2>6
<1>7. ASSUME NEW c \in 1..Len(calls), Serve(c) PROVE OneViewInv'
  <2>1. /\ StepOf(c, "replied", server', answers + 1) /\ server' \in Decision
        /\ Pending(calls[c])
    BY <1>2, <1>7, ServeStep DEF Serve, Pending
  <2>2. /\ Len(calls') = Len(calls) /\ c = Len(calls)
        /\ \A d \in 1..Len(calls) : d # c => calls'[d] = calls[d]
        /\ calls'[c].phase = "replied" /\ calls'[c].reply = server'
    BY <1>2, <2>1 DEF StepOf
  <2>3. Pending(calls'[c]) /\ \A d \in 1..Len(calls') : Pending(calls'[d]) => d = c
    BY <1>2, <2>2 DEF Pending
  <2>. QED
    BY <1>4, <2>1, <2>2, <2>3
<1>8. ASSUME NEW c \in 1..Len(calls), LoseRequest(c) \/ LoseReply(c) PROVE OneViewInv'
  <2>1. /\ StepOf(c, "failed", calls[c].reply, calls[c].order)
        /\ Pending(calls[c]) /\ UNCHANGED server
    BY <1>2, <1>8, PhaseStep DEF LoseRequest, LoseReply, Pending
  <2>2. /\ Len(calls') = Len(calls) /\ c = Len(calls)
        /\ \A d \in 1..Len(calls) : d # c => calls'[d] = calls[d]
        /\ calls'[c].phase = "failed" /\ calls'[c].reply = calls[c].reply
        /\ calls'[c].current = calls[c].current
    BY <1>2, <2>1 DEF StepOf
  <2>3. Pending(calls'[c]) /\ \A d \in 1..Len(calls') : Pending(calls'[d]) => d = c
    BY <1>2, <2>2 DEF Pending
  <2>4. InForce(server)' = InForce(server)
    BY <1>1, <2>1 DEF InForce
  <2>5. Lost => Lost'
    BY <1>2, <2>1, LostKept
  <2>6. calls'[c].reply = Null
          => Lost' \/ SameDecision(calls'[c].current, InForce(server)')
    BY <1>3, <2>1, <2>2, <2>4, <2>5
  <2>. QED
    BY <1>4, <2>2, <2>3, <2>6
<1>9. ASSUME NEW c \in 1..Len(calls), Confirmed(c) PROVE OneViewInv'
  <2>1. /\ StepOf(c, "confirmed", calls[c].reply, calls[c].order)
        /\ calls[c].phase = "replied" /\ Pending(calls[c]) /\ server' = server
        /\ override' = IF IsCurrent(c) THEN calls[c].reply ELSE override
    BY <1>2, <1>9, PhaseStep DEF Confirmed, Settled, Pending
  <2>2. /\ c = Len(calls) /\ calls[c].reply = server /\ server # Null
        /\ server \in Decision
    BY <1>2, <1>3, <2>1 DEF Types
  <2>3. IsCurrent(c)
    BY <1>2, <2>2 DEF Inv, LastInv
  <2>4. Shown' = server /\ InForce(server)' = server
    BY <2>1, <2>2, <2>3 DEF Shown, InForce
  <2>5. \A d \in 1..Len(calls') : ~Pending(calls'[d])
    BY <1>2, <2>1, <2>2 DEF StepOf, Pending
  <2>. QED
    BY <1>4, <2>4, <2>5 DEF SameDecision
<1>10. ASSUME NEW c \in 1..Len(calls), Rejected(c) PROVE OneViewInv'
  <2>1. /\ StepOf(c, "rejected", calls[c].reply, calls[c].order)
        /\ Pending(calls[c]) /\ server' = server
        /\ override' = IF ~IsCurrent(c) THEN override
                       ELSE IF calls[c].hadOverride THEN calls[c].current ELSE NoOverride
    BY <1>2, <1>10, PhaseStep DEF Rejected, Settled, Pending
  <2>2. c = Len(calls)
    BY <1>2, <2>1
  <2>3. IsCurrent(c)
    BY <1>2, <2>2 DEF Inv, LastInv
  <2>4. Shown' = calls[c].current
    <3>1. Fetched' = Fetched
      BY <1>1 DEF Fetched, InForce
    <3>2. CASE calls[c].hadOverride
      BY <1>2, <2>1, <2>3, <3>2 DEF Types, Shown
    <3>3. CASE ~calls[c].hadOverride
      BY <2>1, <2>3, <3>1, <3>3 DEF RollbackInv, Shown
    <3>. QED
      BY <3>2, <3>3
  <2>5. \A d \in 1..Len(calls') : ~Pending(calls'[d])
    BY <1>2, <2>1, <2>2 DEF StepOf, Pending
  <2>6. InForce(server)' = InForce(server)
    BY <1>1, <2>1 DEF InForce
  <2>7. Lost' \/ SameDecision(Shown', InForce(server)')
    <3>1. CASE calls[c].reply = Null
      <4>1. Lost => Lost'
        BY <1>2, <2>1, LostKept
      <4>. QED
        BY <1>3, <2>1, <2>4, <2>6, <3>1, <4>1
    <3>2. CASE calls[c].reply # Null
      <4>1. c \in 1..Len(calls') /\ ~\E d \in (c+1)..Len(calls') : calls'[d].phase = "confirmed"
        BY <1>2, <2>1, <2>2 DEF StepOf
      <4>2. AnswerLost(c)'
        BY <2>1, <3>2, <4>1 DEF StepOf, AnswerLost
      <4>. QED
        BY <4>1, <4>2 DEF Lost
    <3>. QED
      BY <3>1, <3>2
  <2>. QED
    BY <1>4, <2>5, <2>7
<1>11. ASSUME NEW field \in Fields, OpenConfirm(field) PROVE OneViewInv'
  BY <1>5, <1>11 DEF OpenConfirm
<1>12. CASE ConfirmNo \/ UNCHANGED vars
  BY <1>5, <1>12 DEF ConfirmNo, vars
<1>. QED
  BY <1>6, <1>7, <1>8, <1>9, <1>10, <1>11, <1>12 DEF Next, Network, Settle

(* In order and without losses the call that is confirmed last is the one  *)
(* that was served last.                                                   *)
LEMMA InOrderView ==
  ASSUME Inv, ServedInv, InOrderInv, Reliable
  PROVE  ViewMatchesRecord
<1>. SUFFICES ASSUME Quiescent PROVE SameDecision(Shown, InForce(server))
  BY DEF ViewMatchesRecord
<1>1. /\ Types /\ calls \in Seq(Call) /\ Len(calls) \in Nat /\ answers \in Nat
      /\ \A c \in 1..Len(calls) : CallServed(calls[c], answers, server)
  BY DEF Inv, Types, ServedInv
<1>2. CASE calls = <<>>
  <2>1. override = NoOverride
    BY <1>2 DEF InOrderInv
  <2>2. answers = 0
    <3>1. \A n \in 1..answers : \E c \in 1..Len(calls) : calls[c].order = n
      BY DEF ServedInv
    <3>2. 1..Len(calls) = {}
      BY <1>2
    <3>3. 1 \notin 1..answers
      BY <3>1, <3>2
    <3>. QED
      BY <1>1, <3>3
  <2>3. server = situation.recorded
    BY <2>2 DEF ServedInv
  <2>. QED
    BY <2>1, <2>3 DEF Shown, Fetched, SameDecision
<1>3. CASE calls # <<>>
  <2>1. Len(calls) \in 1..Len(calls)
    BY <1>1, <1>3
  <2>2. PICK last : last = calls[Len(calls)]
    OBVIOUS
  <2>3. last.phase = "confirmed"
    BY <2>1, <2>2 DEF InOrderInv, Quiescent, InFlight
  <2>4. override = last.reply
    BY <1>3, <2>2, <2>3 DEF InOrderInv, LastCall
  <2>5. /\ last.order # 0 /\ last.order \in 0..answers /\ last.reply # Null
        /\ last.order = answers => last.reply = server
    BY <1>1, <2>1, <2>2, <2>3 DEF CallServed
  <2>6. last.order = answers
    <3>1. answers \in 1..answers
      BY <1>1, <2>5
    <3>2. PICK c \in 1..Len(calls) : calls[c].order = answers
      BY <3>1 DEF ServedInv
    <3>3. c < Len(calls) => calls[c].order < last.order
      BY <2>1, <2>2, <2>5 DEF InOrderInv
    <3>4. c = Len(calls) \/ c < Len(calls)
      BY <1>1
    <3>. QED
      BY <1>1, <2>2, <2>5, <3>2, <3>3, <3>4
  <2>7. server \in Decision /\ override = server
    BY <1>1, <2>4, <2>5, <2>6 DEF Types
  <2>8. Shown = server /\ InForce(server) = server
    BY <2>7 DEF Shown, InForce
  <2>. QED
    BY <2>8 DEF SameDecision
<1>. QED
  BY <1>2, <1>3

(* useOptimisticDecisions.ts, apply: once every request settled the row    *)
(* shows the decision in force at the server -- on a row with buttons of   *)
(* one axis over any network, unless an answer was lost and nothing later  *)
(* told the page; on a row with both over one that loses and reorders      *)
(* nothing (NothingUnrecordedShown and BothAxesLand show why no more).     *)
THEOREM ViewMatchesRecordHolds == Spec => [](OneAxis \/ Reliable => ViewMatchesRecord)
<1>1. Init => InOrderInv /\ RollbackInv /\ OneViewInv
  <2>. SUFFICES ASSUME Init PROVE InOrderInv /\ RollbackInv /\ OneViewInv
    OBVIOUS
  <2>1. Shown = InForce(server)
    BY DEF Init, Shown, Fetched
  <2>. QED
    BY <2>1 DEF Init, InOrderInv, RollbackInv, OneViewInv, InFlight, SameDecision
<1>2. /\ Inv /\ ServedInv /\ BoundsInv /\ InOrderInv /\ RollbackInv /\ OneViewInv
      /\ [Next]_vars
      => InOrderInv' /\ RollbackInv' /\ OneViewInv'
  <2>. SUFFICES ASSUME Inv, ServedInv, BoundsInv, InOrderInv, RollbackInv, OneViewInv, [Next]_vars
                PROVE  InOrderInv' /\ RollbackInv' /\ OneViewInv'
    OBVIOUS
  <2>1. Types
    BY DEF Inv
  <2>. QED
    BY <2>1, InOrderKept, RollbackKept, OneViewKept
<1>3. Inv /\ ServedInv /\ InOrderInv /\ OneViewInv => (OneAxis \/ Reliable => ViewMatchesRecord)
  <2>1. OneViewInv /\ OneAxis => ViewMatchesRecord
    BY DEF OneViewInv, ViewMatchesRecord, Lost
  <2>. QED
    BY <2>1, InOrderView
<1>. QED
  BY <1>1, <1>2, <1>3, CountsInvariant, PTL DEF Spec

-----------------------------------------------------------------------------
(* The server is the store of DecisionStore. *)

(* The decision that holds every field of a row, seen from the store. *)
LEMMA RowIsRow ==
  ASSUME NEW d \in Decision
  PROVE  /\ RowOf(d).skippedVersion = IF d.target = "skippedVersion" THEN 1 ELSE Null
         /\ RowOf(d).remindAt = IF d.target = "remindAt" THEN 1 ELSE Null
         /\ RowOf(d).approvedVersion = IF d.target = "approvedVersion" THEN 1 ELSE Null
         /\ RowOf(d).approvedFromPinned = IF d.target = "approvedVersion" THEN 1 ELSE Null
         /\ RowOf(d).acknowledgedAdvisories = IF d.acked THEN {1} ELSE Null
         /\ d # Null
BY DEF RowOf

LEMMA StoreItem ==
  /\ Store!LatestItem(1) = Snapshot.items[1] /\ Store!LatestItem(1) # Null
  /\ Store!PinnedNow(1) = 1 /\ Store!KnownAdvisories(1) = {1} /\ Store!HasIdentity(1)
  /\ Store!IsVersion(1)
<1>1. Snapshot.items[1] =
        [ pinned |-> 1, latest |-> 1, gap |-> "minor", advisoryStatus |-> "affected",
          advisories |-> {[id |-> 1, affected |-> TRUE]} ]
  BY DEF Snapshot
<1>2. Store!LatestItem(1) = Snapshot.items[1]
  BY DEF Store!LatestItem, Snapshot
<1>3. Store!IsVersion(1)
  BY StoreSentinelAssumption DEF Store!IsVersion
<1>4. Snapshot.items[1] \in Store!Item
  BY <1>1 DEF Store!Item, Store!ActionableGaps
<1>5. Store!LatestItem(1) # Null
  BY <1>2, <1>4, StoreSentinelAssumption
<1>6. Store!PinnedNow(1) = 1
  BY <1>1, <1>2, <1>5 DEF Store!PinnedNow
<1>7. Store!KnownAdvisories(1) = {1}
  <2>1. PICK advisory : advisory = [id |-> 1, affected |-> TRUE]
    OBVIOUS
  <2>2. Store!LatestItem(1).advisories = {advisory} /\ advisory.id = 1
    BY <1>1, <1>2, <2>1
  <2>3. Store!KnownAdvisories(1) = {a.id : a \in Store!LatestItem(1).advisories}
    BY <1>5 DEF Store!KnownAdvisories
  <2>4. Store!KnownAdvisories(1) = {a.id : a \in {advisory}}
    BY <2>2, <2>3
  <2>. QED
    BY <2>2, <2>4
<1>8. Store!HasIdentity(1)
  BY <1>5 DEF Store!HasIdentity
<1>. QED
  BY <1>2, <1>3, <1>5, <1>6, <1>7, <1>8

LEMMA RowKnown ==
  ASSUME NEW d \in Decision, d.by = User
  PROVE  RowOf(d) \in Store!Row /\ RowOf(d) # Null
<1>1. Store!Version = {1}
  BY StoreItem DEF Store!Version
<1>2. d # Null
  OBVIOUS
<1>3. d.acked \in BOOLEAN
  BY DEF Decision
<1>4. RowOf(d) =
        [ skippedVersion |-> IF d.target = "skippedVersion" THEN 1 ELSE Null,
          remindAt |-> IF d.target = "remindAt" THEN 1 ELSE Null,
          approvedVersion |-> IF d.target = "approvedVersion" THEN 1 ELSE Null,
          approvedFromPinned |-> IF d.target = "approvedVersion" THEN 1 ELSE Null,
          acknowledgedAdvisories |-> IF d.acked THEN {1} ELSE Null,
          updatedAt |-> 0,
          updatedBy |-> d.by ]
  BY <1>2 DEF RowOf
<1>5. RowOf(d) \in Store!Row
  BY <1>1, <1>3, <1>4 DEF Store!Row
<1>. QED
  BY <1>5, StoreSentinelAssumption

(* Which call was served n-th, and what it left, does not change.          *)
LEMMA NthIs ==
  ASSUME ServedInv, NEW c \in 1..Len(calls), calls[c].order # 0
  PROVE  /\ Nth(calls[c].order) = c
         /\ Left(calls[c].order) = calls[c].reply
<1>1. \A d \in 1..Len(calls) : calls[d].order = calls[c].order => d = c
  BY DEF ServedInv
<1>2. Nth(calls[c].order) = c
  BY <1>1 DEF Nth
<1>. QED
  BY <1>2 DEF Left

LEMMA LeftStays ==
  ASSUME ServedInv, ServedInv', situation' = situation, Len(calls) <= Len(calls'),
         Len(calls) \in Nat, Len(calls') \in Nat,
         \A c \in 1..Len(calls) : calls[c].order # 0 =>
           calls'[c].order = calls[c].order /\ calls'[c].reply = calls[c].reply
  PROVE  \A n \in 0..answers : Left(n)' = Left(n)
<1>1. Left(0)' = Left(0)
  BY DEF Left
<1>2. ASSUME NEW n \in 0..answers, n # 0 PROVE Left(n)' = Left(n)
  <2>1. n \in 1..answers
    BY <1>2
  <2>2. PICK c \in 1..Len(calls) : calls[c].order = n
    BY <2>1 DEF ServedInv
  <2>3. Left(n) = calls[c].reply
    BY <1>2, <2>2, NthIs
  <2>4. c \in 1..Len(calls') /\ calls'[c].order = n /\ calls'[c].reply = calls[c].reply
    BY <1>2, <2>2
  <2>5. \A d \in 1..Len(calls') : calls'[d].order = n => d = c
    BY <1>2, <2>4 DEF ServedInv
  <2>6. Nth(n)' = c
    BY <2>4, <2>5 DEF Nth
  <2>7. Left(n)' = calls'[c].reply
    BY <1>2, <2>6 DEF Left
  <2>. QED
    BY <2>3, <2>4, <2>7
<1>. QED
  BY <1>1, <1>2

LEMMA LeftLast ==
  ASSUME ServedInv, answers \in Nat
  PROVE  Left(answers) = server
<1>1. CASE answers = 0
  BY <1>1 DEF Left, ServedInv
<1>2. CASE answers # 0
  <2>1. answers \in 1..answers
    BY <1>2
  <2>2. PICK c \in 1..Len(calls) : calls[c].order = answers
    BY <2>1 DEF ServedInv
  <2>3. calls[c].reply = server
    BY <1>2, <2>2 DEF ServedInv, CallServed
  <2>. QED
    BY <1>2, <2>2, <2>3, NthIs
<1>. QED
  BY <1>1, <1>2

(* A step that serves nothing leaves the store as it is. *)
LEMMA StoreUndisturbed ==
  ASSUME UNCHANGED <<situation, server, answers>>,
         answers \in Nat, \A n \in 0..answers : Left(n)' = Left(n)
  PROVE  UNCHANGED Store!vars
<1>1. ASSUME NEW d PROVE RowOf(d)' = RowOf(d)
  BY DEF RowOf
<1>2. ASSUME NEW n \in 1..answers
      PROVE  RowOf(Left(n - 1))' = RowOf(Left(n - 1)) /\ RowOf(Left(n))' = RowOf(Left(n))
  <2>1. n - 1 \in 0..answers /\ n \in 0..answers
    OBVIOUS
  <2>2. Left(n - 1)' = Left(n - 1) /\ Left(n)' = Left(n)
    BY <2>1
  <2>. QED
    BY <2>2 DEF RowOf
<1>3. AuditTrail' = AuditTrail
  BY <1>2 DEF AuditTrail
<1>. QED
  BY <1>3 DEF Store!vars, RowOf

AuthorInv == server # Null => server.by = User

LEMMA AuthorKept ==
  ASSUME AuthorInv, [Next]_vars
  PROVE  AuthorInv'
<1>1. server' = server \/ \E field : server' = Merged(field, server)
  BY DEF Next, OpenConfirm, ConfirmNo, ConfirmYes, Network, Serve, LoseRequest, LoseReply,
         Settle, Confirmed, Rejected, vars
<1>. QED
  BY <1>1 DEF AuthorInv, Merged

(* The patch the button of a field sends, over the store of one version,   *)
(* one instant and one advisory.                                           *)
PatchOf(field) ==
  [ field |-> field,
    value |-> IF field = "acknowledgedAdvisories" THEN {1} ELSE 1 ]

LEMMA PatchAccepted ==
  ASSUME NEW field \in Fields
  PROVE  /\ PatchOf(field) \in Store!VersionPatches \cup Store!RemindPatches \cup Store!AckPatches
         /\ Store!Valid(1, PatchOf(field)) /\ Store!Writes(1, PatchOf(field))
         /\ PatchOf(field).field = field
<1>1. CASE field \in {"skippedVersion", "approvedVersion"}
  <2>1. PatchOf(field) = [field |-> field, value |-> 1]
    BY <1>1 DEF PatchOf
  <2>. QED
    BY <1>1, <2>1, StoreItem DEF Store!VersionPatches, Store!Valid, Store!Writes
<1>2. CASE field = "remindAt"
  <2>1. PatchOf(field) = [field |-> "remindAt", value |-> 1]
    BY <1>2 DEF PatchOf
  <2>. QED
    BY <1>2, <2>1, StoreItem DEF Store!RemindPatches, Store!Valid, Store!Writes
<1>3. CASE field = "acknowledgedAdvisories"
  <2>1. PatchOf(field) = [field |-> "acknowledgedAdvisories", value |-> {1}]
    BY <1>3 DEF PatchOf
  <2>. QED
    BY <1>3, <2>1, StoreItem DEF Store!AckPatches, Store!Valid, Store!Writes
<1>. QED
  BY <1>1, <1>2, <1>3 DEF Fields, Targets

(* The merge of the two axes is the row putDecision writes. *)
LEMMA MergedIsNextRow ==
  ASSUME NEW field \in Fields, server \in {Null} \cup Decision, AuthorInv
  PROVE  RowOf(Merged(field, server)) = Store!NextRow(1, PatchOf(field), User)
<1>. DEFINE d == Merged(field, server)
            row == RowOf(server)
<1>1. d \in Decision /\ d.by = User
  BY DecisionTypes DEF Merged
<1>2. /\ d.target = IF field \in Targets THEN field ELSE TargetIn(server)
      /\ d.acked <=> (field \notin Targets \/ AckedIn(server))
  BY DEF Merged, AxisOf
<1>3. RowOf(d) =
        [ skippedVersion |-> IF d.target = "skippedVersion" THEN 1 ELSE Null,
          remindAt |-> IF d.target = "remindAt" THEN 1 ELSE Null,
          approvedVersion |-> IF d.target = "approvedVersion" THEN 1 ELSE Null,
          approvedFromPinned |-> IF d.target = "approvedVersion" THEN 1 ELSE Null,
          acknowledgedAdvisories |-> IF d.acked THEN {1} ELSE Null,
          updatedAt |-> 0,
          updatedBy |-> User ]
  BY <1>1 DEF RowOf
<1>4. row = Null <=> server = Null
  <2>1. server = Null => row = Null
    BY DEF RowOf
  <2>. QED
    BY <2>1, RowKnown DEF AuthorInv
<1>5. Store!Acknowledged(1) = IF AckedIn(server) THEN {1} ELSE Null
  <2>1. CASE server = Null
    BY <1>4, <2>1 DEF Store!Acknowledged, AckedIn
  <2>2. CASE server # Null
    BY <1>4, <2>2, RowIsRow DEF Store!Acknowledged, AckedIn
  <2>. QED
    BY <2>1, <2>2
<1>. HIDE DEF d
<1>6. CASE field \in Targets
  <2>1. d.target = field /\ (d.acked <=> AckedIn(server))
    BY <1>2, <1>6
  <2>2. Store!NextRow(1, PatchOf(field), User) = Store!TrioRow(1, PatchOf(field), User)
    BY <1>6 DEF Store!NextRow, PatchOf, Targets
  <2>3. Store!TrioRow(1, PatchOf(field), User) =
          [ skippedVersion |-> IF field = "skippedVersion" THEN 1 ELSE Null,
            remindAt |-> IF field = "remindAt" THEN 1 ELSE Null,
            approvedVersion |-> IF field = "approvedVersion" THEN 1 ELSE Null,
            approvedFromPinned |-> IF field = "approvedVersion" THEN 1 ELSE Null,
            acknowledgedAdvisories |-> IF AckedIn(server) THEN {1} ELSE Null,
            updatedAt |-> 0,
            updatedBy |-> User ]
    BY <1>5, <1>6, StoreItem DEF Store!TrioRow, PatchOf, Targets
  <2>. QED
    BY <1>3, <2>1, <2>2, <2>3 DEF d
<1>7. CASE field \notin Targets
  <2>1. field = "acknowledgedAdvisories" /\ d.target = TargetIn(server) /\ d.acked
    BY <1>2, <1>7 DEF Fields
  <2>2. Store!NextRow(1, PatchOf(field), User) = Store!AckRow(1, PatchOf(field), User)
    BY <2>1 DEF Store!NextRow, PatchOf
  <2>3. PICK kept : kept = IF row = Null THEN Store!NoTrio ELSE row
    OBVIOUS
  <2>4. /\ kept.skippedVersion = IF d.target = "skippedVersion" THEN 1 ELSE Null
        /\ kept.remindAt = IF d.target = "remindAt" THEN 1 ELSE Null
        /\ kept.approvedVersion = IF d.target = "approvedVersion" THEN 1 ELSE Null
        /\ kept.approvedFromPinned = IF d.target = "approvedVersion" THEN 1 ELSE Null
    <3>1. CASE server = Null
      BY <1>4, <2>1, <2>3, <3>1 DEF Store!NoTrio, TargetIn, Fields, Targets
    <3>2. CASE server # Null
      BY <1>4, <2>1, <2>3, <3>2, RowIsRow DEF TargetIn
    <3>. QED
      BY <3>1, <3>2
  <2>5. Store!AckRow(1, PatchOf(field), User) =
          [ skippedVersion |-> kept.skippedVersion,
            remindAt |-> kept.remindAt,
            approvedVersion |-> kept.approvedVersion,
            approvedFromPinned |-> kept.approvedFromPinned,
            acknowledgedAdvisories |-> {1},
            updatedAt |-> 0,
            updatedBy |-> User ]
    BY <2>1, <2>3 DEF Store!AckRow, PatchOf
  <2>. QED
    BY <1>3, <2>1, <2>2, <2>4, <2>5 DEF d
<1>. QED
  BY <1>6, <1>7

LEMMA IntervalCount ==
  ASSUME NEW n \in Nat
  PROVE  IsFiniteSet(1..n) /\ Cardinality(1..n) = n
BY FS_Interval

LEMMA AppendedIs ==
  ASSUME NEW S, NEW seq \in Seq(S), NEW last
  PROVE  Append(seq, last)
           = [i \in 1..(Len(seq) + 1) |-> IF i = Len(seq) + 1 THEN last ELSE seq[i]]
<1>. DEFINE longer == Append(seq, last)
<1>1. seq \in Seq(S \cup {last})
  OBVIOUS
<1>2. longer \in Seq(S \cup {last})
  BY <1>1
<1>3. /\ Len(longer) = Len(seq) + 1 /\ longer[Len(seq) + 1] = last
      /\ \A i \in 1..Len(seq) : longer[i] = seq[i]
      /\ Len(seq) \in Nat
  BY <1>1
<1>. HIDE DEF longer
<1>4. longer = [i \in 1..Len(longer) |-> longer[i]]
  BY <1>2
<1>5. \A i \in 1..(Len(seq) + 1) :
        longer[i] = IF i = Len(seq) + 1 THEN last ELSE seq[i]
  BY <1>3
<1>6. longer = [i \in 1..(Len(seq) + 1) |-> IF i = Len(seq) + 1 THEN last ELSE seq[i]]
  BY <1>3, <1>4, <1>5
<1>. QED
  BY <1>6 DEF longer

LEMMA PairReplaced ==
  ASSUME NEW a, NEW b, NEW new
  PROVE  [<<a, b>> EXCEPT ![1] = new] = <<new, b>>
OBVIOUS

LEMMA ServeIsPut ==
  ASSUME Types, ServedInv, ServedInv', BoundsInv, AuthorInv,
         NEW c \in 1..Len(calls), Serve(c)
  PROVE  /\ Store!PutDecision(1, PatchOf(calls[c].field), User)
         /\ RowOf(server') # Null
<1>1. /\ StepOf(c, "replied", server', answers + 1) /\ server' = Merged(calls[c].field, server)
      /\ server' \in Decision /\ answers' = answers + 1 /\ situation' = situation
      /\ calls[c].phase = "sent"
  BY ServeStep DEF Serve
<1>2. PICK field : field = calls[c].field
  OBVIOUS
<1>3. /\ field \in Fields /\ answers \in Nat /\ Len(calls) \in Nat
      /\ server \in {Null} \cup Decision
  <2>1. calls[c] \in Call
    BY DEF Types
  <2>. QED
    BY <1>2, <2>1 DEF Types, Call
<1>4. PICK row : row = RowOf(server')
  OBVIOUS
<1>5. row = Store!NextRow(1, PatchOf(field), User)
  BY <1>1, <1>2, <1>3, <1>4, MergedIsNextRow
<1>6. RowOf(server') # Null
  <2>1. server'.by = User
    BY <1>1 DEF Merged
  <2>. QED
    BY <1>1, <2>1, RowKnown
<1>7. answers < MaxCalls
  <2>1. answers' = Cardinality({d \in 1..Len(calls') : calls'[d].order # 0})
    BY DEF ServedInv
  <2>2. Len(calls') = Len(calls)
    BY <1>1 DEF StepOf
  <2>3. IsFiniteSet(1..Len(calls)) /\ Cardinality(1..Len(calls)) = Len(calls)
    BY <1>3, IntervalCount
  <2>4. answers' <= Len(calls)
    <3>. DEFINE served == {d \in 1..Len(calls) : calls'[d].order # 0}
    <3>1. Cardinality(served) <= Len(calls)
      BY <2>3, FS_Subset
    <3>. QED
      BY <2>1, <2>2, <3>1
  <2>. QED
    BY <1>1, <1>3, <2>4 DEF BoundsInv
<1>8. \A n \in 0..answers : Left(n)' = Left(n)
  <2>1. calls[c].order = 0
    BY <1>1 DEF ServedInv, CallServed
  <2>2. /\ Len(calls') = Len(calls)
        /\ \A d \in 1..Len(calls) : calls[d].order # 0 =>
             calls'[d].order = calls[d].order /\ calls'[d].reply = calls[d].reply
    BY <1>1, <2>1 DEF StepOf
  <2>. QED
    BY <1>1, <1>3, <2>2, LeftStays
<1>9. PICK count : count = answers
  OBVIOUS
<1>10. Left(count) = server /\ Left(count + 1)' = server'
  <2>1. c \in 1..Len(calls') /\ calls'[c].order = count + 1 /\ calls'[c].reply = server'
    BY <1>1, <1>9 DEF StepOf
  <2>2. \A d \in 1..Len(calls') : calls'[d].order = count + 1 => d = c
    BY <1>3, <1>9, <2>1 DEF ServedInv
  <2>3. Nth(count + 1)' = c
    BY <2>1, <2>2 DEF Nth
  <2>4. count + 1 # 0
    BY <1>3, <1>9
  <2>5. Left(count + 1)' = server'
    BY <2>1, <2>3, <2>4 DEF Left
  <2>. QED
    BY <1>3, <1>9, <2>5, LeftLast
<1>11. PICK entry : entry = [key |-> 1, before |-> RowOf(server), after |-> row, at |-> 0,
                            by |-> User]
  OBVIOUS
<1>12. AuditTrail' = Append(AuditTrail, entry)
  <2>. DEFINE At(n) == [ key |-> 1, before |-> RowOf(Left(n - 1)), after |-> RowOf(Left(n)),
                         at |-> 0, by |-> User ]
  <2>1. ASSUME NEW n \in 1..count PROVE At(n)' = At(n)
    <3>1. n - 1 \in 0..answers /\ n \in 0..answers
      BY <1>3, <1>9
    <3>2. Left(n - 1)' = Left(n - 1) /\ Left(n)' = Left(n)
      BY <1>8, <3>1
    <3>. QED
      BY <3>2 DEF RowOf
  <2>2. ASSUME NEW n, n = count + 1 PROVE At(n)' = entry
    <3>1. n - 1 = count /\ count \in 0..answers
      BY <1>3, <1>9, <2>2
    <3>2. Left(n - 1)' = server /\ Left(n)' = server'
      BY <1>8, <1>10, <2>2, <3>1
    <3>3. RowOf(Left(n - 1))' = RowOf(server) /\ RowOf(Left(n))' = row
      BY <1>4, <3>2 DEF RowOf
    <3>. QED
      BY <1>11, <3>3
  <2>3. AuditTrail = [n \in 1..count |-> At(n)]
    BY <1>9 DEF AuditTrail
  <2>4. AuditTrail' = [n \in 1..(count + 1) |-> At(n)']
    BY <1>1, <1>9 DEF AuditTrail
  <2>. HIDE DEF At
  <2>5. /\ Len(AuditTrail) = count /\ AuditTrail \in Seq({At(n) : n \in 1..count})
        /\ \A n \in 1..count : AuditTrail[n] = At(n)
    BY <1>3, <1>9, <2>3
  <2>6. Append(AuditTrail, entry)
          = [n \in 1..(count + 1) |-> IF n = count + 1 THEN entry ELSE AuditTrail[n]]
    BY <2>5, AppendedIs
  <2>7. ASSUME NEW n \in 1..(count + 1)
        PROVE  At(n)' = IF n = count + 1 THEN entry ELSE AuditTrail[n]
    <3>1. n = count + 1 \/ n \in 1..count
      BY <1>3, <1>9
    <3>2. CASE n = count + 1
      BY <2>2, <3>2
    <3>3. CASE n \in 1..count /\ n # count + 1
      BY <2>1, <2>5, <3>3
    <3>. QED
      BY <3>1, <3>2, <3>3
  <2>. QED
    BY <2>4, <2>6, <2>7
<1>13. Len(AuditTrail) = answers
  BY <1>3 DEF AuditTrail
<1>14. Store!Commit(1, row, User)
  <2>1. <<RowOf(server), RowOf(situation.carried)>>'
          = [<<RowOf(server), RowOf(situation.carried)>> EXCEPT ![1] = row]
    <3>1. RowOf(server)' = row /\ RowOf(situation.carried)' = RowOf(situation.carried)
      BY <1>1, <1>4 DEF RowOf
    <3>. QED
      BY <3>1, PairReplaced
  <2>2. entry = Store!Entry(1, row, User)
    BY <1>11 DEF Store!Entry
  <2>. QED
    BY <1>7, <1>12, <1>13, <2>1, <2>2 DEF Store!Commit
<1>15. Store!PutDecision(1, PatchOf(field), User)
  BY <1>3, <1>5, <1>14, PatchAccepted DEF Store!PutDecision
<1>. QED
  BY <1>2, <1>6, <1>15

LEMMA ServeIsStoreStep ==
  ASSUME Types, ServedInv, ServedInv', BoundsInv, AuthorInv,
         NEW c \in 1..Len(calls), Serve(c)
  PROVE  Store!Next /\ RowOf(InForce(server))' = Store!LatestDecisionFor(1)'
<1>1. PICK patch : patch = PatchOf(calls[c].field)
  OBVIOUS
<1>2. calls[c].field \in Fields
  <2>1. calls[c] \in Call
    BY DEF Types
  <2>. QED
    BY <2>1 DEF Call
<1>3. /\ patch \in Store!VersionPatches \cup Store!RemindPatches \cup Store!AckPatches
      /\ Store!PutDecision(1, patch, User) /\ RowOf(server') # Null
  BY <1>1, <1>2, PatchAccepted, ServeIsPut
<1>4. Store!Put
  <2>1. 1 \in {1, 2} /\ User \in {User}
    OBVIOUS
  <2>. QED
    BY <1>3, <2>1 DEF Store!Put
<1>5. RowOf(InForce(server))' = RowOf(server')
  <2>1. server' # Null
    BY <1>3 DEF RowOf
  <2>. QED
    BY <2>1 DEF InForce, RowOf
<1>6. Store!LatestDecisionFor(1)' = RowOf(server')
  <2>1. 1 # Null
    BY StoreSentinelAssumption
  <2>2. RowOf(server)' = RowOf(server')
    BY DEF RowOf
  <2>. QED
    BY <1>3, <2>1, <2>2 DEF Store!LatestDecisionFor, Store!DecisionFor, Store!MatchedKey
<1>. QED
  BY <1>4, <1>5, <1>6 DEF Store!Next

(* useOptimisticDecisions.ts against decisions.ts: in every order of the   *)
(* network, each request served is a PUT of DecisionStore with its audit   *)
(* entry, no other step touches a table, and the decision the row is       *)
(* compared with is the one the store finds for the item.                  *)
THEOREM ServesAsStoreHolds == Spec => ServesAsStore
<1>1. Init => AuthorInv
  BY DEF Init, AuthorInv, Situation, Recorded
<1>2. AuthorInv /\ [Next]_vars => AuthorInv'
  BY AuthorKept
<1>3. /\ Inv /\ ServedInv /\ ServedInv' /\ BoundsInv /\ AuthorInv /\ [Next]_vars
      => [Store!Next /\ RowOf(InForce(server))' = Store!LatestDecisionFor(1)']_(Store!vars)
  <2>. SUFFICES ASSUME Inv, ServedInv, ServedInv', BoundsInv, AuthorInv, [Next]_vars
                PROVE  \/ Store!Next /\ RowOf(InForce(server))' = Store!LatestDecisionFor(1)'
                       \/ UNCHANGED Store!vars
    OBVIOUS
  <2>1. Types /\ Len(calls) \in Nat /\ answers \in Nat
    BY DEF Inv, Types
  <2>2. ASSUME UNCHANGED <<situation, server, answers>>, Len(calls') \in Nat,
               Len(calls) <= Len(calls'),
               \A d \in 1..Len(calls) :
                 calls'[d].order = calls[d].order /\ calls'[d].reply = calls[d].reply
        PROVE  UNCHANGED Store!vars
    <3>1. \A n \in 0..answers : Left(n)' = Left(n)
      BY <2>1, <2>2, LeftStays
    <3>. QED
      BY <2>1, <2>2, <3>1, StoreUndisturbed
  <2>3. CASE ConfirmYes
    <3>1. /\ Len(calls') = Len(calls) + 1 /\ \A d \in 1..Len(calls) : calls'[d] = calls[d]
          /\ UNCHANGED <<situation, server, answers>>
      BY <2>1, <2>3, ApplyStep DEF ConfirmYes
    <3>. QED
      BY <2>1, <2>2, <3>1
  <2>4. ASSUME NEW c \in 1..Len(calls), Serve(c)
        PROVE  Store!Next /\ RowOf(InForce(server))' = Store!LatestDecisionFor(1)'
    BY <2>1, <2>4, ServeIsStoreStep
  <2>5. ASSUME NEW c \in 1..Len(calls), LoseRequest(c) \/ LoseReply(c) \/ Settle(c)
        PROVE  UNCHANGED Store!vars
    <3>1. /\ \E phase : StepOf(c, phase, calls[c].reply, calls[c].order)
          /\ UNCHANGED <<server, answers>>
      BY <2>1, <2>5, OtherSteps
    <3>2. situation' = situation
      BY <2>5 DEF LoseRequest, LoseReply, Settle, Confirmed, Rejected
    <3>3. /\ Len(calls') = Len(calls)
          /\ \A d \in 1..Len(calls) :
               calls'[d].order = calls[d].order /\ calls'[d].reply = calls[d].reply
      BY <3>1 DEF StepOf
    <3>. QED
      BY <2>1, <2>2, <3>1, <3>2, <3>3
  <2>6. CASE (\E field \in Fields : OpenConfirm(field)) \/ ConfirmNo \/ UNCHANGED vars
    <3>1. UNCHANGED <<situation, server, answers, calls>>
      BY <2>6 DEF OpenConfirm, ConfirmNo, vars
    <3>. QED
      BY <2>1, <2>2, <3>1
  <2>. QED
    BY <2>3, <2>4, <2>5, <2>6 DEF Next, Network
<1>. QED
  BY <1>1, <1>2, <1>3, CountsInvariant, PTL DEF Spec, ServesAsStore
=============================================================================
