------------------------- MODULE DecidedPageProofs -------------------------
(***************************************************************************)
(* Theorems about DecidedPage, for any number of rows, clears, decisions   *)
(* made elsewhere and failures.                                            *)
(***************************************************************************)
EXTENDS DecidedPage, TLAPS

(* A load carries what the server held when it was read. *)
LoadsInv ==
  \A n \in 1..Len(loads) :
    loads[n].at <= stamp /\ loads[n].rows \in [Keys -> 0..loads[n].at]

-----------------------------------------------------------------------------
(* Types. *)

LEMMA NewLoadTyped ==
  NewLoad \in Load /\ NewLoad.at = 0 /\ NewLoad.phase = "sent" /\ NewLoad.rows \in [Keys -> 0..0]
BY DEF NewLoad, NoRows, Load

LEMMA InitTyped == Init => TypeOK /\ LoadsInv
<1>. SUFFICES ASSUME Init PROVE TypeOK /\ LoadsInv
  OBVIOUS
<1>1. /\ loads \in Seq(Load) /\ Len(loads) = 1
      /\ loads[1].phase = "sent" /\ loads[1].at = 0 /\ loads[1].rows \in [Keys -> 0..0]
  BY NewLoadTyped DEF Init
<1>2. rows \in [Keys -> 0..0] /\ recorded \in [Keys -> 0..1]
  BY DEF Init, NoRows
<1>3. clears \in Seq(Clear) /\ clearing \in SUBSET Keys
  BY DEF Init
<1>4. clearError \in BOOLEAN
  BY DEF Init
<1>5. status = "loading" /\ stamp = 1 /\ rowsAt = 0 /\ instance = 0
  BY DEF Init
<1>. QED
  BY <1>1, <1>2, <1>3, <1>4, <1>5 DEF TypeOK, LoadsInv

(* A step of the tables of the server. *)
LEMMA DecideTyped ==
  ASSUME TypeOK, LoadsInv, NEW k \in Keys, Decide(k)
  PROVE  TypeOK' /\ LoadsInv'
<1>1. stamp \in Nat /\ stamp' = stamp + 1 /\ recorded' = [recorded EXCEPT ![k] = stamp']
  BY DEF Decide, TypeOK
<1>2. recorded' \in [Keys -> 0..stamp']
  BY <1>1 DEF TypeOK
<1>3. UNCHANGED <<status, rows, rowsAt, loads, instance, clearing, clearError, clears>>
  BY DEF Decide, async, table
<1>4. rowsAt' \in 0..stamp' /\ stamp' \in Nat /\ clearError' \in BOOLEAN
  BY <1>1, <1>3 DEF TypeOK
<1>5. LoadsInv'
  <2>1. \A n \in 1..Len(loads) : loads[n] \in Load /\ loads[n].at \in Nat
    <3>1. loads \in Seq(Load)
      BY DEF TypeOK
    <3>2. \A load \in Load : load.at \in Nat
      BY DEF Load
    <3>. QED
      BY <3>1, <3>2
  <2>2. loads' = loads
    BY <1>3
  <2>3. ASSUME NEW n \in 1..Len(loads) PROVE loads[n].at <= stamp'
    BY <1>1, <2>1 DEF LoadsInv
  <2>. QED
    BY <2>2, <2>3 DEF LoadsInv
<1>. QED
  BY <1>2, <1>3, <1>4, <1>5 DEF TypeOK

LEMMA OnClearTyped ==
  ASSUME TypeOK, LoadsInv, NEW k \in Keys, OnClear(k)
  PROVE  TypeOK' /\ LoadsInv'
<1>1. [key |-> k, instance |-> instance, phase |-> "sent", at |-> 0] \in Clear
  BY DEF TypeOK, Clear
<1>2. clears' \in Seq(Clear) /\ clearing' \in SUBSET Keys
  BY <1>1 DEF OnClear, TypeOK
<1>4. clearError' \in BOOLEAN
  BY DEF OnClear
<1>3. UNCHANGED <<recorded, stamp, status, rows, rowsAt, loads, instance>>
  BY DEF OnClear, server, async
<1>. QED
  BY <1>2, <1>3, <1>4 DEF TypeOK, LoadsInv

(* One load is replaced. *)
LEMMA LoadReplaced ==
  ASSUME TypeOK, NEW n \in 1..Len(loads), NEW load \in Load,
         loads' = [loads EXCEPT ![n] = load]
  PROVE  /\ loads' \in Seq(Load) /\ Len(loads') = Len(loads)
         /\ \A m \in 1..Len(loads) : loads'[m] = IF m = n THEN load ELSE loads[m]
         /\ Len(loads) \in 1..Len(loads)
BY DEF TypeOK

LEMMA LoadStepTyped ==
  ASSUME TypeOK, LoadsInv, NEW n \in 1..Len(loads), LoadStep(n)
  PROVE  TypeOK' /\ LoadsInv'
<1>1. loads[n] \in Load /\ stamp \in Nat
  BY DEF TypeOK
<1>2. CASE ServeLoad(n)
  <2>1. PICK load : load = [phase |-> "read", rows |-> recorded, at |-> stamp]
    OBVIOUS
  <2>2. /\ load \in Load /\ load.at = stamp /\ load.phase = "read"
        /\ load.rows \in [Keys -> 0..stamp]
    BY <2>1 DEF TypeOK, Load
  <2>3. /\ loads' = [loads EXCEPT ![n] = load] /\ loads[n].phase = "sent"
        /\ UNCHANGED <<recorded, stamp, status, rows, rowsAt, instance, clearing, clearError, clears>>
    BY <1>2, <2>1 DEF ServeLoad, server, table
  <2>. QED
    BY <1>1, <2>2, <2>3, LoadReplaced DEF TypeOK, LoadsInv
<1>3. CASE LoadFails(n)
  <2>1. PICK load : load = [loads[n] EXCEPT !.phase = "failed"]
    OBVIOUS
  <2>2. /\ load \in Load /\ load.phase = "failed" /\ load.at = loads[n].at
        /\ load.rows = loads[n].rows
    BY <1>1, <2>1 DEF Load
  <2>3. /\ loads' = [loads EXCEPT ![n] = load] /\ loads[n].phase \in {"sent", "read"}
        /\ UNCHANGED <<recorded, stamp, status, rows, rowsAt, instance, clearing, clearError, clears>>
    BY <1>3, <2>1 DEF LoadFails, server, table
  <2>. QED
    BY <1>1, <2>2, <2>3, LoadReplaced DEF TypeOK, LoadsInv
<1>4. CASE LoadSettles(n)
  <2>1. PICK load : load = [loads[n] EXCEPT !.phase = "settled"]
    OBVIOUS
  <2>2. /\ load \in Load /\ load.phase = "settled" /\ load.at = loads[n].at
        /\ load.rows = loads[n].rows
    BY <1>1, <2>1 DEF Load
  <2>3. /\ loads' = [loads EXCEPT ![n] = load] /\ loads[n].phase \in {"read", "failed"}
        /\ UNCHANGED <<recorded, stamp, clears>>
    BY <1>4, <2>1 DEF LoadSettles, server
  <2>4. LoadsInv' /\ loads' \in Seq(Load) /\ Len(loads') > 0
    BY <2>2, <2>3, LoadReplaced DEF TypeOK, LoadsInv
  <2>5. CASE n < Len(loads)
    <3>1. UNCHANGED <<status, rows, rowsAt, instance, clearing, clearError>>
      BY <1>4, <2>5 DEF LoadSettles, Cancelled, table
    <3>. QED
      BY <2>2, <2>3, <2>4, <2>5, <3>1, LoadReplaced DEF TypeOK
  <2>6. CASE n = Len(loads)
    <3>1. loads'[Len(loads')].phase = "settled"
      BY <2>2, <2>3, <2>6, LoadReplaced
    <3>2. /\ status' \in {"error", "ready"}
          /\ \/ UNCHANGED <<rows, rowsAt, instance, clearing, clearError>>
             \/ /\ rows' = loads[n].rows /\ rowsAt' = loads[n].at
                /\ instance' = instance + 1 /\ clearing' = {} /\ clearError' = FALSE
      BY <1>4, <2>6 DEF LoadSettles, Cancelled, table, TypeOK
    <3>3. rows' \in [Keys -> 0..rowsAt'] /\ rowsAt' \in 0..stamp
      BY <1>1, <3>2 DEF TypeOK, LoadsInv, Load
    <3>4. instance' \in Nat /\ clearing' \in SUBSET Keys
      BY <3>2 DEF TypeOK
    <3>5. clearError' \in BOOLEAN
      BY <3>2, Zenon DEF TypeOK
    <3>. QED
      BY <2>3, <2>4, <3>1, <3>2, <3>3, <3>4, <3>5 DEF TypeOK
  <2>. QED
    BY <2>5, <2>6 DEF TypeOK
<1>. QED
  BY <1>2, <1>3, <1>4 DEF LoadStep

LEMMA ReloadTyped ==
  ASSUME TypeOK, LoadsInv, Reload
  PROVE  /\ loads' \in Seq(Load) /\ Len(loads') = Len(loads) + 1
         /\ status' = "loading" /\ loads'[Len(loads')].phase = "sent"
         /\ stamp' = stamp => LoadsInv'
<1>1. /\ loads \in Seq(Load) /\ stamp \in Nat
      /\ loads' = Append(loads, NewLoad) /\ status' = "loading"
  BY DEF TypeOK, Reload
<1>2. PICK new : new = NewLoad
  OBVIOUS
<1>3. loads' \in Seq(Load) /\ Len(loads') = Len(loads) + 1 /\ loads'[Len(loads')] = new
  BY <1>1, <1>2, NewLoadTyped
<1>4. \A n \in 1..Len(loads') : loads'[n] = IF n \in 1..Len(loads) THEN loads[n] ELSE new
  BY <1>1, <1>2, NewLoadTyped
<1>5. new.at = 0 /\ new.rows \in [Keys -> 0..0] /\ new.phase = "sent"
  BY <1>2, NewLoadTyped
<1>. QED
  BY <1>1, <1>3, <1>4, <1>5 DEF LoadsInv

(* One clear is replaced. *)
LEMMA ClearReplaced ==
  ASSUME TypeOK, NEW c \in 1..Len(clears), NEW clear \in Clear,
         clears' = [clears EXCEPT ![c] = clear]
  PROVE  /\ clears' \in Seq(Clear) /\ Len(clears') = Len(clears)
         /\ \A d \in 1..Len(clears) : clears'[d] = IF d = c THEN clear ELSE clears[d]
<1>1. clears \in Seq(Clear)
  BY DEF TypeOK
<1>. QED
  BY <1>1

(* What a step of a clear makes of it. *)
LEMMA ClearStepReplaces ==
  ASSUME TypeOK, NEW c \in 1..Len(clears), ClearStep(c)
  PROVE  \E clear \in Clear :
           /\ clears' = [clears EXCEPT ![c] = clear]
           /\ clear.key = clears[c].key /\ clear.instance = clears[c].instance
           /\ \/ ServeClear(c) /\ clear.phase = "done" /\ clear.at = stamp + 1
              \/ /\ clear.at = clears[c].at
                 /\ \/ ClearFails(c) /\ clear.phase = "failed"
                    \/ Cleared(c) /\ clear.phase = "cleared"
                    \/ Reported(c) /\ clear.phase = "reported"
<1>1. clears[c] \in Clear /\ stamp \in Nat
  <2>1. clears \in Seq(Clear) /\ stamp \in Nat
    BY DEF TypeOK
  <2>. QED
    BY <2>1
<1>2. CASE ServeClear(c)
  <2>1. PICK clear : clear = [clears[c] EXCEPT !.phase = "done", !.at = stamp + 1]
    OBVIOUS
  <2>2. clear = [ key |-> clears[c].key, instance |-> clears[c].instance, phase |-> "done",
                  at |-> stamp + 1 ]
    BY <1>1, <2>1 DEF Clear
  <2>3. /\ clears[c].key \in Keys /\ clears[c].instance \in Nat
    BY <1>1 DEF Clear
  <2>4. /\ clear \in Clear /\ clear.phase = "done" /\ clear.at = stamp + 1
        /\ clear.key = clears[c].key /\ clear.instance = clears[c].instance
    BY <1>1, <2>2, <2>3 DEF Clear
  <2>5. clears' = [clears EXCEPT ![c] = clear]
    BY <1>2, <2>1 DEF ServeClear
  <2>. QED
    BY <1>2, <2>4, <2>5
<1>3. ASSUME NEW phase \in {"failed", "cleared", "reported"},
             clears' = [clears EXCEPT ![c].phase = phase]
      PROVE  \E clear \in Clear :
               /\ clears' = [clears EXCEPT ![c] = clear]
               /\ clear.key = clears[c].key /\ clear.instance = clears[c].instance
               /\ clear.at = clears[c].at /\ clear.phase = phase
  <2>1. PICK clear : clear = [clears[c] EXCEPT !.phase = phase]
    OBVIOUS
  <2>2. /\ clear \in Clear /\ clear.phase = phase /\ clear.at = clears[c].at
        /\ clear.key = clears[c].key /\ clear.instance = clears[c].instance
    BY <1>1, <2>1 DEF Clear
  <2>. QED
    BY <1>3, <2>1, <2>2
<1>4. CASE ClearFails(c)
  BY <1>3, <1>4 DEF ClearFails
<1>5. CASE Cleared(c)
  BY <1>3, <1>5 DEF Cleared
<1>6. CASE Reported(c)
  BY <1>3, <1>6 DEF Reported
<1>. QED
  BY <1>2, <1>4, <1>5, <1>6 DEF ClearStep

LEMMA ClearStepTyped ==
  ASSUME TypeOK, LoadsInv, NEW c \in 1..Len(clears), ClearStep(c)
  PROVE  TypeOK' /\ LoadsInv'
<1>1. clears' \in Seq(Clear)
  BY ClearStepReplaces, ClearReplaced
<1>2. CASE ServeClear(c)
  <2>1. /\ stamp \in Nat /\ stamp' = stamp + 1
        /\ recorded' = [recorded EXCEPT ![clears[c].key] = 0]
        /\ UNCHANGED <<status, rows, rowsAt, loads, instance, clearing, clearError>>
    BY <1>2 DEF ServeClear, TypeOK, async, table
  <2>2. recorded' \in [Keys -> 0..stamp'] /\ rowsAt' \in 0..stamp'
    <3>1. recorded \in [Keys -> 0..stamp] /\ rowsAt \in 0..stamp
      BY DEF TypeOK
    <3>2. 0..stamp \subseteq 0..stamp' /\ 0 \in 0..stamp'
      BY <2>1
    <3>. QED
      BY <2>1, <3>1, <3>2
  <2>3. \A n \in 1..Len(loads) : loads[n].at <= stamp'
    <3>1. loads \in Seq(Load)
      BY DEF TypeOK
    <3>2. \A load \in Load : load.at \in Nat
      BY DEF Load
    <3>. QED
      BY <2>1, <3>1, <3>2 DEF LoadsInv
  <2>4. LoadsInv'
    BY <2>1, <2>3 DEF LoadsInv
  <2>. QED
    BY <1>1, <2>1, <2>2, <2>4 DEF TypeOK
<1>3. CASE ClearFails(c)
  <2>1. UNCHANGED <<recorded, stamp, status, rows, rowsAt, loads, instance, clearing, clearError>>
    BY <1>3 DEF ClearFails, server, async, table
  <2>. QED
    BY <1>1, <2>1 DEF TypeOK, LoadsInv
<1>4. CASE Cleared(c)
  <2>1. /\ Reload
        /\ UNCHANGED <<recorded, stamp, instance, clearError>>
        /\ clearing' \subseteq clearing
    BY <1>4 DEF Cleared, server
  <2>2. UNCHANGED <<rows, rowsAt>>
    BY <2>1 DEF Reload
  <2>3. /\ loads' \in Seq(Load) /\ Len(loads') > 0 /\ LoadsInv'
        /\ status' = "loading" /\ loads'[Len(loads')].phase # "settled"
    <3>1. loads \in Seq(Load)
      BY DEF TypeOK
    <3>. QED
      BY <2>1, <3>1, ReloadTyped
  <2>. QED
    BY <1>1, <2>1, <2>2, <2>3 DEF TypeOK
<1>5. CASE Reported(c)
  <2>1. /\ UNCHANGED <<recorded, stamp, status, rows, rowsAt, loads, instance>>
        /\ clearing' \subseteq clearing
    BY <1>5 DEF Reported, server, async
  <2>2. clearError' \in BOOLEAN
    BY <1>5, Zenon DEF Reported, TypeOK
  <2>. QED
    BY <1>1, <2>1, <2>2 DEF TypeOK, LoadsInv
<1>. QED
  BY <1>2, <1>3, <1>4, <1>5 DEF ClearStep

LEMMA TypeKept == TypeOK /\ LoadsInv /\ [Next]_vars => TypeOK' /\ LoadsInv'
<1>. SUFFICES ASSUME TypeOK, LoadsInv, [Next]_vars PROVE TypeOK' /\ LoadsInv'
  OBVIOUS
<1>1. CASE UNCHANGED vars
  BY <1>1 DEF vars, server, async, table, TypeOK, LoadsInv
<1>. QED
  BY <1>1, DecideTyped, OnClearTyped, LoadStepTyped, ClearStepTyped DEF Next

LEMMA TypeInvariant == Spec => [](TypeOK /\ LoadsInv)
BY InitTyped, TypeKept, PTL DEF Spec

(* The page is loading exactly while its last load is out, and what it     *)
(* shows was read from the server in some state it has been in.            *)
THEOREM TypeCorrect == Spec => []TypeOK
BY TypeInvariant, PTL

-----------------------------------------------------------------------------
(* The table after a clear. *)

Last == loads[Len(loads)]

(* What the table shows, and what the last load has read for it, is later  *)
(* than every clear that resolved; nothing the server did is later than it. *)
ReflectInv ==
  /\ \A c \in 1..Len(clears) : clears[c].phase \in {"done", "cleared"} => clears[c].at <= stamp
  /\ Last.phase = "read" =>
       /\ rowsAt <= Last.at
       /\ \A c \in 1..Len(clears) : clears[c].phase = "cleared" => clears[c].at <= Last.at
  /\ status = "ready" =>
       \A c \in 1..Len(clears) : clears[c].phase = "cleared" => clears[c].at <= rowsAt

Types ==
  /\ loads \in Seq(Load)
  /\ stamp \in Nat /\ rowsAt \in Nat /\ rowsAt <= stamp
  /\ Len(loads) \in Nat /\ Len(loads) > 0
  /\ \A n \in 1..Len(loads) : loads[n] \in Load /\ loads[n].at \in Nat
  /\ Len(clears) \in Nat
  /\ \A c \in 1..Len(clears) : clears[c] \in Clear /\ clears[c].at \in Nat
  /\ status = "loading" <=> Last.phase # "settled"

LEMMA TypesHold == TypeOK => Types
<1>. SUFFICES ASSUME TypeOK PROVE Types
  OBVIOUS
<1>1. loads \in Seq(Load) /\ clears \in Seq(Clear) /\ stamp \in Nat /\ rowsAt \in 0..stamp
      /\ Len(loads) > 0 /\ (status = "loading" <=> Last.phase # "settled")
  BY DEF TypeOK, Last
<1>2. (\A load \in Load : load.at \in Nat) /\ (\A clear \in Clear : clear.at \in Nat)
  BY DEF Load, Clear
<1>. QED
  BY <1>1, <1>2 DEF Types

(* A step of a load. *)
LEMMA LoadStepReflects ==
  ASSUME TypeOK, ReflectInv, NEW n \in 1..Len(loads), LoadStep(n)
  PROVE  ReflectInv' /\ rowsAt' >= rowsAt
<1>. Types
  BY TypesHold
<1>1. clears' = clears /\ stamp' = stamp /\ Len(loads') = Len(loads)
      /\ \A m \in 1..Len(loads) : m # n => loads'[m] = loads[m]
  BY LoadReplaced DEF LoadStep, ServeLoad, LoadFails, LoadSettles, server, Types, TypeOK
<1>2. CASE n # Len(loads)
  <2>1. Last' = Last /\ UNCHANGED <<status, rowsAt>>
    BY <1>1, <1>2 DEF Last, LoadStep, ServeLoad, LoadFails, LoadSettles, Cancelled, Types
  <2>. QED
    BY <1>1, <2>1 DEF ReflectInv, Types
<1>3. CASE n = Len(loads) /\ ServeLoad(n)
  <2>1. Last' = [phase |-> "read", rows |-> recorded, at |-> stamp] /\ UNCHANGED <<status, rowsAt>>
    <3>1. PICK load : load = [phase |-> "read", rows |-> recorded, at |-> stamp]
      OBVIOUS
    <3>2. loads' = [loads EXCEPT ![n] = load] /\ UNCHANGED <<status, rowsAt>>
      BY <1>3, <3>1 DEF ServeLoad
    <3>3. loads'[n] = load
      BY <3>2 DEF Types
    <3>. QED
      BY <1>1, <1>3, <3>1, <3>2, <3>3 DEF Last
  <2>2. Last.phase = "sent"
    BY <1>3 DEF ServeLoad, Last
  <2>. QED
    BY <1>1, <2>1, <2>2 DEF ReflectInv, Types
<1>4. CASE n = Len(loads) /\ LoadFails(n)
  <2>1. Last'.phase = "failed" /\ UNCHANGED <<status, rowsAt>>
    BY <1>1, <1>4 DEF LoadFails, Last, Types, Load
  <2>. QED
    BY <1>1, <2>1 DEF ReflectInv, Types
<1>5. CASE n = Len(loads) /\ LoadSettles(n)
  <2>1. Last'.phase = "settled"
    BY <1>1, <1>5 DEF LoadSettles, Last, Types, Load
  <2>2. \/ status' = "error" /\ rowsAt' = rowsAt
        \/ Last.phase = "read" /\ status' = "ready" /\ rowsAt' = Last.at
    BY <1>5 DEF LoadSettles, Cancelled, Last, Types
  <2>. QED
    BY <1>1, <2>1, <2>2 DEF ReflectInv, Types
<1>. QED
  BY <1>2, <1>3, <1>4, <1>5 DEF LoadStep

(* A step of a clear. *)
LEMMA ClearStepReflects ==
  ASSUME TypeOK, ReflectInv, NEW c \in 1..Len(clears), ClearStep(c)
  PROVE  ReflectInv' /\ rowsAt' = rowsAt
<1>. Types
  BY TypesHold
<1>1. PICK clear \in Clear :
        /\ clears' = [clears EXCEPT ![c] = clear]
        /\ \/ ServeClear(c) /\ clear.phase = "done" /\ clear.at = stamp + 1
           \/ /\ clear.at = clears[c].at
              /\ \/ ClearFails(c) /\ clear.phase = "failed"
                 \/ Cleared(c) /\ clear.phase = "cleared"
                 \/ Reported(c) /\ clear.phase = "reported"
  BY ClearStepReplaces
<1>2. /\ Len(clears') = Len(clears)
      /\ \A d \in 1..Len(clears) : clears'[d] = IF d = c THEN clear ELSE clears[d]
  BY <1>1, ClearReplaced
<1>3. CASE ServeClear(c) /\ clear.phase = "done" /\ clear.at = stamp + 1
  <2>1. stamp' = stamp + 1 /\ UNCHANGED <<status, rowsAt, loads>>
    BY <1>3 DEF ServeClear, async
  <2>2. ASSUME NEW d \in 1..Len(clears), clears'[d].phase \in {"done", "cleared"}
        PROVE  clears'[d].at <= stamp'
    BY <1>2, <1>3, <2>1, <2>2 DEF ReflectInv, Types
  <2>3. ASSUME NEW d \in 1..Len(clears), clears'[d].phase = "cleared"
        PROVE  clears[d].phase = "cleared" /\ clears'[d].at = clears[d].at
    BY <1>2, <1>3, <2>3
  <2>4. Last' = Last
    BY <2>1 DEF Last
  <2>. QED
    BY <1>2, <2>1, <2>2, <2>3, <2>4 DEF ReflectInv
<1>4. CASE ClearFails(c) /\ clear.phase = "failed"
  <2>1. UNCHANGED <<stamp, status, rowsAt, loads>>
    BY <1>4 DEF ClearFails, server, async
  <2>. QED
    BY <1>2, <1>4, <2>1 DEF ReflectInv, Types, Last
<1>5. CASE Cleared(c) /\ clear.phase = "cleared" /\ clear.at = clears[c].at
  <2>1. clears[c].phase = "done" /\ Reload /\ UNCHANGED <<stamp, rowsAt>>
    BY <1>5 DEF Cleared, Reload, server
  <2>2. status' = "loading" /\ Last'.phase = "sent"
    <3>1. loads' = Append(loads, NewLoad)
      BY <2>1 DEF Reload
    <3>2. PICK new : new = NewLoad
      OBVIOUS
    <3>3. Last' = new /\ new.phase = "sent"
      BY <3>1, <3>2, NewLoadTyped DEF Last, Types
    <3>. QED
      BY <2>1, <3>3 DEF Reload
  <2>. QED
    BY <1>2, <1>5, <2>1, <2>2 DEF ReflectInv, Types
<1>6. CASE Reported(c) /\ clear.phase = "reported"
  <2>1. UNCHANGED <<stamp, status, rowsAt, loads>>
    BY <1>6 DEF Reported, server, async
  <2>. QED
    BY <1>2, <1>6, <2>1 DEF ReflectInv, Types, Last
<1>. QED
  BY <1>1, <1>3, <1>4, <1>5, <1>6

LEMMA ReflectKept ==
  TypeOK /\ ReflectInv /\ [Next]_vars => ReflectInv' /\ rowsAt' >= rowsAt
<1>. SUFFICES ASSUME TypeOK, ReflectInv, [Next]_vars PROVE ReflectInv' /\ rowsAt' >= rowsAt
  OBVIOUS
<1>. Types
  BY TypesHold
<1>1. ASSUME NEW k \in Keys, Decide(k) PROVE ReflectInv' /\ rowsAt' = rowsAt
  <2>1. stamp' = stamp + 1 /\ UNCHANGED <<status, rowsAt, loads, clears>>
    BY <1>1 DEF Decide, async
  <2>. QED
    BY <2>1 DEF ReflectInv, Last, Types
<1>2. ASSUME NEW k \in Keys, OnClear(k) PROVE ReflectInv' /\ rowsAt' = rowsAt
  <2>1. PICK clear : clear = [key |-> k, instance |-> instance, phase |-> "sent", at |-> 0]
    OBVIOUS
  <2>2. /\ clears' = Append(clears, clear) /\ clear.phase = "sent"
        /\ UNCHANGED <<stamp, status, rowsAt, loads>>
    BY <1>2, <2>1 DEF OnClear, server, async
  <2>3. /\ Len(clears') = Len(clears) + 1
        /\ \A c \in 1..Len(clears') : clears'[c] = IF c \in 1..Len(clears) THEN clears[c] ELSE clear
    <3>1. clears \in Seq(Clear)
      BY DEF TypeOK
    <3>. QED
      BY <2>2, <3>1
  <2>. QED
    BY <2>2, <2>3 DEF ReflectInv, Last, Types
<1>3. CASE UNCHANGED vars
  BY <1>3 DEF vars, server, async, ReflectInv, Last, Types
<1>. QED
  BY <1>1, <1>2, <1>3, LoadStepReflects, ClearStepReflects DEF Next, Types

LEMMA ReflectInvariant == Spec => [](TypeOK /\ ReflectInv)
<1>1. Init => ReflectInv
  BY NewLoadTyped DEF Init, ReflectInv, Last
<1>. QED
  BY <1>1, ReflectKept, TypeInvariant, PTL DEF Spec

(* After a successful clear the table was read from the server later than  *)
(* that clear, with any number of clears and reloads in between.           *)
THEOREM ReflectsClearsHolds == Spec => []ReflectsClears
<1>1. ReflectInv => ReflectsClears
  BY DEF ReflectInv, ReflectsClears
<1>. QED
  BY <1>1, ReflectInvariant, PTL

(* The table never shows an older read than it has shown: a stale load of  *)
(* useAsync is cancelled.                                                  *)
THEOREM NeverGoesBackHolds == Spec => NeverGoesBack
<1>1. TypeOK /\ ReflectInv /\ [Next]_vars => [rowsAt' >= rowsAt]_vars
  BY ReflectKept
<1>. QED
  BY <1>1, ReflectInvariant, PTL DEF Spec, NeverGoesBack

-----------------------------------------------------------------------------
(* The Clear buttons. *)

LEMMA ButtonsKept == TypeOK /\ ButtonComesBack /\ [Next]_vars => ButtonComesBack'
<1>. SUFFICES ASSUME TypeOK, ButtonComesBack, [Next]_vars,
                     status' = "ready", NEW k \in clearing'
              PROVE  \E c \in 1..Len(clears') :
                       /\ clears'[c].key = k /\ clears'[c].instance = instance'
                       /\ clears'[c].phase \in {"sent", "done", "failed"}
  BY DEF ButtonComesBack, InFlight
<1>. Types
  BY TypesHold
<1>1. ASSUME status = "ready", k \in clearing
      PROVE  \E c \in 1..Len(clears) :
               /\ clears[c].key = k /\ clears[c].instance = instance
               /\ clears[c].phase \in {"sent", "done", "failed"}
  BY <1>1 DEF ButtonComesBack, InFlight
<1>2. CASE UNCHANGED <<status, instance, clearing, clears>>
  BY <1>1, <1>2
<1>3. ASSUME NEW j \in Keys, OnClear(j)
      PROVE  \E c \in 1..Len(clears') :
               /\ clears'[c].key = k /\ clears'[c].instance = instance'
               /\ clears'[c].phase \in {"sent", "done", "failed"}
  <2>1. PICK clear : clear = [key |-> j, instance |-> instance, phase |-> "sent", at |-> 0]
    OBVIOUS
  <2>2. /\ clears' = Append(clears, clear) /\ status = "ready"
        /\ clearing' = clearing \cup {j} /\ instance' = instance
        /\ clear.key = j /\ clear.instance = instance /\ clear.phase = "sent"
    BY <1>3, <2>1 DEF OnClear, Enabled
  <2>3. /\ Len(clears') = Len(clears) + 1 /\ clears'[Len(clears) + 1] = clear
        /\ \A c \in 1..Len(clears) : clears'[c] = clears[c]
    <3>1. clears \in Seq(Clear)
      BY DEF TypeOK
    <3>. QED
      BY <2>2, <3>1
  <2>4. CASE k = j
    BY <2>2, <2>3, <2>4 DEF Types
  <2>5. CASE k \in clearing
    BY <1>1, <2>2, <2>3, <2>5 DEF Types
  <2>. QED
    BY <2>2, <2>4, <2>5
<1>4. ASSUME NEW n \in 1..Len(loads), LoadStep(n)
      PROVE  clearing' = {} \/ UNCHANGED <<status, instance, clearing, clears>>
  BY <1>4 DEF LoadStep, ServeLoad, LoadFails, LoadSettles, table
<1>5. ASSUME NEW c \in 1..Len(clears), ClearStep(c)
      PROVE  \E d \in 1..Len(clears') :
               /\ clears'[d].key = k /\ clears'[d].instance = instance'
               /\ clears'[d].phase \in {"sent", "done", "failed"}
  <2>1. PICK clear \in Clear :
          /\ clears' = [clears EXCEPT ![c] = clear]
          /\ clear.key = clears[c].key /\ clear.instance = clears[c].instance
          /\ \/ ServeClear(c) /\ clear.phase = "done"
             \/ ClearFails(c) /\ clear.phase = "failed"
             \/ Cleared(c)
             \/ Reported(c)
    BY <1>5, ClearStepReplaces
  <2>2. /\ Len(clears') = Len(clears)
        /\ \A d \in 1..Len(clears) : clears'[d] = IF d = c THEN clear ELSE clears[d]
    BY <2>1, ClearReplaced
  <2>3. CASE \/ ServeClear(c) /\ clear.phase = "done"
             \/ ClearFails(c) /\ clear.phase = "failed"
    <3>1. UNCHANGED <<status, instance, clearing>>
      BY <2>3 DEF ServeClear, ClearFails, async, table
    <3>. QED
      BY <1>1, <2>1, <2>2, <2>3, <3>1
  <2>4. CASE Cleared(c)
    BY <2>4 DEF Cleared, Reload
  <2>5. CASE Reported(c)
    <3>1. /\ status' = status /\ instance' = instance
          /\ clears[c].instance = instance => clearing' = clearing \ {clears[c].key}
          /\ clearing' \subseteq clearing
      BY <2>5 DEF Reported, Mounted, async
    <3>2. PICK d \in 1..Len(clears) :
            /\ clears[d].key = k /\ clears[d].instance = instance
            /\ clears[d].phase \in {"sent", "done", "failed"}
      BY <1>1, <3>1
    <3>3. d # c
      BY <3>1, <3>2
    <3>. QED
      BY <2>2, <3>1, <3>2, <3>3
  <2>. QED
    BY <2>1, <2>3, <2>4, <2>5
<1>6. ASSUME NEW j \in Keys, Decide(j)
      PROVE  UNCHANGED <<status, instance, clearing, clears>>
  BY <1>6 DEF Decide, async, table
<1>7. CASE UNCHANGED vars
  BY <1>2, <1>7 DEF vars, async, table
<1>. QED
  BY <1>2, <1>3, <1>4, <1>5, <1>6, <1>7 DEF Next

(* A row that reads "Clearing" has a request of this table in flight.      *)
THEOREM ButtonComesBackHolds == Spec => []ButtonComesBack
<1>1. Init => ButtonComesBack
  BY DEF Init, ButtonComesBack
<1>. QED
  BY <1>1, ButtonsKept, TypeInvariant, PTL DEF Spec
=============================================================================
