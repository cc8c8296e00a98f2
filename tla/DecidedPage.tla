----------------------------- MODULE DecidedPage -----------------------------
(***************************************************************************)
(* The Decided page (routes/Decided.tsx) on top of useAsync: the table of  *)
(* decisions, the Clear button of each row, and the requests they send,    *)
(* while other people decide items again.                                  *)
(*                                                                         *)
(* useAsync numbers its loads by the reload token; the `cancelled` flag of *)
(* a load is up once a newer one has started.  DecidedTables is unmounted  *)
(* while a load runs, and a new instance of it, with a fresh `clearing`    *)
(* set, mounts when the load is in; the callbacks of an unmounted instance *)
(* set its state to no effect.  A decision is the stamp it was made at.    *)
(***************************************************************************)
EXTENDS Naturals, Sequences

CONSTANTS
  Keys,
  MaxClears,    \* bound: Clear requests
  MaxDecides,   \* bound: decisions made elsewhere meanwhile
  MaxFailures   \* bound: requests that fail or whose answer is lost

ASSUME BoundsAssumption == MaxClears \in Nat /\ MaxDecides \in Nat /\ MaxFailures \in Nat

VARIABLES
  recorded,   \* [Keys -> stamp of the decision on the server, or 0]
  stamp,      \* changes of the decisions table so far
  status,     \* AsyncState.status
  rows,       \* AsyncState.data: what the table shows
  rowsAt,     \* the stamp the server was at when it read them
  loads,      \* the GET requests, by reload token
  instance,   \* which DecidedTables is mounted, or was mounted last
  clearing,   \* its `clearing` set
  clearError, \* its error line
  clears,     \* the PUT {clear: true} requests
  decides, failures

server == <<recorded, stamp>>
async == <<status, rows, rowsAt, loads>>
table == <<instance, clearing, clearError>>
vars == <<server, async, table, clears, decides, failures>>

Load == [phase : {"sent", "read", "failed", "settled"}, rows : [Keys -> Nat], at : Nat]
Clear == [key : Keys, instance : Nat, phase : {"sent", "done", "failed", "cleared", "reported"}, at : Nat]

NoRows == [k \in Keys |-> 0]
NewLoad == [phase |-> "sent", rows |-> NoRows, at |-> 0]

InFlight(c) == clears[c].phase \in {"sent", "done", "failed"}

-----------------------------------------------------------------------------
(* The server, and what other people do. *)

Decide(k) ==
  /\ decides < MaxDecides
  /\ decides' = decides + 1
  /\ stamp' = stamp + 1
  /\ recorded' = [recorded EXCEPT ![k] = stamp']
  /\ UNCHANGED <<async, table, clears, failures>>

ServeLoad(n) ==
  /\ loads[n].phase = "sent"
  /\ loads' = [loads EXCEPT ![n] = [phase |-> "read", rows |-> recorded, at |-> stamp]]
  /\ UNCHANGED <<server, status, rows, rowsAt, table, clears, decides, failures>>

(* Clearing what is not there is a 200 as well. *)
ServeClear(c) ==
  /\ clears[c].phase = "sent"
  /\ stamp' = stamp + 1
  /\ recorded' = [recorded EXCEPT ![clears[c].key] = 0]
  /\ clears' = [clears EXCEPT ![c].phase = "done", ![c].at = stamp']
  /\ UNCHANGED <<async, table, decides, failures>>

Fail == failures < MaxFailures /\ failures' = failures + 1

LoadFails(n) ==
  /\ loads[n].phase \in {"sent", "read"}
  /\ Fail
  /\ loads' = [loads EXCEPT ![n].phase = "failed"]
  /\ UNCHANGED <<server, status, rows, rowsAt, table, clears, decides>>

ClearFails(c) ==
  /\ clears[c].phase \in {"sent", "done"}
  /\ Fail
  /\ clears' = [clears EXCEPT ![c].phase = "failed"]
  /\ UNCHANGED <<server, async, table, decides>>

-----------------------------------------------------------------------------
(* useAsync. *)

Cancelled_Never(n) == FALSE   \* mutant: no cancelled flag

Cancelled_Always(n) == TRUE   \* mutant: the flag is raised as soon as the load starts

Cancelled(n) == n < Len(loads)

(* The load settles: its outcome becomes the state unless it is stale. *)
LoadSettles(n) ==
  /\ loads[n].phase \in {"read", "failed"}
  /\ loads' = [loads EXCEPT ![n].phase = "settled"]
  /\ IF Cancelled(n) THEN UNCHANGED <<status, rows, rowsAt, table>>
     ELSE IF loads[n].phase = "failed"
     THEN status' = "error" /\ UNCHANGED <<rows, rowsAt, table>>
     ELSE /\ status' = "ready"
          /\ rows' = loads[n].rows
          /\ rowsAt' = loads[n].at
          /\ instance' = instance + 1
          /\ clearing' = {}
          /\ clearError' = FALSE
  /\ UNCHANGED <<server, clears, decides, failures>>

(* Mutant: the table stays on the screen while it reloads. *)
Reload_KeepsTable ==
  /\ loads' = Append(loads, NewLoad)
  /\ UNCHANGED <<status, rows, rowsAt>>

(* A new reload token: the effect runs again. *)
Reload ==
  /\ loads' = Append(loads, NewLoad)
  /\ status' = "loading"
  /\ UNCHANGED <<rows, rowsAt>>

-----------------------------------------------------------------------------
(* DecidedTables. *)

(* The Clear button of a row can be pressed. *)
Enabled(k) == status = "ready" /\ rows[k] # 0 /\ k \notin clearing

(* onClear, up to its await. *)
OnClear(k) ==
  /\ Enabled(k)
  /\ Len(clears) < MaxClears
  /\ clears' = Append(clears, [key |-> k, instance |-> instance, phase |-> "sent", at |-> 0])
  /\ clearing' = clearing \cup {k}
  /\ clearError' = FALSE
  /\ UNCHANGED <<server, async, instance, decides, failures>>

Mounted(c) == status = "ready" /\ clears[c].instance = instance

(* Mutant: the page trusts its table after a clear. *)
Cleared_NoReload(c) ==
  /\ clears[c].phase = "done"
  /\ clears' = [clears EXCEPT ![c].phase = "cleared"]
  /\ clearing' = IF Mounted(c) THEN clearing \ {clears[c].key} ELSE clearing
  /\ UNCHANGED <<server, async, instance, clearError, decides, failures>>

(* The clear resolved: onCleared, of a mounted or an unmounted table. *)
Cleared(c) ==
  /\ clears[c].phase = "done"
  /\ clears' = [clears EXCEPT ![c].phase = "cleared"]
  /\ Reload
  /\ clearing' = IF Mounted(c) THEN clearing \ {clears[c].key} ELSE clearing
  /\ UNCHANGED <<server, instance, clearError, decides, failures>>

(* Mutant: the key leaves `clearing` only when the clear succeeded. *)
Reported_KeepsKey(c) ==
  /\ clears[c].phase = "failed"
  /\ clears' = [clears EXCEPT ![c].phase = "reported"]
  /\ clearError' = IF Mounted(c) THEN TRUE ELSE clearError
  /\ UNCHANGED <<server, async, instance, clearing, decides, failures>>

(* The clear rejected. *)
Reported(c) ==
  /\ clears[c].phase = "failed"
  /\ clears' = [clears EXCEPT ![c].phase = "reported"]
  /\ clearing' = IF Mounted(c) THEN clearing \ {clears[c].key} ELSE clearing
  /\ clearError' = IF Mounted(c) THEN TRUE ELSE clearError
  /\ UNCHANGED <<server, async, instance, decides, failures>>

-----------------------------------------------------------------------------

(* The page opens on a server where every key is decided. *)
Init ==
  /\ recorded = [k \in Keys |-> 1]
  /\ stamp = 1
  /\ status = "loading"
  /\ rows = NoRows
  /\ rowsAt = 0
  /\ loads = <<NewLoad>>
  /\ instance = 0
  /\ clearing = {}
  /\ clearError = FALSE
  /\ clears = <<>>
  /\ decides = 0
  /\ failures = 0

LoadStep(n) == ServeLoad(n) \/ LoadFails(n) \/ LoadSettles(n)
ClearStep(c) == ServeClear(c) \/ ClearFails(c) \/ Cleared(c) \/ Reported(c)

Next ==
  \/ \E k \in Keys : Decide(k) \/ OnClear(k)
  \/ \E n \in 1..Len(loads) : LoadStep(n)
  \/ \E c \in 1..Len(clears) : ClearStep(c)

Spec == Init /\ [][Next]_vars

(* A request is answered or fails, and its callback then runs. *)
FairSpec ==
  /\ Spec
  /\ \A n \in 1..(MaxClears + 1) : WF_vars(n \in 1..Len(loads) /\ LoadStep(n))
  /\ \A c \in 1..MaxClears : WF_vars(c \in 1..Len(clears) /\ ClearStep(c))

-----------------------------------------------------------------------------
(* Properties. *)

TypeOK ==
  /\ recorded \in [Keys -> 0..stamp]
  /\ stamp \in Nat
  /\ status \in {"loading", "error", "ready"}
  /\ rows \in [Keys -> 0..rowsAt]
  /\ rowsAt \in 0..stamp
  /\ loads \in Seq(Load) /\ Len(loads) > 0
  /\ status = "loading" <=> loads[Len(loads)].phase # "settled"
  /\ instance \in Nat
  /\ clearing \in SUBSET Keys
  /\ clearError \in BOOLEAN
  /\ clears \in Seq(Clear)

(* What the page shows is never older than what it showed before, in       *)
(* whatever order the answers to its loads come in (useAsync, cancelled).  *)
NeverGoesBack == [][rowsAt' >= rowsAt]_vars

(* After a successful clear the table was read from the server later than  *)
(* that clear ("so the table reflects the server rather than a locally-    *)
(* mutated copy"), with other clears and their reloads in between.         *)
ReflectsClears ==
  status = "ready" =>
    \A c \in 1..Len(clears) : clears[c].phase = "cleared" => clears[c].at <= rowsAt

(* A row that reads "Clearing" has a request of this table in flight: a    *)
(* failed clear gives its button back.                                     *)
ButtonComesBack ==
  status = "ready" =>
    \A k \in clearing : \E c \in 1..Len(clears) :
      clears[c].key = k /\ clears[c].instance = instance /\ InFlight(c)

(* The page never hangs on its loading text, however many clears reload it *)
(* while an earlier load is out.                                           *)
LoadingEnds == status = "loading" ~> status # "loading"

-----------------------------------------------------------------------------
(* A claim of the repository the code does not keep. *)

(* "A SET of in-flight keys, not one scalar", lest "the first row re-      *)
(* enabled its button while its request was still outstanding (inviting a  *)
(* duplicate)": no Clear button is enabled while its request is out.       *)
NoDuplicateClear ==
  \A c \in 1..Len(clears) : InFlight(c) => ~Enabled(clears[c].key)
=============================================================================
