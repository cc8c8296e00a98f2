----------------------------- MODULE MCDashboard -----------------------------
(***************************************************************************)
(* A small instance of Dashboard: one document has a dependency at key 1,  *)
(* the other at keys 1 and 2, with an advisory more at 2 and a release     *)
(* whose name is no version.                                               *)
(***************************************************************************)
EXTENDS Dashboard, TLC

CONSTANTS P, X, Y, Other

MCKeys == {1, 2}
MCRepoKindName == <<"dep", "dep">>
MCVersions == {1, 2}
MCParseVersion == <<<<1>>, Null>>

It(latest, gap, status, ids) ==
  [ pinned |-> P, latest |-> latest, gap |-> gap, advisoryStatus |-> status,
    advisories |-> {[id |-> a, affected |-> TRUE] : a \in ids} ]

MCDocs ==
  { [generatedAt |-> 1, items |-> (1 :> It(1, "minor", "affected", {X}))],
    [generatedAt |-> 2, items |-> (1 :> It(Null, "major", "none", {}) @@
                                   2 :> It(2, "patch", "affected", {X, Y}))] }

MCElsewhere ==
  { [key |-> 2, patch |-> [field |-> "skippedVersion", value |-> 1]] }
=============================================================================
