----------------------------- MODULE MCSoundness -----------------------------
(***************************************************************************)
(* A small instance of Soundness and History: one repo has a dependency in *)
(* two places (keys 1 and 2), another has one item (key 3), and a third is *)
(* known only by its Dependabot read-back.                                 *)
(***************************************************************************)
EXTENDS History, TLC

CONSTANTS P1, P2, X, U, A, B, C

MCKeys == {1, 2, 3}
MCRepoKindName == <<"dep", "dep", "other">>
MCRepoOf == <<A, A, B>>

(* "2", "2.0", "2.1" and one the pattern does not match. *)
MCVersions == {1, 2, 3, 4}
MCParseVersion == <<<<2>>, <<2, 0>>, <<2, 1>>, Null>>

It(pinned, latest, gap, status, advisories) ==
  [ pinned |-> pinned, latest |-> latest, gap |-> gap,
    advisoryStatus |-> status, advisories |-> advisories ]

Exposed == It(P1, 1, "minor", "affected", {[id |-> X, affected |-> TRUE]})
Moved == It(P2, 3, "patch", "historical-only", {[id |-> X, affected |-> FALSE]})
Respelled == It(P1, 2, "minor", "affected", {[id |-> X, affected |-> TRUE]})
Unseen == It(P1, Null, Null, Null, {})
Floating == It(P1, Null, "unknown", "affected", {[id |-> X, affected |-> TRUE]})

MCDocs ==
  { [generatedAt |-> 1, items |-> (1 :> Exposed @@ 3 :> Floating)],
    [generatedAt |-> 2, items |-> (1 :> Exposed @@ 2 :> Respelled @@ 3 :> Unseen)],
    [generatedAt |-> 3, items |-> (2 :> Moved)] }

(* Of A the first document has items and a read-back, of C the first and   *)
(* the third have a read-back alone; of B the third has neither.           *)
MCDependabotRepos ==
  [doc \in MCDocs |-> CASE doc.generatedAt = 1 -> {A, C}
                        [] doc.generatedAt = 2 -> {}
                        [] doc.generatedAt = 3 -> {C}]
=============================================================================
