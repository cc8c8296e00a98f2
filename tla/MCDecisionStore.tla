--------------------------- MODULE MCDecisionStore ---------------------------
(***************************************************************************)
(* A small instance of DecisionStore.  Keys 1 and 2 are two places of one  *)
(* dependency, key 3 is another item whose name holds a "|", so that its   *)
(* key alone does not identify it.  The documents move the dependency from *)
(* 1 to 2, with or without a time when both are live.                      *)
(***************************************************************************)
EXTENDS DecisionStore, TLC

CONSTANTS NoVersion, P1, P2, X, Y, U

MCKeys == {1, 2, 3}
MCRepoKindName == <<"dep", "dep", "other">>
MCWellFormed == {1, 2}
MCVersions == {1, NoVersion}
MCParseVersion == 1 :> <<1>> @@ NoVersion :> Null

Adv(affecting, others) ==
  {[id |-> a, affected |-> TRUE] : a \in affecting} \cup
  {[id |-> a, affected |-> FALSE] : a \in others}

It(pinned, latest, gap, status, advisories) ==
  [ pinned |-> pinned, latest |-> latest, gap |-> gap,
    advisoryStatus |-> status, advisories |-> advisories ]

Before == It(P1, 1, "minor", "affected", Adv({X}, {}))
After == It(P2, 1, "minor", "affected", Adv({X, Y}, {}))
Plain == It(P1, Null, "unknown", "none", {})

(* Only the place of the dependency differs between the documents. *)
MCDocs ==
  { [generatedAt |-> 1, items |-> (1 :> Before)],
    [generatedAt |-> 2, items |-> (1 :> Before @@ 2 :> Before)],
    [generatedAt |-> 3, items |-> (2 :> After @@ 3 :> Plain)] }
=============================================================================
