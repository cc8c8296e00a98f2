----------------------------- MODULE MCStoreTxn -----------------------------
(***************************************************************************)
(* A small instance of StoreTxn: two users who decide and clear the same   *)
(* item, a publisher with two documents, one of them also in a bad body.   *)
(***************************************************************************)
EXTENDS StoreTxn, TLC

CONSTANTS P, X, Ann, Bob

MCKeys == {1, 2}
MCRepoKindName == <<"dep", "other">>
MCVersions == {1}
MCParseVersion == <<<<1>>>>

Outdated ==
  [ pinned |-> P, latest |-> 1, gap |-> "minor", advisoryStatus |-> "affected",
    advisories |-> {[id |-> X, affected |-> TRUE]} ]

Both == [generatedAt |-> 1, items |-> (1 :> Outdated @@ 2 :> Outdated)]
Only == [generatedAt |-> 2, items |-> (1 :> Outdated)]
MCDocs == {Both, Only}

Put1(patch, known) == [kind |-> "put", known |-> known, key |-> 1, patch |-> patch]

MCPuts ==
  Ann :> { Put1([field |-> "approvedVersion", value |-> 1], TRUE), Put1(ClearPatch, TRUE) } @@
  Bob :> { Put1([field |-> "acknowledgedAdvisories", value |-> {X}], TRUE),
           Put1([field |-> "remindAt", value |-> 1], FALSE) }

MCPosts ==
  [kind : {"post"}, known : {TRUE}, orphaned : {FALSE}, doc : MCDocs]
    \cup [kind : {"post"}, known : {TRUE}, orphaned : {TRUE}, doc : {Only}]
=============================================================================
