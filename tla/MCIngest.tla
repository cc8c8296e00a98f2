------------------------------- MODULE MCIngest -------------------------------
(***************************************************************************)
(* Every pair of an inventory and a report of at most two entries each     *)
(* over two keys, at two times.                                            *)
(***************************************************************************)
EXTENDS Ingest, TLC

CONSTANTS P1, P2, L1, L2

AtMostTwo(S) == {<<>>} \cup [{1} -> S] \cup [{1, 2} -> S]

MCPosts ==
  [ generatedAt : {1, 2},
    inventory : AtMostTwo([key : {1, 2}, pinned : {P1, P2}]),
    report : AtMostTwo([key : {1, 2}, latest : {L1, L2}]) ]
=============================================================================
