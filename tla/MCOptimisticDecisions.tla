------------------------ MODULE MCOptimisticDecisions ------------------------
(***************************************************************************)
(* Small instances of OptimisticDecisions.                                 *)
(***************************************************************************)
EXTENDS OptimisticDecisions

Undecided ==
  [ hasGap |-> TRUE, hasAdvisory |-> TRUE, recorded |-> Null, carried |-> Null,
    inOrder |-> TRUE, losses |-> 0 ]

Skipped == [target |-> "skippedVersion", acked |-> FALSE, by |-> User]
Acknowledged == [target |-> Null, acked |-> TRUE, by |-> User]

Unreliable == [Undecided EXCEPT !.inOrder = FALSE, !.losses = 3]

(* One axis on a network that loses and reorders, undecided or decided on  *)
(* the other axis; both axes on one that does neither, undecided or with a *)
(* decision carried over from the key the item had before.                 *)
MCRows ==
  { [Unreliable EXCEPT !.hasAdvisory = FALSE],
    [Unreliable EXCEPT !.hasGap = FALSE, !.recorded = Skipped],
    Undecided,
    [Undecided EXCEPT !.carried = Skipped],
    [Undecided EXCEPT !.carried = Acknowledged] }

MCBothFail == {[Undecided EXCEPT !.losses = 2]}

MCReordered == {[Undecided EXCEPT !.inOrder = FALSE]}
=============================================================================
