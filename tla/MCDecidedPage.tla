---------------------------- MODULE MCDecidedPage ----------------------------
(***************************************************************************)
(* DecidedPage with two rows, the fewest that can be cleared at a time.    *)
(***************************************************************************)
EXTENDS DecidedPage

CONSTANTS a, b
=============================================================================
