------------------------------- MODULE MCTheme -------------------------------
(***************************************************************************)
(* Three themes, of which one is the default, and a name that is not one.  *)
(***************************************************************************)
EXTENDS Theme

CONSTANTS Light, Dark, Plain
=============================================================================
