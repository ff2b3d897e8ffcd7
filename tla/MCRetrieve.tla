----------------------------- MODULE MCRetrieve -----------------------------
(***************************************************************************)
(* retriev for TLC: the constants are numbers, given in the configuration. *)
(***************************************************************************)
EXTENDS Retrieve
============================================================================
