---------------------------- MODULE MCFairDrain ----------------------------
(***************************************************************************)
(* FairDrain for TLC.                                                      *)
(***************************************************************************)
EXTENDS FairDrain

=============================================================================
