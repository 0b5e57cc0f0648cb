---------------------------- MODULE MCRuntimeHub ----------------------------
(***************************************************************************)
(* RuntimeHub for TLC.                                                     *)
(***************************************************************************)
EXTENDS RuntimeHub

=============================================================================
