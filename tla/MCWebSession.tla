---------------------------- MODULE MCWebSession ----------------------------
(***************************************************************************)
(* WebSession on small instances.                                          *)
(***************************************************************************)
EXTENDS WebSession

=============================================================================
