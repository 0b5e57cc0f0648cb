--------------------------- MODULE MCHostDelivery ---------------------------
(***************************************************************************)
(* HostDelivery for TLC.                                                   *)
(***************************************************************************)
EXTENDS HostDelivery

=============================================================================
