----------------------------- MODULE MCLocalPty -----------------------------
(***************************************************************************)
(* LocalPty on small instances.                                            *)
(***************************************************************************)
EXTENDS LocalPty

=============================================================================
