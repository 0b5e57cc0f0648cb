---------------------------- MODULE MCPaneWorker ----------------------------
(***************************************************************************)
(* PaneWorker for TLC.                                                     *)
(***************************************************************************)
EXTENDS PaneWorker

=============================================================================
