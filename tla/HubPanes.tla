------------------------------ MODULE HubPanes ------------------------------
(***************************************************************************)
(* The panes a RuntimeHub can hold (PaneId of rterm-types), of which       *)
(* finitely many are ever in use.                                          *)
(***************************************************************************)
EXTENDS FiniteSets

CONSTANT Panes

ASSUME PanesAssumption == IsFiniteSet(Panes)

=============================================================================
