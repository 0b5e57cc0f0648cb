--------------------------- MODULE MCConfigReload ---------------------------
(***************************************************************************)
(* Two optional sources, one of them in the home directory; one required   *)
(* source; none.                                                           *)
(***************************************************************************)
EXTENDS ConfigReload

Lists ==
  {<<[path |-> "home", required |-> FALSE], [path |-> "xdg", required |-> FALSE]>>,
   <<[path |-> "xdg", required |-> TRUE]>>,
   <<>>}

=============================================================================
