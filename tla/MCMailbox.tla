----------------------------- MODULE MCMailbox -----------------------------
(***************************************************************************)
(* Small instances of Mailbox: a zero-byte item (Resize, Close and most    *)
(* notices retain no bytes), items that compete for the byte budget, and   *)
(* one that can never fit.                                                 *)
(***************************************************************************)
EXTENDS Mailbox, TLC

CONSTANTS zero, one, two, over

MCItems == {zero, one, two, over}
MCBytes == (zero :> 0) @@ (one :> 1) @@ (two :> 2) @@ (over :> 3)

=============================================================================
