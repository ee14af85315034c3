-------------------------- MODULE MCReceiveWindow --------------------------
(* Small instances of ReceiveWindow, for which the theorems' assumptions hold. *)
EXTENDS ReceiveWindowProofs
=============================================================================
