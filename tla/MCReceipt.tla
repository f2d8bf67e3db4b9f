------------------------------ MODULE MCReceipt ------------------------------
(* Bundles of up to two operations of two senders, with up to two logs of   *)
(* their own.                                                               *)
EXTENDS UserOpMethodHandler
=============================================================================
