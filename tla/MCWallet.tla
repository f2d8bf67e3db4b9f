------------------------------ MODULE MCWallet ------------------------------
(* Instances of WalletFlow for TLC. *)
EXTENDS WalletFlow
=============================================================================
