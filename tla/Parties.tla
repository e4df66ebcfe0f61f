------------------------------ MODULE Parties ------------------------------
(***************************************************************************)
(* Who the clients are about: accounts of wallets, and registries.         *)
(***************************************************************************)
EXTENDS Null

CONSTANTS Accounts, Registries
=============================================================================
