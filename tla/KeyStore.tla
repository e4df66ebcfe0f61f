------------------------------ MODULE KeyStore ------------------------------
(***************************************************************************)
(* The key store of the operating system, as the programs that scan it see *)
(* it (script/src/keychain.rs): a list of certificates, each with a key of *)
(* its own, which may be a different list at every scan.                   *)
(***************************************************************************)
EXTENDS Sequences

CONSTANTS
  Certificates,
  Listings        \* what a scan may find

ASSUME KeyStoreAssumption == Listings \subseteq Seq(Certificates)
=============================================================================
