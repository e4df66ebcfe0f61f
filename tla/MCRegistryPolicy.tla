-------------------------- MODULE MCRegistryPolicy --------------------------
(* One wallet and one key certified by two CAs, under every setting the     *)
(* owner and the factory can change while a proof is under way.             *)
EXTENDS IdentityRegistry

CONSTANTS k1, ca1, ca2, country, KR

MCCerts ==
  {[key |-> k1, serial |-> 1, issuer |-> ca1,
    notBefore |-> 0, notAfter |-> 2, subject |-> country :> KR],
   [key |-> k1, serial |-> 2, issuer |-> ca2,
    notBefore |-> 0, notAfter |-> 3, subject |-> country :> NoValue]}
=============================================================================
