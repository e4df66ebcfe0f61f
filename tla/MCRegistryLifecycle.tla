------------------------ MODULE MCRegistryLifecycle ------------------------
(* Two key holders, three addresses: registration, expiry, renewal, moves  *)
(* and revocations.  k1 is certified twice, the second time for longer.    *)
EXTENDS IdentityRegistry

CONSTANTS k1, k2, ca1

MCCerts ==
  {[key |-> k1, serial |-> 1, issuer |-> ca1,
    notBefore |-> 0, notAfter |-> 1, subject |-> << >>],
   [key |-> k1, serial |-> 2, issuer |-> ca1,
    notBefore |-> 1, notAfter |-> 3, subject |-> << >>],
   [key |-> k2, serial |-> 3, issuer |-> ca1,
    notBefore |-> 0, notAfter |-> 2, subject |-> << >>]}
=============================================================================
