--------------------------- MODULE MCRegistryCms ---------------------------
(***************************************************************************)
(* The documents the store may start with: none, one written before        *)
(* entries had a chain, and one registered on a chain.                     *)
(***************************************************************************)
EXTENDS RegistryCms

CONSTANTS c1, a0

MCEntries == {NoEntry,
              [DefaultEntry EXCEPT !.announcements = <<a0>>],
              [DefaultEntry EXCEPT !.chain = c1]}

\* Handlers differ only in what they are asked, accounts in what they own.
AllAlike == Permutations(Requests) \cup Permutations(Accounts)
=============================================================================
