-------------------------------- MODULE Null --------------------------------
(***************************************************************************)
(* The absent value that the clients' modules share: null or undefined.    *)
(***************************************************************************)
CONSTANT None
=============================================================================
