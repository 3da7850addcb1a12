---------------------------- MODULE MCOidcKeys ----------------------------
(* Small instances of OidcKeys for TLC. *)
EXTENDS OidcKeys, TLC

CONSTANTS l1, l2, k1, k2

LoginSymmetry == Permutations(Logins)
=============================================================================
