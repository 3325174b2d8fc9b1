--------------------------- MODULE MCEntitlement ---------------------------
(* Small instances of Entitlement.                                        *)
EXTENDS Entitlement, TLC

CONSTANTS u1, s1, s2
=============================================================================
