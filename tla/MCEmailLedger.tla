--------------------------- MODULE MCEmailLedger ---------------------------
(* Small instances of EmailLedger.                                        *)
EXTENDS EmailLedgerProofs, TLC

CONSTANTS s1, s2, c1, c2

\* One server, one client.
OneServerOf == (c1 :> s1)

=============================================================================
