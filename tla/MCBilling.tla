----------------------------- MODULE MCBilling -----------------------------
(* Small instances of Billing.                                            *)
EXTENDS Billing, TLC

CONSTANTS s1, s2, u1, u2, c1, c2

\* Two clients of one account on one server: its sum has two terms.
PairServerOf == (c1 :> s1 @@ c2 :> s1)
PairOwnerOf  == (c1 :> u1 @@ c2 :> u1)

\* One client.
OneServerOf == (c1 :> s1)
OneOwnerOf  == (c1 :> u1)

\* The two clients of the pair are interchangeable.
PairSymmetry == Permutations({c1, c2})
=============================================================================
