----------------------------- MODULE OnceChannel -----------------------------
(***************************************************************************)
(* What one direction of a securechan session promises: envelopes are      *)
(* numbered from 1 as they are sealed, and each is opened at most once,    *)
(* in any order, or never.                                                 *)
(***************************************************************************)
EXTENDS Naturals

VARIABLES sealed,   \* how many envelopes were sealed
          opened,   \* the numbers of those whose plaintext was handed out
          handed    \* how many plaintexts were handed out

Init == sealed = 0 /\ opened = {} /\ handed = 0

Seal == sealed' = sealed + 1 /\ UNCHANGED <<opened, handed>>

\* Only a number that was not opened before hands anything out.
Open(n) == /\ n \notin opened
           /\ opened' = opened \cup {n}
           /\ handed' = handed + 1
           /\ UNCHANGED sealed

Next == Seal \/ \E n \in 1..sealed : Open(n)

Spec == Init /\ [][Next]_<<sealed, opened, handed>>
=============================================================================
