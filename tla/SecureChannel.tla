---------------------------- MODULE SecureChannel ----------------------------
(***************************************************************************)
(* One direction of a session of internal/securechan/securechan.go: the    *)
(* sender seals envelopes with a counter, the receiver keeps a sliding     *)
(* window over the numbers it has checked and refuses the rest.  The       *)
(* network, external, delivers an envelope early, late, again or never,    *)
(* and may deliver one that an earlier session of the same token sealed.   *)
(***************************************************************************)
EXTENDS Integers

CONSTANTS WindowSize,  \* windowSize: the width of the bitmap, 64 in the code
          MaxSealed    \* bound: envelopes sealed in a behaviour

ASSUME ChannelAssumption == /\ WindowSize \in Nat \ {0}
                            /\ MaxSealed \in Nat

VARIABLES sendSeq,     \* Session.sendSeq of the sender
          maxSeq,      \* replayWindow.maxSeq of the receiver
          bitmap,      \* replayWindow.bitmap: bit d stands for maxSeq - d
          opened,      \* history: the numbers whose plaintext was handed out
          handed,      \* history: how many plaintexts were handed out
          passed       \* history: the numbers Check has let through

channelVars == <<sendSeq, maxSeq, bitmap, opened, handed, passed>>

Bits == 0..(WindowSize - 1)

ChannelInit == /\ sendSeq = 0
               /\ maxSeq = 0
               /\ bitmap = [d \in Bits |-> FALSE]
               /\ opened = {} /\ handed = 0
               /\ passed = {}

-----------------------------------------------------------------------------
(* replayWindow.Check *)

\* mutant: the bit of the new number is forgotten
ShiftedBare(n) == [d \in Bits |-> d >= n /\ bitmap[d - n]]

\* bitmap << n, the new lowest bit set: a shift by the width or more leaves
\* nothing of the old bits.
Shifted(n) == [d \in Bits |-> d = 0 \/ (d >= n /\ bitmap[d - n])]

\* mutant: what lies behind the window passes
FreshOrOld(seq) == /\ seq # 0
                   /\ \/ seq > maxSeq
                      \/ maxSeq - seq \in Bits => ~bitmap[maxSeq - seq]

\* The numbers Check lets through in this state.
Fresh(seq) == /\ seq # 0
              /\ \/ seq > maxSeq
                 \/ maxSeq - seq \in Bits /\ ~bitmap[maxSeq - seq]

\* The window after Check has let seq through.
Advance(seq) ==
    IF seq > maxSeq
    THEN maxSeq' = seq /\ bitmap' = Shifted(seq - maxSeq)
    ELSE maxSeq' = maxSeq /\ bitmap' = [bitmap EXCEPT ![maxSeq - seq] = TRUE]

-----------------------------------------------------------------------------
(* Encrypt and Decrypt *)

\* Encrypt takes the next number; the counter is atomic, so no two share one.
Encrypt == /\ sendSeq < MaxSealed
           /\ sendSeq' = sendSeq + 1
           /\ UNCHANGED <<maxSeq, bitmap, opened, handed, passed>>

\* Decrypt of an envelope of this session.
Decrypt(seq) == /\ Fresh(seq)
                /\ Advance(seq)
                /\ opened' = opened \cup {seq} /\ handed' = handed + 1
                /\ passed' = passed \cup {seq}
                /\ UNCHANGED sendSeq

\* Decrypt of an envelope another key sealed: Check runs first and moves the
\* window, then the cipher cannot open it.
DecryptForeign(seq) == /\ Fresh(seq)
                       /\ Advance(seq)
                       /\ passed' = passed \cup {seq}
                       /\ UNCHANGED <<sendSeq, opened, handed>>

\* Check refuses: "replay or out-of-window seq", nothing changes.
RefuseEnvelope(seq) == ~Fresh(seq) /\ UNCHANGED channelVars

ChannelNext == \/ Encrypt
               \/ \E seq \in 1..sendSeq : Decrypt(seq) \/ RefuseEnvelope(seq)
               \/ \E seq \in 0..MaxSealed : DecryptForeign(seq)

ChannelSpec == ChannelInit /\ [][ChannelNext]_channelVars

-----------------------------------------------------------------------------
(* Properties *)

\* Type invariant of the channel.
ChannelTypeOK == /\ sendSeq \in 0..MaxSealed
                 /\ maxSeq \in 0..MaxSealed
                 /\ bitmap \in [Bits -> BOOLEAN]
                 /\ opened \subseteq passed /\ handed \in Nat
                 /\ passed \subseteq 1..MaxSealed

\* The newest number let through is where the window ends: an envelope of
\* another session moves it as one of its own does, and it never moves back.
WindowEndsAtNewest ==
    /\ \A seq \in passed : seq <= maxSeq
    /\ maxSeq # 0 => maxSeq \in passed

\* The bitmap is exact: after any shifts, a number inside the window is let
\* through exactly when it was never let through before, so neither a replay
\* is opened nor a late first delivery refused, and every number behind the
\* window, which ends at the newest, is refused (replayWindow.Check).
WindowIsExact ==
    /\ WindowEndsAtNewest
    /\ \A seq \in 0..(MaxSealed + WindowSize) :
          Fresh(seq) <=> /\ seq > 0
                         /\ seq \notin passed
                         /\ seq > maxSeq - WindowSize

\* The session implements the channel that opens each envelope at most once.
Once == INSTANCE OnceChannel WITH sealed <- sendSeq
RefinesOnceChannel == Once!Spec
=============================================================================
