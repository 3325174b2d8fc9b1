-------------------------------- MODULE WireProofs --------------------------------
(***************************************************************************)
(* The connection between a panel and an agent.                            *)
(*                                                                         *)
(* Its secure channel: the replay window is exact for every width and      *)
(* every number of envelopes, and a session implements the channel of      *)
(* OnceChannel.                                                            *)
(*                                                                         *)
(* A command of the panel, for any number of concurrent calls, addresses,  *)
(* connections and sessions: replies reach the caller that waits for them, *)
(* losing a session fails no call, every run is paid for by a try, and a   *)
(* call keeps the contract of module Call.  And the output of a command    *)
(* shown while it runs, for any number of frames, any capacity of the      *)
(* channel and any number of addresses.                                    *)
(*                                                                         *)
(* Commands of another panel under a share, for any shares, rights, tags   *)
(* and commands and any number of sessions and faults: types, what a       *)
(* revoked share leaves behind, and how often a command is run.            *)
(***************************************************************************)
EXTENDS SecureChannel, RemoteCall, RemoteStream, Federation, SequenceTheorems,
        FiniteSetTheorems, TLAPS

\* Bit d of the bitmap says whether maxSeq - d was let through.
BitsAreExact == \A d \in Bits : bitmap[d] <=> maxSeq - d \in passed

ChannelInv == ChannelTypeOK /\ WindowEndsAtNewest /\ BitsAreExact

-----------------------------------------------------------------------------
(* What Check decides, and what it leaves behind *)

\* With an exact bitmap, Check lets a number through exactly when it lies in
\* front of the end of the window and was not let through before.
LEMMA FreshIsNew ==
    ASSUME ChannelInv, NEW seq \in Nat
    PROVE  Fresh(seq) <=> /\ seq > 0
                          /\ seq \notin passed
                          /\ seq > maxSeq - WindowSize
<1> USE ChannelAssumption DEF ChannelInv, ChannelTypeOK
<1>1. CASE seq > maxSeq
  BY <1>1 DEF Fresh, WindowEndsAtNewest
<1>2. CASE seq <= maxSeq
  <2>1. maxSeq - seq \in Bits <=> seq > maxSeq - WindowSize
    BY <1>2 DEF Bits
  <2>2. ASSUME maxSeq - seq \in Bits
        PROVE  bitmap[maxSeq - seq] <=> seq \in passed
    <3>1. maxSeq - (maxSeq - seq) = seq
      OBVIOUS
    <3> QED BY <2>2, <3>1 DEF BitsAreExact
  <2> QED BY <1>2, <2>1, <2>2 DEF Fresh
<1> QED BY <1>1, <1>2

\* Advance keeps the window exact.
LEMMA AdvanceIsExact ==
    ASSUME ChannelInv, NEW seq \in 0..MaxSealed, Fresh(seq), Advance(seq),
           passed' = passed \cup {seq}
    PROVE  /\ maxSeq' \in 0..MaxSealed
           /\ bitmap' \in [Bits -> BOOLEAN]
           /\ passed' \subseteq 1..MaxSealed
           /\ WindowEndsAtNewest'
           /\ BitsAreExact'
<1> USE ChannelAssumption DEF ChannelInv, ChannelTypeOK
<1>1. seq \in Nat /\ seq > 0 /\ seq \notin passed
  BY FreshIsNew
<1>2. CASE seq > maxSeq
  <2>1. maxSeq' = seq /\ bitmap' = Shifted(seq - maxSeq)
    BY <1>2 DEF Advance
  <2>2. ASSUME NEW d \in Bits
        PROVE  Shifted(seq - maxSeq)[d] <=> seq - d \in passed'
    <3>1. Shifted(seq - maxSeq)[d] <=>
             (d = 0 \/ (d >= seq - maxSeq /\ bitmap[d - (seq - maxSeq)]))
      BY DEF Shifted
    <3>2. CASE d = 0
      BY <3>1, <3>2
    <3>3. CASE d # 0 /\ d < seq - maxSeq
      <4>1. seq - d > maxSeq /\ seq - d # seq
        BY <3>3, <1>1 DEF Bits
      <4>2. seq - d \notin passed'
        BY <4>1, <1>1 DEF WindowEndsAtNewest, Bits
      <4> QED BY <3>1, <3>3, <4>2 DEF Bits
    <3>4. CASE d # 0 /\ d >= seq - maxSeq
      <4>1. d - (seq - maxSeq) \in Bits
        BY <1>2, <3>4 DEF Bits
      <4>2. maxSeq - (d - (seq - maxSeq)) = seq - d /\ seq - d # seq
        BY <3>4 DEF Bits
      <4>3. bitmap[d - (seq - maxSeq)] <=> seq - d \in passed
        BY <4>1, <4>2 DEF BitsAreExact
      <4> QED BY <3>1, <3>4, <4>2, <4>3
    <3> QED BY <3>2, <3>3, <3>4 DEF Bits
  <2>3. Shifted(seq - maxSeq) \in [Bits -> BOOLEAN]
    <3> SUFFICES ASSUME NEW d \in Bits
                 PROVE  (d = 0 \/ (d >= seq - maxSeq /\ bitmap[d - (seq - maxSeq)]))
                            \in BOOLEAN
      BY DEF Shifted
    <3> QED OBVIOUS
  <2>4. WindowEndsAtNewest'
    BY <2>1, <1>1, <1>2 DEF WindowEndsAtNewest
  <2> QED BY <1>1, <2>1, <2>2, <2>3, <2>4 DEF BitsAreExact
<1>3. CASE ~(seq > maxSeq)
  <2>1. maxSeq' = maxSeq /\ bitmap' = [bitmap EXCEPT ![maxSeq - seq] = TRUE]
    BY <1>3 DEF Advance
  <2>2. maxSeq - seq \in Bits
    BY <1>3 DEF Fresh
  <2>3. ASSUME NEW d \in Bits
        PROVE  bitmap'[d] <=> maxSeq - d \in passed'
    <3>1. CASE d = maxSeq - seq
      BY <2>1, <2>2, <3>1
    <3>2. CASE d # maxSeq - seq
      <4>1. maxSeq - d # seq
        BY <3>2 DEF Bits
      <4>2. bitmap'[d] <=> bitmap[d]
        BY <2>1, <3>2
      <4> QED BY <4>1, <4>2 DEF BitsAreExact
    <3> QED BY <3>1, <3>2
  <2>4. WindowEndsAtNewest'
    BY <2>1, <1>1, <1>3 DEF WindowEndsAtNewest
  <2> QED BY <1>1, <2>1, <2>2, <2>3, <2>4 DEF BitsAreExact
<1> QED BY <1>2, <1>3

-----------------------------------------------------------------------------
(* The inductive invariant *)

\* The invariant of the channel: types, the end of the window, exact bits.
THEOREM ChannelInvariant == ChannelSpec => []ChannelInv
<1> USE ChannelAssumption
<1>1. ChannelInit => ChannelInv
  BY DEF ChannelInit, ChannelInv, ChannelTypeOK, WindowEndsAtNewest, BitsAreExact
<1>2. ChannelInv /\ [ChannelNext]_channelVars => ChannelInv'
  <2> SUFFICES ASSUME ChannelInv, [ChannelNext]_channelVars
               PROVE  ChannelInv'
    OBVIOUS
  <2> USE DEF ChannelInv
  <2>1. CASE Encrypt
    BY <2>1 DEF Encrypt, ChannelTypeOK, WindowEndsAtNewest, BitsAreExact
  <2>2. ASSUME NEW seq \in 1..sendSeq, Decrypt(seq)
        PROVE  ChannelInv'
    <3>1. seq \in 0..MaxSealed
      BY DEF ChannelTypeOK
    <3>2. Fresh(seq) /\ Advance(seq) /\ passed' = passed \cup {seq}
      BY <2>2 DEF Decrypt
    <3>3. opened' \subseteq passed' /\ handed' \in Nat /\ sendSeq' = sendSeq
      BY <2>2 DEF Decrypt, ChannelTypeOK
    <3> QED BY <3>1, <3>2, <3>3, AdvanceIsExact DEF ChannelTypeOK
  <2>3. ASSUME NEW seq \in 0..MaxSealed, DecryptForeign(seq)
        PROVE  ChannelInv'
    <3>1. Fresh(seq) /\ Advance(seq) /\ passed' = passed \cup {seq}
      BY <2>3 DEF DecryptForeign
    <3>2. opened' \subseteq passed' /\ handed' \in Nat /\ sendSeq' = sendSeq
      BY <2>3 DEF DecryptForeign, ChannelTypeOK
    <3> QED BY <3>1, <3>2, AdvanceIsExact DEF ChannelTypeOK
  <2>4. CASE UNCHANGED channelVars
    BY <2>4 DEF channelVars, ChannelTypeOK, WindowEndsAtNewest, BitsAreExact
  <2> QED BY <2>1, <2>2, <2>3, <2>4 DEF ChannelNext, RefuseEnvelope
<1> QED BY <1>1, <1>2, PTL DEF ChannelSpec

\* The window is exact: no replay is let through, no late first delivery
\* inside the window is refused, whatever numbers came in whatever order.
THEOREM WindowExact == ChannelSpec => []WindowIsExact
<1>1. ChannelInv => WindowIsExact
  <2> SUFFICES ASSUME ChannelInv PROVE WindowIsExact
    OBVIOUS
  <2>1. WindowEndsAtNewest
    BY DEF ChannelInv
  <2>2. ASSUME NEW seq \in 0..(MaxSealed + WindowSize)
        PROVE  Fresh(seq) <=> /\ seq > 0
                              /\ seq \notin passed
                              /\ seq > maxSeq - WindowSize
    BY FreshIsNew
  <2> QED BY <2>1, <2>2 DEF WindowIsExact
<1> QED BY <1>1, ChannelInvariant, PTL

-----------------------------------------------------------------------------
(* The refinement *)

\* Every behaviour of a session is one of the channel that opens each envelope
\* at most once.
THEOREM SessionOpensOnce == ChannelSpec => RefinesOnceChannel
<1>1. ChannelInit => Once!Init
  BY DEF ChannelInit, Once!Init
<1>2. ChannelInv /\ [ChannelNext]_channelVars =>
          [Once!Next]_<<sendSeq, opened, handed>>
  <2> SUFFICES ASSUME ChannelInv, [ChannelNext]_channelVars
               PROVE  [Once!Next]_<<sendSeq, opened, handed>>
    OBVIOUS
  <2>1. CASE Encrypt
    BY <2>1 DEF Encrypt, Once!Next, Once!Seal
  <2>2. ASSUME NEW seq \in 1..sendSeq, Decrypt(seq)
        PROVE  Once!Next
    <3>1. seq \notin opened
      BY <2>2, FreshIsNew DEF Decrypt, ChannelInv, ChannelTypeOK
    <3>2. Once!Open(seq)
      BY <2>2, <3>1 DEF Decrypt, Once!Open
    <3> QED BY <3>2 DEF Once!Next
  <2>3. ASSUME NEW seq \in 0..MaxSealed, DecryptForeign(seq)
        PROVE  UNCHANGED <<sendSeq, opened, handed>>
    BY <2>3 DEF DecryptForeign
  <2>4. CASE UNCHANGED channelVars
    BY <2>4 DEF channelVars
  <2> QED BY <2>1, <2>2, <2>3, <2>4 DEF ChannelNext, RefuseEnvelope
<1> QED BY <1>1, <1>2, ChannelInvariant, PTL
        DEF ChannelSpec, RefinesOnceChannel, Once!Spec

-----------------------------------------------------------------------------
(* Commands *)

\* A message over HTTP carries the number of a try that was made, and that of
\* the try at hand its kind.
Fits(m, r) == /\ r.pc \in {"http", "asked", "done"}
              /\ m.try <= r.try
              /\ m.try = r.try => r.pc # "http" /\ m.kind = r.kind

\* An address is tried at most twice, the second time with a key exchange.
TryFits(r) == r.try <= 2 * r.address - (IF r.kind = "kx" THEN 0 ELSE 1)

MessageInv ==
    /\ link.up \/ link.no < MaxLinks
    /\ \A m \in requests \cup answers : m.kind # "rpc" => Fits(m, call[m.call])
    /\ \A c \in Calls : TryFits(call[c])
    /\ \A a \in answers : a.kind = "kx" => a.via \in 0..MaxKeys

TypeInv == CallTypeOK /\ MessageInv

-----------------------------------------------------------------------------
(* Types and messages *)

\* One call moves to the record r, the others stay.
LEMMA OneCallMoves ==
    ASSUME call \in [Calls -> CallRecord],
           NEW c \in Calls, NEW r \in CallRecord, call' = [call EXCEPT ![c] = r]
    PROVE  /\ call' \in [Calls -> CallRecord]
           /\ call'[c] = r
           /\ \A d \in Calls : d # c => call'[d] = call[d]
  OBVIOUS

\* The messages stay in order when one call moves to r, if those of the call
\* fit r and no other call gets a new one.
LEMMA MessagesStayInOrder ==
    ASSUME TypeInv, NEW c \in Calls, NEW r \in CallRecord,
           call' = [call EXCEPT ![c] = r], UNCHANGED link,
           requests' \subseteq Request, answers' \subseteq answers,
           \A m \in requests' \cup answers :
              m.kind # "rpc" => \/ m.call = c /\ Fits(m, r)
                                \/ m.call # c /\ m \in requests \cup answers,
           TryFits(r)
    PROVE  MessageInv'
<1>1. /\ call'[c] = r
      /\ \A d \in Calls : d # c => call'[d] = call[d]
  BY OneCallMoves DEF TypeInv, CallTypeOK
<1>2. ASSUME NEW m \in requests' \cup answers', m.kind # "rpc"
      PROVE  Fits(m, call'[m.call])
  <2>1. CASE m.call = c /\ Fits(m, r)
    BY <1>1, <2>1
  <2>2. CASE m.call # c /\ m \in requests \cup answers
    <3>1. m.call \in Calls
      BY <2>2 DEF TypeInv, CallTypeOK, Request, Answer
    <3> QED BY <1>1, <1>2, <2>2, <3>1 DEF TypeInv, MessageInv
  <2> QED BY <1>2, <2>1, <2>2
<1>3. \A d \in Calls : TryFits(call'[d])
  BY <1>1 DEF TypeInv, MessageInv
<1>4. \A a \in answers' : a.kind = "kx" => a.via \in 0..MaxKeys
  BY DEF TypeInv, MessageInv
<1>5. link'.up \/ link'.no < MaxLinks
  BY DEF TypeInv, MessageInv
<1> QED BY <1>2, <1>3, <1>4, <1>5 DEF MessageInv

LEMMA RegisterTyped ==
    ASSUME TypeInv, NEW c \in Calls, Register(c)
    PROVE  TypeInv'
<1> USE CallAssumption DEF TypeInv
<1> DEFINE r == [call[c] EXCEPT !.pc = "registered", !.link = link.no]
<1>1. call[c] \in CallRecord /\ call[c].pc = "idle" /\ link.no \in 0..MaxLinks
  BY DEF Register, CallTypeOK
<1>2. r \in CallRecord
  BY <1>1 DEF CallRecord
<1>3. call' = [call EXCEPT ![c] = r]
  BY DEF Register
<1>4. TryFits(r)
  BY <1>1 DEF CallRecord, TryFits, MessageInv
<1>5. \A m \in requests \cup answers : m.kind # "rpc" => m.call # c
  BY <1>1 DEF MessageInv, Fits
<1> HIDE DEF r
<1>6. call' \in [Calls -> CallRecord]
  BY OneCallMoves, <1>1, <1>2, <1>3 DEF CallTypeOK
<1>7. requests' \subseteq Request /\ answers' \subseteq answers
  BY DEF Register, CallTypeOK
<1>8. CallTypeOK'
  BY <1>6, <1>7, <1>1 DEF CallTypeOK, Register
<1>9. MessageInv'
  BY <1>1, <1>2, <1>3, <1>4, <1>5, <1>7, MessagesStayInOrder DEF CallTypeOK, Register
<1> QED BY <1>8, <1>9

LEMMA SkipSocketTyped ==
    ASSUME TypeInv, NEW c \in Calls, SkipSocket(c)
    PROVE  TypeInv'
<1> USE CallAssumption DEF TypeInv
<1> DEFINE r == [call[c] EXCEPT !.pc = "http"]
<1>1. call[c] \in CallRecord /\ call[c].pc = "idle"
  BY DEF SkipSocket, CallTypeOK
<1>2. r \in CallRecord
  BY <1>1 DEF CallRecord
<1>3. call' = [call EXCEPT ![c] = r]
  BY DEF SkipSocket
<1>4. TryFits(r)
  BY <1>1 DEF CallRecord, TryFits, MessageInv
<1>5. \A m \in requests \cup answers : m.kind # "rpc" => m.call # c
  BY <1>1 DEF MessageInv, Fits
<1> HIDE DEF r
<1>6. call' \in [Calls -> CallRecord]
  BY OneCallMoves, <1>1, <1>2, <1>3 DEF CallTypeOK
<1>7. requests' \subseteq Request /\ answers' \subseteq answers
  BY DEF SkipSocket, CallTypeOK
<1>8. CallTypeOK'
  BY <1>6, <1>7, <1>1 DEF CallTypeOK, SkipSocket
<1>9. MessageInv'
  BY <1>1, <1>2, <1>3, <1>4, <1>5, <1>7, MessagesStayInOrder DEF CallTypeOK, SkipSocket
<1> QED BY <1>8, <1>9

LEMMA SendCallTyped ==
    ASSUME TypeInv, NEW c \in Calls, SendCall(c)
    PROVE  TypeInv'
<1> USE CallAssumption DEF TypeInv
<1> DEFINE r == [call[c] EXCEPT !.pc = "waiting"]
<1>1. call[c] \in CallRecord /\ call[c].pc = "registered"
  BY DEF SendCall, CallTypeOK
<1>2. r \in CallRecord
  BY <1>1 DEF CallRecord
<1>3. call' = [call EXCEPT ![c] = r]
  BY DEF SendCall
<1>4. TryFits(r)
  BY <1>1 DEF CallRecord, TryFits, MessageInv
<1>5. \A m \in requests \cup answers : m.kind # "rpc" => m.call # c
  BY <1>1 DEF MessageInv, Fits
<1> HIDE DEF r
<1>6. call' \in [Calls -> CallRecord]
  BY OneCallMoves, <1>1, <1>2, <1>3 DEF CallTypeOK
<1>7. requests' \subseteq Request /\ answers' \subseteq answers
      /\ \A m \in requests' : m.kind # "rpc" => m \in requests
  <2> DEFINE new == [call |-> c, try |-> 0, kind |-> "rpc", via |-> call[c].link]
  <2>1. new \in Request /\ new.kind = "rpc"
    BY <1>1 DEF Request, CallRecord, Tries, Kinds
  <2>2. requests' = requests \cup {new} \/ requests' = requests
    BY DEF SendCall
  <2>3. answers' = answers
    BY DEF SendCall
  <2> HIDE DEF new
  <2> QED BY <2>1, <2>2, <2>3 DEF CallTypeOK
<1>8. CallTypeOK'
  BY <1>6, <1>7, <1>1 DEF CallTypeOK, SendCall
<1>9. MessageInv'
  BY <1>1, <1>2, <1>3, <1>4, <1>5, <1>7, MessagesStayInOrder DEF CallTypeOK, SendCall
<1> QED BY <1>8, <1>9

LEMMA GiveUpTyped ==
    ASSUME TypeInv, NEW c \in Calls, GiveUp(c)
    PROVE  TypeInv'
<1> USE CallAssumption DEF TypeInv
<1> DEFINE r == [call[c] EXCEPT !.pc = "http", !.try = 1]
<1>1. call[c] \in CallRecord /\ call[c].pc \in {"registered", "waiting"}
  BY DEF GiveUp, CallTypeOK
<1>2. r \in CallRecord
  <2>1. 1 \in Tries
    BY DEF Tries
  <2> QED BY <1>1, <2>1 DEF CallRecord
<1>3. call' = [call EXCEPT ![c] = r]
  BY DEF GiveUp
<1>4. TryFits(r)
  BY <1>1 DEF CallRecord, TryFits, MessageInv
<1>5. \A m \in requests \cup answers : m.kind # "rpc" => m.call # c
  BY <1>1 DEF MessageInv, Fits
<1> HIDE DEF r
<1>6. call' \in [Calls -> CallRecord]
  BY OneCallMoves, <1>1, <1>2, <1>3 DEF CallTypeOK
<1>7. requests' \subseteq Request /\ answers' \subseteq answers
  BY DEF GiveUp, CallTypeOK
<1>8. CallTypeOK'
  BY <1>6, <1>7, <1>1 DEF CallTypeOK, GiveUp, Excuse
<1>9. MessageInv'
  BY <1>1, <1>2, <1>3, <1>4, <1>5, <1>7, MessagesStayInOrder DEF CallTypeOK, GiveUp, Excuse
<1> QED BY <1>8, <1>9

LEMMA ReceiveTyped ==
    ASSUME TypeInv, NEW c \in Calls, Receive(c)
    PROVE  TypeInv'
<1> USE CallAssumption DEF TypeInv
<1> DEFINE r == [call[c] EXCEPT !.pc = "done", !.end = IF box[c] = "ok" THEN "ok" ELSE "failed"]
<1>1. call[c] \in CallRecord /\ call[c].pc = "waiting"
  BY DEF Receive, CallTypeOK
<1>2. r \in CallRecord
  BY <1>1 DEF CallRecord
<1>3. call' = [call EXCEPT ![c] = r]
  BY DEF Receive, Finish
<1>4. TryFits(r)
  BY <1>1 DEF CallRecord, TryFits, MessageInv
<1>5. \A m \in requests \cup answers : m.kind # "rpc" => m.call # c
  BY <1>1 DEF MessageInv, Fits
<1> HIDE DEF r
<1>6. call' \in [Calls -> CallRecord]
  BY OneCallMoves, <1>1, <1>2, <1>3 DEF CallTypeOK
<1>7. requests' \subseteq Request /\ answers' \subseteq answers
  BY DEF Receive, CallTypeOK
<1>8. CallTypeOK'
  BY <1>6, <1>7, <1>1 DEF CallTypeOK, Receive
<1>9. MessageInv'
  BY <1>1, <1>2, <1>3, <1>4, <1>5, <1>7, MessagesStayInOrder DEF CallTypeOK, Receive
<1> QED BY <1>8, <1>9

LEMMA NoAddressTyped ==
    ASSUME TypeInv, NEW c \in Calls, NoAddress(c)
    PROVE  TypeInv'
<1> USE CallAssumption DEF TypeInv
<1> DEFINE r == [call[c] EXCEPT !.pc = "done", !.end = "failed"]
<1>1. call[c] \in CallRecord /\ call[c].pc = "http"
  BY DEF NoAddress, CallTypeOK
<1>2. r \in CallRecord
  BY <1>1 DEF CallRecord
<1>3. call' = [call EXCEPT ![c] = r]
  BY DEF NoAddress, Finish
<1>4. TryFits(r)
  BY <1>1 DEF CallRecord, TryFits, MessageInv
<1>5. \A m \in requests \cup answers :
          m.kind # "rpc" /\ m.call = c => Fits(m, r)
  BY <1>1 DEF CallRecord, MessageInv, Fits
<1> HIDE DEF r
<1>6. call' \in [Calls -> CallRecord]
  BY OneCallMoves, <1>1, <1>2, <1>3 DEF CallTypeOK
<1>7. requests' \subseteq Request /\ answers' \subseteq answers
  BY DEF NoAddress, CallTypeOK
<1>8. CallTypeOK'
  BY <1>6, <1>7, <1>1 DEF CallTypeOK, NoAddress
<1>9. MessageInv'
  BY <1>1, <1>2, <1>3, <1>4, <1>5, <1>7, MessagesStayInOrder DEF CallTypeOK, NoAddress
<1> QED BY <1>8, <1>9

LEMMA AskTyped ==
    ASSUME TypeInv, NEW c \in Calls, NEW kind \in {"kx", "sealed"}, Ask(c, kind)
    PROVE  TypeInv'
<1> USE CallAssumption DEF TypeInv
<1> DEFINE r == [call[c] EXCEPT !.pc = "asked", !.kind = kind]
<1>1. call[c] \in CallRecord /\ call[c].pc = "http"
      /\ kind \in Kinds /\ (kind = "sealed" => call[c].kind # "kx")
  BY DEF Ask, CallTypeOK, Kinds
<1>2. r \in CallRecord
  BY <1>1 DEF CallRecord
<1>3. call' = [call EXCEPT ![c] = r]
  BY DEF Ask
<1>4. TryFits(r)
  BY <1>1 DEF CallRecord, TryFits, MessageInv, Tries
<1>5. \A m \in requests \cup answers :
          m.kind # "rpc" /\ m.call = c => Fits(m, r)
  BY <1>1 DEF CallRecord, MessageInv, Fits
<1> HIDE DEF r
<1>6. call' \in [Calls -> CallRecord]
  BY OneCallMoves, <1>1, <1>2, <1>3 DEF CallTypeOK
<1>7. requests' \subseteq Request /\ answers' = answers
      /\ \A m \in requests' : m \in requests \/ (m.call = c /\ Fits(m, r))
  <2> DEFINE new == [call |-> c, try |-> call[c].try, kind |-> kind,
                     via |-> IF kind = "kx" THEN NoKey ELSE key]
  <2>1. new \in Request
    <3>1. key \in 0..(MaxKeys + MaxLinks) /\ NoKey \in 0..(MaxKeys + MaxLinks)
      BY DEF CallTypeOK, NoKey
    <3>2. call[c].try \in Tries
      BY <1>1 DEF CallRecord
    <3> QED BY <1>1, <3>1, <3>2 DEF Request
  <2>2. new.call = c /\ Fits(new, r)
    BY <1>1 DEF CallRecord, Fits, r, Tries
  <2>3. requests' = requests \cup {new} /\ answers' = answers
    BY DEF Ask
  <2> HIDE DEF new
  <2> QED BY <2>1, <2>2, <2>3 DEF CallTypeOK
<1>8. CallTypeOK'
  BY <1>6, <1>7, <1>1 DEF CallTypeOK, Ask
<1>9. \A m \in requests' \cup answers :
          m.kind # "rpc" => \/ m.call = c /\ Fits(m, r)
                            \/ m.call # c /\ m \in requests \cup answers
  BY <1>5, <1>7
<1>10. UNCHANGED link
  BY DEF Ask
<1>11. MessageInv'
  BY <1>2, <1>3, <1>4, <1>7, <1>9, <1>10, MessagesStayInOrder
<1> QED BY <1>8, <1>11

LEMMA HearSuccessTyped ==
    ASSUME TypeInv, NEW a \in answers, HearSuccess(a)
    PROVE  TypeInv'
<1> USE CallAssumption DEF TypeInv
<1> DEFINE r == [call[a.call] EXCEPT !.pc = "done", !.end = "ok"]
<1>1. a.call \in Calls /\ call[a.call] \in CallRecord /\ call[a.call].pc = "asked"
      /\ key' \in 0..MaxKeys
  BY DEF HearSuccess, Awaited, CallTypeOK, Answer, MessageInv
<1>2. r \in CallRecord
  BY <1>1 DEF CallRecord
<1>3. call' = [call EXCEPT ![a.call] = r]
  BY DEF HearSuccess, Finish
<1>4. TryFits(r)
  BY <1>1 DEF CallRecord, TryFits, MessageInv
<1>5. \A m \in requests \cup answers :
          m.kind # "rpc" /\ m.call = a.call => Fits(m, r)
  BY <1>1 DEF CallRecord, MessageInv, Fits
<1> HIDE DEF r
<1>6. call' \in [Calls -> CallRecord]
  BY OneCallMoves, <1>1, <1>2, <1>3 DEF CallTypeOK
<1>7. requests' \subseteq Request /\ answers' \subseteq answers
  BY DEF HearSuccess, CallTypeOK
<1>8. CallTypeOK'
  BY <1>6, <1>7, <1>1 DEF CallTypeOK, HearSuccess
<1>9. MessageInv'
  BY <1>1, <1>2, <1>3, <1>4, <1>5, <1>7, MessagesStayInOrder DEF CallTypeOK, HearSuccess
<1> QED BY <1>8, <1>9

LEMMA RenegotiateTyped ==
    ASSUME TypeInv, NEW a \in answers, Renegotiate(a)
    PROVE  TypeInv'
<1> USE CallAssumption DEF TypeInv
<1> DEFINE r == [call[a.call] EXCEPT !.pc = "http", !.kind = "kx", !.try = @ + 1]
<1>1. a.call \in Calls /\ call[a.call] \in CallRecord /\ call[a.call].pc = "asked"
      /\ call[a.call].kind = "sealed"
  BY DEF Renegotiate, Awaited, IsSessionInvalid, CallTypeOK, Answer, MessageInv, Fits
<1>2. r \in CallRecord
  <2>1. call[a.call].try + 1 \in Tries
    BY <1>1 DEF CallRecord, Tries, MessageInv, TryFits
  <2> QED BY <1>1, <2>1 DEF CallRecord, Kinds
<1>3. call' = [call EXCEPT ![a.call] = r]
  BY DEF Renegotiate
<1>4. TryFits(r)
  BY <1>1 DEF CallRecord, TryFits, MessageInv, Tries
<1>5. \A m \in requests \cup answers :
          m.kind # "rpc" /\ m.call = a.call => Fits(m, r)
  BY <1>1 DEF CallRecord, MessageInv, Fits, Tries, CallTypeOK, Request, Answer
<1> HIDE DEF r
<1>6. call' \in [Calls -> CallRecord]
  BY OneCallMoves, <1>1, <1>2, <1>3 DEF CallTypeOK
<1>7. requests' \subseteq Request /\ answers' \subseteq answers
  BY DEF Renegotiate, CallTypeOK
<1>8. CallTypeOK'
  BY <1>6, <1>7, <1>1 DEF CallTypeOK, Renegotiate, NoKey, Excuse
<1>9. MessageInv'
  BY <1>1, <1>2, <1>3, <1>4, <1>5, <1>7, MessagesStayInOrder DEF CallTypeOK, Renegotiate, NoKey, Excuse
<1> QED BY <1>8, <1>9

LEMMA NextAddressTyped ==
    ASSUME TypeInv, NEW c \in Calls, NextAddress(c),
           requests' = requests, answers' \subseteq answers, UNCHANGED link
    PROVE  /\ call' \in [Calls -> CallRecord]
           /\ excused' \in [Calls -> Nat]
           /\ MessageInv'
<1> USE CallAssumption DEF TypeInv
<1> DEFINE r == IF call[c].address < Addresses
                  THEN [call[c] EXCEPT !.pc = "http", !.address = @ + 1,
                                       !.kind = "sealed", !.try = @ + 1]
                  ELSE [call[c] EXCEPT !.pc = "done", !.end = "failed"]
<1>1. call[c] \in CallRecord /\ call[c].pc = "asked"
  BY DEF NextAddress, CallTypeOK
<1>2. r \in CallRecord
  <2>1. CASE call[c].address < Addresses
    <3>1. call[c].try + 1 \in Tries /\ call[c].address + 1 \in 1..Addresses
      BY <1>1, <2>1 DEF CallRecord, Tries, MessageInv, TryFits
    <3> QED BY <1>1, <2>1, <3>1 DEF CallRecord, Kinds
  <2>2. CASE ~(call[c].address < Addresses)
    BY <1>1, <2>2 DEF CallRecord
  <2> QED BY <2>1, <2>2
<1>3. call' = [call EXCEPT ![c] = r]
  BY DEF NextAddress, Finish
<1>4. TryFits(r)
  BY <1>1 DEF CallRecord, TryFits, MessageInv, Tries
<1>5. \A m \in requests \cup answers :
          m.kind # "rpc" /\ m.call = c => Fits(m, r)
  BY <1>1 DEF CallRecord, MessageInv, Fits, Tries, CallTypeOK, Request, Answer
<1> HIDE DEF r
<1>6. call' \in [Calls -> CallRecord]
  BY OneCallMoves, <1>2, <1>3 DEF CallTypeOK
<1>7. excused' \in [Calls -> Nat]
  BY DEF NextAddress, Excuse, CallTypeOK
<1>8. MessageInv'
  BY <1>2, <1>3, <1>4, <1>5, MessagesStayInOrder DEF CallTypeOK
<1> QED BY <1>6, <1>7, <1>8

LEMMA AgentTyped ==
    ASSUME TypeInv, UNCHANGED <<call, pending, box, key, link>>,
           NEW m \in requests, NEW result \in Results, NEW via \in 0..(MaxKeys + MaxLinks),
           m.kind = "kx" => via \in 0..MaxKeys,
           Reply(m, result, via), requests' = requests \ {m}
    PROVE  answers' \subseteq Answer /\ MessageInv'
<1> USE DEF TypeInv
<1> DEFINE new == [call |-> m.call, try |-> m.try, kind |-> m.kind, via |-> via,
                   result |-> result]
<1>1. m \in Request
  BY DEF CallTypeOK
<1>2. new \in Answer
  BY <1>1 DEF Request, Answer
<1>3. CASE Hears(m)
  <2>1. answers' = answers \cup {new}
    BY <1>3 DEF Reply
  <2>2. new.kind = m.kind /\ new.call = m.call /\ new.try = m.try /\ new.via = via
    OBVIOUS
  <2> HIDE DEF new
  <2>3. new.kind # "rpc" => Fits(new, call[new.call])
    BY <2>2 DEF MessageInv, Fits
  <2> QED BY <1>2, <2>1, <2>2, <2>3 DEF CallTypeOK, MessageInv
<1>4. CASE ~Hears(m)
  BY <1>4 DEF Reply, CallTypeOK, MessageInv
<1> QED BY <1>3, <1>4

\* Every variable of the calls keeps its type, and no address is tried more
\* than twice.
THEOREM CallsTypeCorrect == CallSpec => []TypeInv
<1> USE CallAssumption
<1>1. CallInit => TypeInv
  <2> SUFFICES ASSUME CallInit PROVE TypeInv
    OBVIOUS
  <2>1. NewCall \in CallRecord
    BY DEF NewCall, CallRecord, Tries, Kinds
  <2>2. CallTypeOK
    BY <2>1 DEF CallInit, CallTypeOK, NoKey, Results
  <2>3. MessageInv
    BY DEF CallInit, MessageInv, NewCall, TryFits
  <2> QED BY <2>2, <2>3 DEF TypeInv
<1>2. TypeInv /\ [CallNext]_callVars => TypeInv'
  <2> SUFFICES ASSUME TypeInv, [CallNext]_callVars
               PROVE  TypeInv'
    OBVIOUS
  <2>1. ASSUME NEW c \in Calls, CallerStep(c), ~RequestFails(c) PROVE TypeInv'
    BY <2>1, RegisterTyped, SkipSocketTyped, SendCallTyped, GiveUpTyped, ReceiveTyped,
       NoAddressTyped, AskTyped DEF CallerStep
  <2>2. ASSUME NEW c \in Calls, RequestFails(c) PROVE TypeInv'
    BY <2>2, NextAddressTyped DEF RequestFails, TypeInv, CallTypeOK
  <2>3. ASSUME NEW a \in answers, HearError(a) PROVE TypeInv'
    <3>1. a.call \in Calls
      BY DEF TypeInv, CallTypeOK, Answer
    <3>2. NextAddress(a.call) /\ requests' = requests /\ answers' \subseteq answers
          /\ UNCHANGED link
      BY <2>3 DEF HearError
    <3>3. /\ call' \in [Calls -> CallRecord] /\ excused' \in [Calls -> Nat]
          /\ MessageInv'
      BY <3>1, <3>2, NextAddressTyped
    <3> QED BY <2>3, <3>1, <3>3 DEF HearError, TypeInv, CallTypeOK
  <2>4. ASSUME NEW a \in answers, RouteReply(a) PROVE TypeInv'
    <3>1. a.call \in Calls /\ a.result \in Results
      BY DEF TypeInv, CallTypeOK, Answer
    <3> QED BY <2>4, <3>1 DEF RouteReply, TypeInv, CallTypeOK, MessageInv
  <2>5. ASSUME NEW m \in requests, NEW result \in Results, Run(m, result)
        PROVE  TypeInv'
    <3> DEFINE via == IF m.kind = "kx" THEN keys + 1 ELSE m.via
    <3>1. m.call \in Calls /\ m.via \in 0..(MaxKeys + MaxLinks)
      BY DEF TypeInv, CallTypeOK, Request
    <3>2. m.kind = "kx" => keys + 1 \in 0..MaxKeys
      BY <2>5 DEF Run, TypeInv, CallTypeOK
    <3>3. /\ Reply(m, result, via) /\ requests' = requests \ {m}
          /\ UNCHANGED <<call, pending, box, key, link>>
      BY <2>5 DEF Run
    <3>4. via \in 0..(MaxKeys + MaxLinks) /\ (m.kind = "kx" => via \in 0..MaxKeys)
      BY <3>1, <3>2
    <3> HIDE DEF via
    <3>5. answers' \subseteq Answer /\ MessageInv'
      BY <3>3, <3>4, AgentTyped
    <3> QED BY <2>5, <3>1, <3>2, <3>5 DEF Run, TypeInv, CallTypeOK
  <2>6. ASSUME NEW m \in requests, Refuse(m) PROVE TypeInv'
    <3>1. m.via \in 0..(MaxKeys + MaxLinks)
      BY DEF TypeInv, CallTypeOK, Request
    <3>2. answers' \subseteq Answer /\ MessageInv'
      BY <2>6, <3>1, AgentTyped DEF Refuse, Results
    <3> QED BY <2>6, <3>2 DEF Refuse, TypeInv, CallTypeOK
  <2>7. CASE ForgetKey
    BY <2>7 DEF ForgetKey, TypeInv, CallTypeOK, MessageInv, NoKey
  <2>8. CASE Drop
    BY <2>8 DEF Drop, TypeInv, CallTypeOK, MessageInv
  <2>9. CASE Dial
    <3>1. link'.no \in 0..MaxLinks
      BY <2>9 DEF Dial, TypeInv, CallTypeOK, MessageInv
    <3> QED BY <2>9, <3>1 DEF Dial, TypeInv, CallTypeOK, MessageInv
  <2>10. CASE UNCHANGED callVars
    BY <2>10 DEF callVars, TypeInv, CallTypeOK, MessageInv
  <2> QED
    BY <2>1, <2>2, <2>3, <2>4, <2>5, <2>6, <2>7, <2>8, <2>9, <2>10,
       HearSuccessTyped, RenegotiateTyped
       DEF CallNext, HearingStep, AgentRuns, Results
<1> QED BY <1>1, <1>2, PTL DEF CallSpec

-----------------------------------------------------------------------------
(* Replies *)

OverSocket(m) == m.kind = "rpc"

\* At any time a call over the WebSocket is in one place: on its way to the
\* agent, on its way back, or in the channel of its caller.
SocketInv ==
    /\ \A m \in requests \cup answers :
          OverSocket(m) => /\ call[m.call].pc \notin {"idle", "registered"}
                           /\ box[m.call] = "empty"
    /\ \A m, n \in requests :
          OverSocket(m) /\ OverSocket(n) /\ m.call = n.call => m = n
    /\ \A m, n \in answers :
          OverSocket(m) /\ OverSocket(n) /\ m.call = n.call => m = n
    /\ \A m \in requests, n \in answers :
          OverSocket(m) /\ OverSocket(n) => m.call # n.call
    /\ \A c \in Calls :
          box[c] # "empty" => call[c].pc \notin {"idle", "registered"}
    /\ RepliesReachTheirCaller

\* A step in which one call moves, sends nothing over the WebSocket, and keeps
\* its channel registered as long as it may read it.
LEMMA QuietStep ==
    ASSUME TypeInv, SocketInv, NEW c \in Calls,
           \A d \in Calls : d # c => call'[d] = call[d],
           call'[c].pc \in {"idle", "registered"} =>
              call[c].pc \in {"idle", "registered"},
           \A m \in requests' : OverSocket(m) => m \in requests,
           answers' \subseteq answers,
           UNCHANGED <<box, deaf>>,
           pending' = IF call'[c].pc \in {"registered", "waiting"}
                      THEN pending \cup {c} ELSE pending \ {c}
    PROVE  SocketInv'
<1>1. \A d \in Calls : call'[d].pc \in {"idle", "registered"} =>
                          call[d].pc \in {"idle", "registered"}
  OBVIOUS
<1>2. /\ \A m \in requests' : OverSocket(m) => m \in requests /\ m.call \in Calls
      /\ \A m \in answers' : m \in answers /\ m.call \in Calls
  BY DEF TypeInv, CallTypeOK, Request, Answer
<1>3. pending' = {d \in Calls : call'[d].pc \in {"registered", "waiting"}}
  BY DEF SocketInv, RepliesReachTheirCaller, PendingIsWaiting
<1>4. RepliesReachTheirCaller'
  BY <1>3 DEF SocketInv, RepliesReachTheirCaller, PendingIsWaiting
<1>5. \A m \in requests' \cup answers' :
          OverSocket(m) => /\ call'[m.call].pc \notin {"idle", "registered"}
                           /\ box'[m.call] = "empty"
  BY <1>1, <1>2 DEF SocketInv
<1>6. /\ \A m, n \in requests' :
            OverSocket(m) /\ OverSocket(n) /\ m.call = n.call => m = n
      /\ \A m, n \in answers' :
            OverSocket(m) /\ OverSocket(n) /\ m.call = n.call => m = n
      /\ \A m \in requests', n \in answers' :
            OverSocket(m) /\ OverSocket(n) => m.call # n.call
  BY <1>2 DEF SocketInv
<1>7. \A d \in Calls :
          box'[d] # "empty" => call'[d].pc \notin {"idle", "registered"}
  BY <1>1 DEF SocketInv
<1> QED BY <1>4, <1>5, <1>6, <1>7 DEF SocketInv, OverSocket

\* The steps of a caller but the send, and the answers it hears over HTTP.
LEMMA CallersAreQuiet ==
    ASSUME TypeInv, SocketInv, NEW c \in Calls,
           \/ Register(c) \/ SkipSocket(c) \/ GiveUp(c) \/ Receive(c) \/ NoAddress(c)
           \/ (\E kind \in {"kx", "sealed"} : Ask(c, kind)) \/ RequestFails(c)
    PROVE  SocketInv'
<1> USE DEF TypeInv, CallTypeOK
<1>1. call \in [Calls -> CallRecord] /\ call[c] \in CallRecord
  OBVIOUS
<1>2. c \in pending <=> call[c].pc \in {"registered", "waiting"}
  BY DEF SocketInv, RepliesReachTheirCaller, PendingIsWaiting
<1>3. CASE Register(c)
  <2>1. call[c].pc = "idle" /\ call'[c].pc = "registered"
    BY <1>1, <1>3 DEF Register, CallRecord
  <2>2. \A d \in Calls : d # c => call'[d] = call[d]
    BY <1>1, <1>3 DEF Register
  <2> QED BY <1>3, <2>1, <2>2, QuietStep DEF Register
<1>4. CASE SkipSocket(c)
  <2>1. call[c].pc = "idle" /\ call'[c].pc = "http"
    BY <1>1, <1>4 DEF SkipSocket, CallRecord
  <2>2. \A d \in Calls : d # c => call'[d] = call[d]
    BY <1>1, <1>4 DEF SkipSocket
  <2>3. pending' = pending \ {c}
    BY <1>2, <1>4, <2>1 DEF SkipSocket
  <2> QED BY <1>4, <2>1, <2>2, <2>3, QuietStep DEF SkipSocket
<1>5. CASE GiveUp(c)
  <2>1. call'[c].pc = "http"
    BY <1>1, <1>5 DEF GiveUp, CallRecord
  <2>2. \A d \in Calls : d # c => call'[d] = call[d]
    BY <1>1, <1>5 DEF GiveUp
  <2> QED BY <1>5, <2>1, <2>2, QuietStep DEF GiveUp
<1>6. CASE Receive(c)
  <2>1. call'[c].pc = "done"
    BY <1>1, <1>6 DEF Receive, Finish, CallRecord
  <2>2. \A d \in Calls : d # c => call'[d] = call[d]
    BY <1>1, <1>6 DEF Receive, Finish
  <2> QED BY <1>6, <2>1, <2>2, QuietStep DEF Receive
<1>7. CASE NoAddress(c)
  <2>1. call[c].pc = "http" /\ call'[c].pc = "done"
    BY <1>1, <1>7 DEF NoAddress, Finish, CallRecord
  <2>2. \A d \in Calls : d # c => call'[d] = call[d]
    BY <1>1, <1>7 DEF NoAddress, Finish
  <2>3. pending' = pending \ {c}
    BY <1>2, <1>7, <2>1 DEF NoAddress
  <2> QED BY <1>7, <2>1, <2>2, <2>3, QuietStep DEF NoAddress
<1>8. ASSUME NEW kind \in {"kx", "sealed"}, Ask(c, kind) PROVE SocketInv'
  <2>1. call[c].pc = "http" /\ call'[c].pc = "asked"
    BY <1>1, <1>8 DEF Ask, CallRecord
  <2>2. \A d \in Calls : d # c => call'[d] = call[d]
    BY <1>1, <1>8 DEF Ask
  <2>3. pending' = pending \ {c}
    BY <1>2, <1>8, <2>1 DEF Ask
  <2>4. \A m \in requests' : OverSocket(m) => m \in requests
    BY <1>8 DEF Ask, OverSocket
  <2> QED BY <1>8, <2>1, <2>2, <2>3, <2>4, QuietStep DEF Ask
<1>9. CASE RequestFails(c)
  <2>1. call[c].pc = "asked" /\ call'[c].pc \in {"http", "done"}
    BY <1>1, <1>9 DEF RequestFails, NextAddress, Finish, CallRecord
  <2>2. \A d \in Calls : d # c => call'[d] = call[d]
    BY <1>1, <1>9 DEF RequestFails, NextAddress, Finish
  <2>3. pending' = pending \ {c}
    BY <1>2, <1>9, <2>1 DEF RequestFails
  <2> QED BY <1>9, <2>1, <2>2, <2>3, QuietStep DEF RequestFails
<1> QED BY <1>3, <1>4, <1>5, <1>6, <1>7, <1>8, <1>9

\* A caller that hears its answer goes on to another request or is done; the
\* other calls stay.
LEMMA HearingMoves ==
    ASSUME TypeInv, NEW a \in answers, HearingStep(a)
    PROVE  /\ Awaited(a) /\ call[a.call].pc = "asked"
           /\ call'[a.call].pc \in {"http", "done"}
           /\ \A d \in Calls : d # a.call => call'[d] = call[d]
<1>1. /\ a.call \in Calls /\ call \in [Calls -> CallRecord]
      /\ call[a.call] \in CallRecord
  BY DEF Answer, TypeInv, CallTypeOK
<1>2. Awaited(a) /\ call[a.call].pc = "asked"
  BY DEF HearingStep, HearSuccess, Renegotiate, HearError, Awaited
<1>3. CASE HearSuccess(a)
  BY <1>1, <1>2, <1>3 DEF HearSuccess, Finish, CallRecord
<1>4. CASE Renegotiate(a)
  BY <1>1, <1>2, <1>4 DEF Renegotiate, CallRecord
<1>5. CASE HearError(a)
  BY <1>1, <1>2, <1>5 DEF HearError, NextAddress, Finish, CallRecord
<1> QED BY <1>2, <1>3, <1>4, <1>5 DEF HearingStep

LEMMA HearingIsQuiet ==
    ASSUME TypeInv, SocketInv, NEW a \in answers, HearingStep(a)
    PROVE  SocketInv'
<1> USE DEF TypeInv, CallTypeOK
<1>1. a.call \in Calls /\ call \in [Calls -> CallRecord] /\ call[a.call] \in CallRecord
  BY DEF Answer
<1>2. call[a.call].pc = "asked" /\ call'[a.call].pc \in {"http", "done"}
  BY HearingMoves, Zenon
<1>3. \A d \in Calls : d # a.call => call'[d] = call[d]
  BY HearingMoves, Zenon
<1>4. pending' = pending \ {a.call}
  BY <1>1, <1>2 DEF HearingStep, HearSuccess, Renegotiate, HearError, SocketInv,
                    RepliesReachTheirCaller, PendingIsWaiting
<1>5. requests' = requests /\ answers' \subseteq answers /\ UNCHANGED <<box, deaf>>
  BY DEF HearingStep, HearSuccess, Renegotiate, HearError
<1> QED BY <1>1, <1>2, <1>3, <1>4, <1>5, QuietStep

\* The agent runs or refuses a request and may answer it: the call moves from
\* the requests to the answers.
LEMMA AgentKeepsCalls ==
    ASSUME TypeInv, SocketInv, NEW m \in requests, NEW result, NEW via,
           Reply(m, result, via), requests' = requests \ {m},
           UNCHANGED <<call, box, pending, deaf>>
    PROVE  SocketInv'
<1> DEFINE new == [call |-> m.call, try |-> m.try, kind |-> m.kind, via |-> via,
                   result |-> result]
<1>1. answers' = answers \cup {new} \/ answers' = answers
  BY DEF Reply
<1>2. new.call = m.call /\ new.kind = m.kind
  OBVIOUS
<1> HIDE DEF new
<1>3. \A n \in answers' : n \in answers \/ n = new
  BY <1>1
<1>4. RepliesReachTheirCaller'
  BY DEF SocketInv, RepliesReachTheirCaller, PendingIsWaiting
<1>5. \A n \in requests' \cup answers' :
          OverSocket(n) => /\ call[n.call].pc \notin {"idle", "registered"}
                           /\ box[n.call] = "empty"
  BY <1>2, <1>3 DEF SocketInv, OverSocket
<1>6. \A n, k \in answers' :
          OverSocket(n) /\ OverSocket(k) /\ n.call = k.call => n = k
  BY <1>2, <1>3 DEF SocketInv, OverSocket
<1>7. \A n \in requests', k \in answers' :
          OverSocket(n) /\ OverSocket(k) => n.call # k.call
  BY <1>2, <1>3 DEF SocketInv, OverSocket
<1> QED BY <1>4, <1>5, <1>6, <1>7 DEF SocketInv, OverSocket

\* SendCall puts the call on the WebSocket, where nothing of it was.
LEMMA SendingKeepsCalls ==
    ASSUME TypeInv, SocketInv, NEW c \in Calls, SendCall(c)
    PROVE  SocketInv'
<1> USE DEF TypeInv, CallTypeOK
<1> DEFINE new == [call |-> c, try |-> 0, kind |-> "rpc", via |-> call[c].link]
<1>1. call \in [Calls -> CallRecord] /\ call[c] \in CallRecord
  OBVIOUS
<1>2. call[c].pc = "registered" /\ call'[c].pc = "waiting"
  BY <1>1 DEF SendCall, CallRecord
<1>3. \A d \in Calls : d # c => call'[d] = call[d]
  BY <1>1 DEF SendCall
<1>4. requests' = requests \cup {new} \/ requests' = requests
  BY DEF SendCall
<1>5. UNCHANGED <<answers, box, pending, deaf>>
  BY DEF SendCall
<1>6. new.call = c
  OBVIOUS
<1> HIDE DEF new
<1>7. \A m \in requests' : m \in requests \/ m = new
  BY <1>4
<1>8. \A m \in requests \cup answers : m.call \in Calls /\ (OverSocket(m) => m.call # c)
  BY <1>2 DEF SocketInv, Request, Answer
<1>9. box[c] = "empty"
  BY <1>2 DEF SocketInv
<1>10. RepliesReachTheirCaller'
  BY <1>2, <1>3, <1>5 DEF SocketInv, RepliesReachTheirCaller, PendingIsWaiting
<1>11. \A m \in requests' \cup answers :
          OverSocket(m) => /\ call'[m.call].pc \notin {"idle", "registered"}
                           /\ box[m.call] = "empty"
  <2> SUFFICES ASSUME NEW m \in requests' \cup answers, OverSocket(m)
               PROVE  /\ call'[m.call].pc \notin {"idle", "registered"}
                      /\ box[m.call] = "empty"
    OBVIOUS
  <2>1. CASE m = new
    BY <1>2, <1>6, <1>9, <2>1
  <2>2. CASE m \in requests \cup answers
    BY <1>3, <1>8, <2>2 DEF SocketInv
  <2> QED BY <1>7, <2>1, <2>2
<1>12. \A m, n \in requests' :
          OverSocket(m) /\ OverSocket(n) /\ m.call = n.call => m = n
  BY <1>6, <1>7, <1>8 DEF SocketInv
<1>13. \A m \in requests', n \in answers :
          OverSocket(m) /\ OverSocket(n) => m.call # n.call
  BY <1>6, <1>7, <1>8 DEF SocketInv
<1>14. \A d \in Calls : box[d] # "empty" => call'[d].pc \notin {"idle", "registered"}
  BY <1>3, <1>9 DEF SocketInv
<1> QED BY <1>5, <1>10, <1>11, <1>12, <1>13, <1>14 DEF SocketInv, OverSocket

\* RouteReply moves an answer to the channel of its caller, or drops it
\* because the caller has left.
LEMMA RoutingKeepsCalls ==
    ASSUME TypeInv, SocketInv, NEW a \in answers, RouteReply(a)
    PROVE  SocketInv'
<1> USE DEF TypeInv, CallTypeOK
<1>1. /\ a.call \in Calls /\ a.result # "empty" /\ box \in [Calls -> Results \cup {"empty"}]
      /\ \A m \in requests \cup answers : m.call \in Calls
  BY DEF Answer, Request, Results
<1>2. OverSocket(a) /\ box[a.call] = "empty" /\ call[a.call].pc \notin {"idle", "registered"}
  BY DEF RouteReply, SocketInv, OverSocket
<1>3. UNCHANGED <<requests, call, pending>> /\ answers' = answers \ {a}
  BY DEF RouteReply
<1>4. deaf' = {}
  BY <1>1, <1>2 DEF RouteReply, SocketInv, RepliesReachTheirCaller, PendingIsWaiting
<1>5. \A d \in Calls : d # a.call => box'[d] = box[d]
  BY <1>1 DEF RouteReply
<1>6. \A m \in requests \cup answers' : OverSocket(m) => m.call # a.call
  BY <1>2, <1>3 DEF SocketInv
<1>7. \A m \in requests \cup answers' :
          OverSocket(m) => /\ call[m.call].pc \notin {"idle", "registered"}
                           /\ box'[m.call] = "empty"
  BY <1>1, <1>3, <1>5, <1>6 DEF SocketInv
<1>8. \A d \in Calls : box'[d] # "empty" => call[d].pc \notin {"idle", "registered"}
  BY <1>2, <1>5 DEF SocketInv
<1> QED BY <1>3, <1>4, <1>7, <1>8
        DEF SocketInv, OverSocket, RepliesReachTheirCaller, PendingIsWaiting

\* A call over the WebSocket is in one place, and its reply, if it arrives
\* while the caller waits, reaches it.
THEOREM CallsInOnePlace == CallSpec => [](TypeInv /\ SocketInv)
<1>1. CallInit => SocketInv
  <2> SUFFICES ASSUME CallInit PROVE SocketInv
    OBVIOUS
  <2>1. \A c \in Calls : call[c].pc = "idle" /\ box[c] = "empty"
    BY DEF CallInit, NewCall
  <2> QED BY <2>1 DEF CallInit, SocketInv, RepliesReachTheirCaller, PendingIsWaiting
<1>2. TypeInv /\ SocketInv /\ [CallNext]_callVars => SocketInv'
  <2> SUFFICES ASSUME TypeInv, SocketInv, [CallNext]_callVars
               PROVE  SocketInv'
    OBVIOUS
  <2>1. ASSUME NEW c \in Calls, CallerStep(c) PROVE SocketInv'
    BY <2>1, CallersAreQuiet, SendingKeepsCalls DEF CallerStep
  <2>2. ASSUME NEW m \in requests, NEW result, Run(m, result) PROVE SocketInv'
    BY <2>2, AgentKeepsCalls DEF Run
  <2>3. ASSUME NEW m \in requests, Refuse(m) PROVE SocketInv'
    BY <2>3, AgentKeepsCalls DEF Refuse
  <2>4. CASE Drop
    BY <2>4 DEF Drop, SocketInv, OverSocket, RepliesReachTheirCaller, PendingIsWaiting
  <2>5. CASE ForgetKey
    BY <2>5 DEF ForgetKey, SocketInv, OverSocket, RepliesReachTheirCaller, PendingIsWaiting
  <2>6. CASE Dial
    BY <2>6 DEF Dial, SocketInv, OverSocket, RepliesReachTheirCaller, PendingIsWaiting
  <2>7. CASE UNCHANGED callVars
    BY <2>7 DEF callVars, SocketInv, OverSocket, RepliesReachTheirCaller, PendingIsWaiting
  <2> QED
    BY <2>1, <2>2, <2>3, <2>4, <2>5, <2>6, <2>7, RoutingKeepsCalls, HearingIsQuiet
       DEF CallNext, AgentRuns
<1> QED BY <1>1, <1>2, CallsTypeCorrect, PTL DEF CallSpec

\* A reply that finds its caller waiting is never dropped, and no channel
\* outlives its caller (CallAgent, routeRPCReply).
THEOREM RepliesAreHeard == CallSpec => []RepliesReachTheirCaller
<1>1. SocketInv => RepliesReachTheirCaller
  BY DEF SocketInv
<1> QED BY <1>1, CallsInOnePlace, PTL

-----------------------------------------------------------------------------
(* Results *)

\* What an answer may say, and what a failure and a success rest on.
ResultInv ==
    /\ \A a \in answers : /\ a.kind # "sealed" => a.result \in {"ok", "bad"}
                          /\ a.result = "ok" => a.call \in applied
    /\ \A c \in Calls : /\ box[c] \in {"empty", "ok", "bad"}
                        /\ box[c] = "ok" => c \in applied
    /\ SessionLossFailsNoCall

\* A step in which only one call may end: with a failure that was met.
LEMMA EndsForAReason ==
    ASSUME TypeInv, ResultInv, NEW c \in Calls,
           \A d \in Calls : d # c => call'[d] = call[d],
           call'[c].end = "failed" => call[c].end = "failed" \/ c \in hit',
           hit \subseteq hit'
    PROVE  SessionLossFailsNoCall'
BY DEF ResultInv, SessionLossFailsNoCall

LEMMA CallersHaveAReason ==
    ASSUME TypeInv, ResultInv, NEW c \in Calls, CallerStep(c)
    PROVE  ResultInv'
<1> USE DEF TypeInv, CallTypeOK
<1>1. call \in [Calls -> CallRecord] /\ call[c] \in CallRecord
  OBVIOUS
<1>2. UNCHANGED <<box, applied>> /\ answers' \subseteq answers
  BY DEF CallerStep, Register, SkipSocket, SendCall, GiveUp, Receive, NoAddress, Ask,
         RequestFails
<1>3. /\ \A d \in Calls : d # c => call'[d] = call[d]
      /\ call'[c].end = "failed" => call[c].end = "failed" \/ c \in hit'
      /\ hit \subseteq hit'
  <2>1. CASE Register(c) \/ SkipSocket(c) \/ SendCall(c) \/ GiveUp(c)
    BY <1>1, <2>1 DEF Register, SkipSocket, SendCall, GiveUp, CallRecord
  <2>2. CASE Receive(c)
    <3>1. box[c] \in {"ok", "bad"}
      BY <2>2 DEF Receive, ResultInv
    <3> QED BY <1>1, <2>2, <3>1 DEF Receive, Finish, CallRecord
  <2>3. CASE NoAddress(c) \/ RequestFails(c)
    BY <1>1, <2>3 DEF NoAddress, RequestFails, NextAddress, Finish, CallRecord
  <2>4. ASSUME NEW kind \in {"kx", "sealed"}, Ask(c, kind)
        PROVE  /\ \A d \in Calls : d # c => call'[d] = call[d]
               /\ call'[c].end = call[c].end
               /\ hit' = hit
    BY <1>1, <2>4 DEF Ask, CallRecord
  <2> QED BY <2>1, <2>2, <2>3, <2>4 DEF CallerStep
<1>4. SessionLossFailsNoCall'
  BY <1>3, EndsForAReason
<1> QED BY <1>2, <1>4 DEF ResultInv

LEMMA HearingHasAReason ==
    ASSUME TypeInv, ResultInv, NEW a \in answers, HearingStep(a)
    PROVE  ResultInv'
<1> USE DEF TypeInv, CallTypeOK
<1>1. /\ a.call \in Calls /\ a.kind \in Kinds /\ a.result \in Results
      /\ call \in [Calls -> CallRecord] /\ call[a.call] \in CallRecord
  BY DEF Answer
<1>2. UNCHANGED <<box, applied>> /\ answers' \subseteq answers
  BY DEF HearingStep, HearSuccess, Renegotiate, HearError
<1>3. /\ \A d \in Calls : d # a.call => call'[d] = call[d]
      /\ call'[a.call].end = "failed" => call[a.call].end = "failed" \/ a.call \in hit'
      /\ hit \subseteq hit'
  <2>1. CASE HearSuccess(a)
    BY <1>1, <2>1 DEF HearSuccess, Finish, CallRecord
  <2>2. CASE Renegotiate(a)
    BY <1>1, <2>2 DEF Renegotiate, CallRecord
  <2>3. CASE HearError(a)
    <3>1. a.result = "bad"
      BY <1>1, <2>3 DEF HearError, IsSessionInvalid, ResultInv, Kinds, Results
    <3> QED BY <1>1, <2>3, <3>1 DEF HearError, NextAddress, Finish, CallRecord
  <2> QED BY <2>1, <2>2, <2>3 DEF HearingStep
<1>4. SessionLossFailsNoCall'
  BY <1>1, <1>3, EndsForAReason
<1> QED BY <1>2, <1>4 DEF ResultInv

\* A step of the agent: what it answers is true.
LEMMA AgentIsTruthful ==
    ASSUME TypeInv, ResultInv, NEW m \in requests, NEW result \in Results, NEW via,
           Reply(m, result, via), UNCHANGED <<call, box, hit>>,
           applied \subseteq applied',
           result = "ok" => m.call \in applied',
           m.kind # "sealed" => result \in {"ok", "bad"}
    PROVE  ResultInv'
<1> DEFINE new == [call |-> m.call, try |-> m.try, kind |-> m.kind, via |-> via,
                   result |-> result]
<1>1. answers' = answers \cup {new} \/ answers' = answers
  BY DEF Reply
<1>2. new.call = m.call /\ new.kind = m.kind /\ new.result = result
  OBVIOUS
<1> HIDE DEF new
<1>3. \A n \in answers' : /\ n.kind # "sealed" => n.result \in {"ok", "bad"}
                          /\ n.result = "ok" => n.call \in applied'
  BY <1>1, <1>2 DEF ResultInv
<1> QED BY <1>3 DEF ResultInv, SessionLossFailsNoCall

LEMMA RunningIsTruthful ==
    ASSUME TypeInv, ResultInv, AgentRuns
    PROVE  ResultInv'
<1> USE DEF TypeInv, CallTypeOK
<1>1. \A m \in requests : m.call \in Calls /\ m.kind \in Kinds
  BY DEF Request
<1>2. ASSUME NEW m \in requests, NEW result \in {"ok", "bad", "unreadable"},
             Run(m, result), result = "unreadable" => m.kind = "sealed"
      PROVE  ResultInv'
  <2>1. \E via : Reply(m, result, via)
    BY <1>2 DEF Run
  <2> QED BY <1>1, <1>2, <2>1, AgentIsTruthful DEF Run, Results
<1>3. ASSUME NEW m \in requests, Refuse(m) PROVE ResultInv'
  BY <1>3, AgentIsTruthful DEF Refuse, Results
<1> QED BY <1>2, <1>3 DEF AgentRuns

THEOREM ResultsAreTrue == CallSpec => []ResultInv
<1>1. CallInit => ResultInv
  BY DEF CallInit, ResultInv, SessionLossFailsNoCall, NewCall
<1>2. TypeInv /\ ResultInv /\ [CallNext]_callVars => ResultInv'
  <2> SUFFICES ASSUME TypeInv, ResultInv, [CallNext]_callVars
               PROVE  ResultInv'
    OBVIOUS
  <2>1. ASSUME NEW a \in answers, RouteReply(a) PROVE ResultInv'
    <3>1. a.call \in Calls /\ a.result \in {"ok", "bad"} /\ box \in [Calls -> Results \cup {"empty"}]
      BY <2>1 DEF RouteReply, ResultInv, TypeInv, CallTypeOK, Answer
    <3>2. \A c \in Calls : box'[c] = box[c] \/ (c = a.call /\ box'[c] = a.result)
      BY <2>1, <3>1 DEF RouteReply
    <3>3. UNCHANGED <<call, applied, hit>> /\ answers' \subseteq answers
      BY <2>1 DEF RouteReply
    <3> QED BY <3>1, <3>2, <3>3 DEF ResultInv, SessionLossFailsNoCall
  <2>2. CASE ForgetKey \/ Drop \/ Dial \/ UNCHANGED callVars
    BY <2>2 DEF ForgetKey, Drop, Dial, callVars, ResultInv, SessionLossFailsNoCall
  <2> QED BY <2>1, <2>2, CallersHaveAReason, HearingHasAReason, RunningIsTruthful
          DEF CallNext
<1> QED BY <1>1, <1>2, CallsTypeCorrect, PTL DEF CallSpec

\* Losing a session, or two calls that negotiate at once, fails no call
\* (isSessionInvalidErr and the renegotiation of forwardToRemoteServer).
THEOREM SessionsFailNothing == CallSpec => []SessionLossFailsNoCall
<1>1. ResultInv => SessionLossFailsNoCall
  BY DEF ResultInv
<1> QED BY <1>1, ResultsAreTrue, PTL

-----------------------------------------------------------------------------
(* Runs and tries *)

\* The try at hand of the call has sent nothing yet.
Unsent(c) == call[c].pc \in {"idle", "registered", "http"}

\* A try is charged when it is sent: until then nothing of the call is left
\* that an earlier try does not excuse, and a refusal that the caller still
\* awaits has taken the request of its try away.
AccountInv ==
    /\ IsFiniteSet(requests)
    /\ \A c \in Calls : Copies(c) <= excused[c] + (IF Unsent(c) THEN 0 ELSE 1)
    /\ \A a \in answers :
          Awaited(a) /\ a.result = "refused" => Copies(a.call) <= excused[a.call]

Copied(c) == {m \in requests : m.call = c}

LEMMA CopiesCounted ==
    ASSUME TypeInv, IsFiniteSet(requests), NEW c \in Calls
    PROVE  /\ IsFiniteSet(Copied(c)) /\ Cardinality(Copied(c)) \in Nat
           /\ runs[c] \in Nat /\ excused[c] \in Nat
           /\ Copies(c) = runs[c] + Cardinality(Copied(c)) /\ Copies(c) \in Nat
<1>1. IsFiniteSet(Copied(c))
  BY FS_Subset DEF Copied
<1>2. Cardinality(Copied(c)) \in Nat
  BY <1>1, FS_CardinalityType
<1>3. runs[c] \in Nat /\ excused[c] \in Nat
  BY DEF TypeInv, CallTypeOK
<1> QED BY <1>1, <1>2, <1>3 DEF Copies, Copied

\* A request that is sent is one copy more, of its call only.
LEMMA SendingAddsOne ==
    ASSUME TypeInv, IsFiniteSet(requests), NEW new \in Request,
           requests' = requests \cup {new}, UNCHANGED runs
    PROVE  /\ IsFiniteSet(requests')
           /\ Copies(new.call)' <= Copies(new.call) + 1
           /\ \A d \in Calls : d # new.call => Copies(d)' = Copies(d)
<1>1. IsFiniteSet(requests')
  BY FS_AddElement
<1>2. new.call \in Calls
  BY DEF Request
<1>3. Copied(new.call)' = Copied(new.call) \cup {new}
  BY DEF Copied
<1>4. Cardinality(Copied(new.call)') \in
          {Cardinality(Copied(new.call)), Cardinality(Copied(new.call)) + 1}
  BY <1>2, <1>3, CopiesCounted, FS_AddElement
<1>5. Copies(new.call)' = runs[new.call] + Cardinality(Copied(new.call)')
  BY DEF Copies, Copied
<1>6. Copies(new.call)' <= Copies(new.call) + 1
  BY <1>2, <1>4, <1>5, CopiesCounted
<1>7. ASSUME NEW d \in Calls, d # new.call PROVE Copies(d)' = Copies(d)
  <2>1. {m \in requests' : m.call = d} = {m \in requests : m.call = d}
    BY <1>7
  <2> QED BY <2>1 DEF Copies
<1> QED BY <1>1, <1>6, <1>7

\* A request that is taken is one copy less, of its call only.
LEMMA TakingRemovesOne ==
    ASSUME TypeInv, IsFiniteSet(requests), NEW m \in requests,
           requests' = requests \ {m}
    PROVE  /\ IsFiniteSet(requests')
           /\ Copies(m.call)' = runs'[m.call] + Cardinality(Copied(m.call)) - 1
           /\ \A d \in Calls :
                 d # m.call /\ runs'[d] = runs[d] => Copies(d)' = Copies(d)
<1>1. IsFiniteSet(requests')
  BY FS_RemoveElement
<1>2. m.call \in Calls
  BY DEF TypeInv, CallTypeOK, Request
<1>3. Copied(m.call)' = Copied(m.call) \ {m} /\ m \in Copied(m.call)
  BY DEF Copied
<1>4. Cardinality(Copied(m.call)') = Cardinality(Copied(m.call)) - 1
  BY <1>2, <1>3, CopiesCounted, FS_RemoveElement
<1>5. Copies(m.call)' = runs'[m.call] + Cardinality(Copied(m.call)')
  BY DEF Copies, Copied
<1>7. ASSUME NEW d \in Calls, d # m.call, runs'[d] = runs[d] PROVE Copies(d)' = Copies(d)
  <2>1. {n \in requests' : n.call = d} = {n \in requests : n.call = d}
    BY <1>7
  <2> QED BY <1>7, <2>1 DEF Copies
<1> QED BY <1>1, <1>4, <1>5, <1>7

\* One call moves and sends nothing, and awaits no refusal afterwards.
LEMMA UnsentStep ==
    ASSUME TypeInv, AccountInv, NEW c \in Calls,
           UNCHANGED <<requests, runs>>, answers' \subseteq answers,
           \A d \in Calls : d # c => call'[d] = call[d] /\ excused'[d] = excused[d],
           call'[c].pc # "asked",
           Copies(c) <= excused'[c] + (IF Unsent(c)' THEN 0 ELSE 1)
    PROVE  AccountInv'
<1>1. \A d : Copies(d)' = Copies(d)
  BY DEF Copies
<1>2. ASSUME NEW d \in Calls
      PROVE  Copies(d)' <= excused'[d] + (IF Unsent(d)' THEN 0 ELSE 1)
  BY <1>1 DEF AccountInv, Unsent
<1>3. ASSUME NEW a \in answers', Awaited(a)', a.result = "refused"
      PROVE  Copies(a.call)' <= excused'[a.call]
  <2>1. a \in answers /\ a.call \in Calls /\ a.call # c
    BY <1>3 DEF Awaited, TypeInv, CallTypeOK, Answer
  <2>2. Awaited(a)
    BY <1>3, <2>1 DEF Awaited
  <2> QED BY <1>1, <1>3, <2>1, <2>2 DEF AccountInv
<1> QED BY <1>2, <1>3 DEF AccountInv

\* One call sends the request new of its try.
LEMMA SendingStep ==
    ASSUME TypeInv, AccountInv, NEW c \in Calls, NEW new \in Request, new.call = c,
           requests' = requests \cup {new}, UNCHANGED <<runs, answers, excused>>,
           \A d \in Calls : d # c => call'[d] = call[d],
           Unsent(c), ~Unsent(c)',
           call'[c].pc = "asked" => /\ call[c].pc = "http"
                                    /\ call'[c].try = call[c].try
    PROVE  AccountInv'
<1>1. /\ IsFiniteSet(requests')
      /\ Copies(c)' <= Copies(c) + 1
      /\ \A d \in Calls : d # c => Copies(d)' = Copies(d)
  BY SendingAddsOne DEF AccountInv
<1>2. Copies(c) \in Nat /\ Copies(c)' \in Nat /\ excused[c] \in Nat
  <2>1. Copies(c) \in Nat /\ excused[c] \in Nat /\ runs[c] \in Nat
    BY CopiesCounted DEF AccountInv
  <2>2. Cardinality({m \in requests' : m.call = c}) \in Nat
    BY <1>1, FS_Subset, FS_CardinalityType
  <2> QED BY <2>1, <2>2 DEF Copies
<1>3. Copies(c) <= excused[c]
  BY <1>2 DEF AccountInv
<1>4. ASSUME NEW d \in Calls
      PROVE  Copies(d)' <= excused'[d] + (IF Unsent(d)' THEN 0 ELSE 1)
  <2>1. CASE d = c
    BY <1>1, <1>2, <1>3, <2>1
  <2>2. CASE d # c
    BY <1>1, <2>2 DEF AccountInv, Unsent
  <2> QED BY <2>1, <2>2
<1>5. ASSUME NEW a \in answers', Awaited(a)', a.result = "refused"
      PROVE  Copies(a.call)' <= excused'[a.call]
  <2>1. a \in answers /\ a.call \in Calls
    BY <1>5 DEF TypeInv, CallTypeOK, Answer
  <2>2. a.call # c
    BY <1>5, <2>1 DEF Awaited, TypeInv, MessageInv, Fits
  <2>3. Awaited(a)
    BY <1>5, <2>1, <2>2 DEF Awaited
  <2> QED BY <1>1, <1>5, <2>1, <2>2, <2>3 DEF AccountInv
<1> QED BY <1>1, <1>4, <1>5 DEF AccountInv

LEMMA CallersAreCharged ==
    ASSUME TypeInv, AccountInv, NEW c \in Calls, CallerStep(c)
    PROVE  AccountInv'
<1> USE DEF TypeInv, CallTypeOK
<1>1. call \in [Calls -> CallRecord] /\ call[c] \in CallRecord
  OBVIOUS
<1>2. /\ Copies(c) \in Nat /\ excused[c] \in Nat
      /\ Copies(c) <= excused[c] + (IF Unsent(c) THEN 0 ELSE 1)
      /\ excused \in [Calls -> Nat]
  BY CopiesCounted DEF AccountInv
<1>3. CASE Register(c) \/ SkipSocket(c)
  <2>1. /\ call[c].pc = "idle" /\ call'[c].pc \in {"registered", "http"}
        /\ \A d \in Calls : d # c => call'[d] = call[d]
    BY <1>1, <1>3 DEF Register, SkipSocket, CallRecord
  <2> QED BY <1>2, <1>3, <2>1, UnsentStep DEF Register, SkipSocket, Unsent
<1>4. CASE SendCall(c)
  <2> DEFINE new == [call |-> c, try |-> 0, kind |-> "rpc", via |-> call[c].link]
  <2>1. /\ call[c].pc = "registered" /\ call'[c].pc = "waiting"
        /\ \A d \in Calls : d # c => call'[d] = call[d]
    BY <1>1, <1>4 DEF SendCall, CallRecord
  <2>2. new \in Request /\ new.call = c
    BY <1>1, CallAssumption DEF Request, CallRecord, Tries, Kinds
  <2>3. requests' = requests \cup {new} \/ requests' = requests
    BY <1>4 DEF SendCall
  <2>4. UNCHANGED <<runs, answers, excused>>
    BY <1>4 DEF SendCall
  <2> HIDE DEF new
  <2>5. CASE requests' = requests \cup {new}
    BY <2>1, <2>2, <2>4, <2>5, SendingStep DEF Unsent
  <2>6. CASE requests' = requests
    BY <1>2, <2>1, <2>4, <2>6, UnsentStep DEF Unsent
  <2> QED BY <2>3, <2>5, <2>6
<1>5. CASE GiveUp(c)
  <2>1. /\ call'[c].pc = "http"
        /\ \A d \in Calls : d # c => call'[d] = call[d] /\ excused'[d] = excused[d]
        /\ excused'[c] = excused[c] + 1
    BY <1>1, <1>2, <1>5 DEF GiveUp, Excuse, CallRecord
  <2> QED BY <1>2, <1>5, <2>1, UnsentStep DEF GiveUp, Unsent
<1>6. CASE Receive(c)
  <2>1. /\ call[c].pc = "waiting" /\ call'[c].pc = "done"
        /\ \A d \in Calls : d # c => call'[d] = call[d]
    BY <1>1, <1>6 DEF Receive, Finish, CallRecord
  <2> QED BY <1>2, <1>6, <2>1, UnsentStep DEF Receive, Unsent
<1>7. CASE NoAddress(c)
  <2>1. /\ call[c].pc = "http" /\ call'[c].pc = "done"
        /\ \A d \in Calls : d # c => call'[d] = call[d]
    BY <1>1, <1>7 DEF NoAddress, Finish, CallRecord
  <2> QED BY <1>2, <1>7, <2>1, UnsentStep DEF NoAddress, Unsent
<1>8. ASSUME NEW kind \in {"kx", "sealed"}, Ask(c, kind) PROVE AccountInv'
  <2> DEFINE new == [call |-> c, try |-> call[c].try, kind |-> kind,
                     via |-> IF kind = "kx" THEN NoKey ELSE key]
  <2>1. /\ call[c].pc = "http" /\ call'[c].pc = "asked" /\ call'[c].try = call[c].try
        /\ \A d \in Calls : d # c => call'[d] = call[d]
    BY <1>1, <1>8 DEF Ask, CallRecord
  <2>2. new \in Request /\ new.call = c
    <3>1. key \in 0..(MaxKeys + MaxLinks) /\ NoKey \in 0..(MaxKeys + MaxLinks)
      BY CallAssumption DEF NoKey
    <3> QED BY <1>1, <3>1 DEF Request, CallRecord, Kinds
  <2>3. requests' = requests \cup {new} /\ UNCHANGED <<runs, answers, excused>>
    BY <1>8 DEF Ask
  <2> HIDE DEF new
  <2> QED BY <2>1, <2>2, <2>3, SendingStep DEF Unsent
<1>9. CASE RequestFails(c)
  <2>1. /\ call[c].pc = "asked" /\ call'[c].pc \in {"http", "done"}
        /\ \A d \in Calls : d # c => call'[d] = call[d] /\ excused'[d] = excused[d]
        /\ excused'[c] = excused[c] + 1
    BY <1>1, <1>2, <1>9 DEF RequestFails, NextAddress, Finish, Excuse, CallRecord
  <2> QED BY <1>2, <1>9, <2>1, UnsentStep DEF RequestFails, Unsent
<1> QED BY <1>3, <1>4, <1>5, <1>6, <1>7, <1>8, <1>9 DEF CallerStep

LEMMA HearingIsCharged ==
    ASSUME TypeInv, AccountInv, NEW a \in answers, HearingStep(a)
    PROVE  AccountInv'
<1> USE DEF TypeInv, CallTypeOK
<1> DEFINE c == a.call
<1>1. c \in Calls /\ call \in [Calls -> CallRecord] /\ call[c] \in CallRecord
  BY DEF Answer
<1>2. /\ Copies(c) \in Nat /\ excused[c] \in Nat
      /\ Copies(c) <= excused[c] + (IF Unsent(c) THEN 0 ELSE 1)
      /\ excused \in [Calls -> Nat]
  BY <1>1, CopiesCounted DEF AccountInv
<1>3. /\ call[c].pc = "asked" /\ call'[c].pc \in {"http", "done"}
      /\ \A d \in Calls : d # c => call'[d] = call[d]
      /\ Awaited(a)
  BY HearingMoves, Zenon
<1>4. UNCHANGED <<requests, runs>> /\ answers' \subseteq answers
  BY DEF HearingStep, HearSuccess, Renegotiate, HearError
<1>5. \A d \in Calls : d # c => excused'[d] = excused[d]
  BY <1>1, <1>2 DEF HearingStep, HearSuccess, Renegotiate, HearError, NextAddress, Excuse
<1>6. Copies(c) <= excused'[c] + (IF Unsent(c)' THEN 0 ELSE 1)
  <2>1. CASE HearSuccess(a)
    <3>1. call'[c].pc = "done" /\ excused' = excused
      BY <1>1, <2>1 DEF HearSuccess, Finish, CallRecord
    <3> QED BY <1>2, <1>3, <3>1 DEF Unsent
  <2>2. CASE Renegotiate(a) /\ a.result = "refused"
    <3>1. Copies(c) <= excused[c] /\ excused' = excused
      BY <1>3, <2>2 DEF AccountInv, Renegotiate
    <3> QED BY <1>2, <3>1
  <2>3. CASE (Renegotiate(a) /\ a.result # "refused") \/ HearError(a)
    <3>1. excused'[c] = excused[c] + 1
      BY <1>1, <1>2, <2>3 DEF Renegotiate, HearError, NextAddress, Excuse
    <3> QED BY <1>2, <3>1
  <2> QED BY <2>1, <2>2, <2>3 DEF HearingStep
<1> HIDE DEF c
<1> QED BY <1>1, <1>3, <1>4, <1>5, <1>6, UnsentStep

\* The agent takes a request: a copy that is run stays a copy, one that is
\* refused is gone before the caller hears of it.
LEMMA AgentIsCharged ==
    ASSUME TypeInv, AccountInv, AgentRuns
    PROVE  AccountInv'
<1> USE DEF TypeInv, CallTypeOK
<1>1. ASSUME NEW m \in requests, NEW result, NEW via, Reply(m, result, via),
             requests' = requests \ {m}, UNCHANGED <<call, excused>>,
             \A d \in Calls : d # m.call => runs'[d] = runs[d],
             IF result = "refused" THEN runs'[m.call] = runs[m.call]
                                   ELSE runs'[m.call] = runs[m.call] + 1
      PROVE  AccountInv'
  <2> DEFINE new == [call |-> m.call, try |-> m.try, kind |-> m.kind, via |-> via,
                     result |-> result]
  <2>1. m.call \in Calls
    BY DEF Request
  <2>2. /\ IsFiniteSet(requests')
        /\ Copies(m.call)' = runs'[m.call] + Cardinality(Copied(m.call)) - 1
        /\ \A d \in Calls : d # m.call => Copies(d)' = Copies(d)
    BY <1>1, TakingRemovesOne DEF AccountInv
  <2>3. /\ Copies(m.call) = runs[m.call] + Cardinality(Copied(m.call))
        /\ runs[m.call] \in Nat /\ Cardinality(Copied(m.call)) \in Nat
        /\ excused[m.call] \in Nat
    BY <2>1, CopiesCounted DEF AccountInv
  <2>4. /\ Copies(m.call)' <= Copies(m.call)
        /\ result = "refused" => Copies(m.call)' = Copies(m.call) - 1
    BY <1>1, <2>2, <2>3
  <2>5. ASSUME NEW d \in Calls
        PROVE  /\ Copies(d)' \in Int /\ Copies(d) \in Int /\ Copies(d)' <= Copies(d)
               /\ excused[d] \in Nat
    <3>1. CASE d = m.call
      BY <1>1, <2>2, <2>3, <2>4, <3>1
    <3>2. CASE d # m.call
      BY <2>2, <3>2, CopiesCounted DEF AccountInv
    <3> QED BY <3>1, <3>2
  <2>6. ASSUME NEW d \in Calls
        PROVE  Copies(d)' <= excused'[d] + (IF Unsent(d)' THEN 0 ELSE 1)
    <3>1. Copies(d) <= excused[d] + (IF Unsent(d) THEN 0 ELSE 1)
      BY DEF AccountInv
    <3>2. Unsent(d)' = Unsent(d) /\ excused' = excused
      BY <1>1 DEF Unsent
    <3> QED BY <2>5, <3>1, <3>2
  <2>7. new.call = m.call /\ new.result = result
    OBVIOUS
  <2>8. answers' = answers \cup {new} \/ answers' = answers
    BY <1>1 DEF Reply
  <2> HIDE DEF new
  <2>9. ASSUME NEW a \in answers', Awaited(a)', a.result = "refused"
        PROVE  Copies(a.call)' <= excused'[a.call]
    <3>1. CASE a \in answers
      <4>1. a.call \in Calls /\ Awaited(a)
        BY <1>1, <2>9, <3>1 DEF Awaited, Answer
      <4> QED BY <1>1, <2>5, <2>9, <3>1, <4>1 DEF AccountInv
    <3>2. CASE a = new
      <4>1. a.call = m.call /\ result = "refused"
        BY <2>7, <2>9, <3>2
      <4>2. Copies(m.call) <= excused[m.call] + 1
        BY <2>1, <2>3 DEF AccountInv
      <4> QED BY <1>1, <2>3, <2>4, <4>1, <4>2
    <3> QED BY <2>8, <2>9, <3>1, <3>2
  <2> QED BY <2>2, <2>6, <2>9 DEF AccountInv
<1>2. \A m \in requests : m.call \in Calls
  BY DEF Request
<1>3. runs \in [Calls -> Nat]
  OBVIOUS
<1>4. ASSUME NEW m \in requests, NEW result, result # "refused", Run(m, result)
      PROVE  AccountInv'
  <2>1. \E via : Reply(m, result, via)
    BY <1>4 DEF Run
  <2>2. /\ requests' = requests \ {m} /\ UNCHANGED <<call, excused>>
        /\ \A d \in Calls : d # m.call => runs'[d] = runs[d]
        /\ runs'[m.call] = runs[m.call] + 1
    BY <1>2, <1>3, <1>4 DEF Run
  <2> QED BY <1>1, <1>4, <2>1, <2>2
<1>5. ASSUME NEW m \in requests, Refuse(m) PROVE AccountInv'
  BY <1>1, <1>5 DEF Refuse
<1> QED BY <1>4, <1>5 DEF AgentRuns

\* A step that changes no call, request or count, and adds no answer.
LEMMA NothingIsCharged ==
    ASSUME AccountInv, UNCHANGED <<call, requests, runs, excused>>, answers' \subseteq answers
    PROVE  AccountInv'
<1>1. \A d : Copies(d)' = Copies(d) /\ Unsent(d)' = Unsent(d)
  BY DEF Copies, Unsent
<1>2. \A a \in answers' : a \in answers /\ (Awaited(a)' => Awaited(a))
  BY DEF Awaited
<1> QED BY <1>1, <1>2 DEF AccountInv

\* Nothing of a call is left over that its tries do not account for.
THEOREM TriesAreCharged == CallSpec => [](TypeInv /\ AccountInv)
<1>1. CallInit => AccountInv
  <2> SUFFICES ASSUME CallInit PROVE AccountInv
    OBVIOUS
  <2>1. IsFiniteSet(requests) /\ answers = {}
    BY FS_EmptySet DEF CallInit
  <2>2. ASSUME NEW c \in Calls PROVE Copies(c) = 0 /\ excused[c] = 0 /\ Unsent(c)
    <3>1. {m \in requests : m.call = c} = {} /\ runs[c] = 0
      BY DEF CallInit
    <3> QED BY <3>1, FS_EmptySet DEF CallInit, Copies, Unsent, NewCall
  <2> QED BY <2>1, <2>2 DEF AccountInv
<1>2. TypeInv /\ AccountInv /\ [CallNext]_callVars => AccountInv'
  <2> SUFFICES ASSUME TypeInv, AccountInv, [CallNext]_callVars
               PROVE  AccountInv'
    OBVIOUS
  <2>1. ASSUME NEW a \in answers, RouteReply(a) PROVE AccountInv'
    BY <2>1, NothingIsCharged DEF RouteReply
  <2>2. CASE ForgetKey \/ Drop \/ Dial
    BY <2>2, NothingIsCharged DEF ForgetKey, Drop, Dial
  <2>3. CASE UNCHANGED callVars
    BY <2>3, NothingIsCharged DEF callVars
  <2> QED BY <2>1, <2>2, <2>3, CallersAreCharged, HearingIsCharged, AgentIsCharged
          DEF CallNext
<1> QED BY <1>1, <1>2, CallsTypeCorrect, PTL DEF CallSpec

\* The agent never runs a command more often than its tries excuse: a late
\* reply, a lost session or an error over the WebSocket repeats nothing.
THEOREM RunsAreExcused == CallSpec => []RunsAreAccountedFor
<1>1. TypeInv /\ AccountInv => RunsAreAccountedFor
  <2> SUFFICES ASSUME TypeInv, AccountInv, NEW c \in Calls
               PROVE  Copies(c) <= excused[c] + 1
    BY DEF RunsAreAccountedFor
  <2>1. Copies(c) \in Nat /\ excused[c] \in Nat
    BY CopiesCounted DEF AccountInv
  <2> QED BY <2>1 DEF AccountInv
<1> QED BY <1>1, TriesAreCharged, PTL

-----------------------------------------------------------------------------
(* The refinement *)

Verdicts == [c \in Calls |-> Verdict(c)]

\* One call moves: the others keep their verdict.
LEMMA OneVerdictMoves ==
    ASSUME NEW c \in Calls, \A d \in Calls : d # c => call'[d] = call[d]
    PROVE  Verdicts' = [Verdicts EXCEPT ![c] = Verdict(c)']
BY DEF Verdicts, Verdict

\* A caller's step begins the call, ends it, or is not seen.
LEMMA CallersKeepTheContract ==
    ASSUME TypeInv, ResultInv, NEW c \in Calls, CallerStep(c)
    PROVE  [Contract!Next]_<<Verdicts, applied>>
<1> USE DEF TypeInv, CallTypeOK
<1>1. call \in [Calls -> CallRecord] /\ call[c] \in CallRecord
  OBVIOUS
<1>2. \A d \in Calls : d # c => call'[d] = call[d]
  BY <1>1 DEF CallerStep, Register, SkipSocket, SendCall, GiveUp, Receive, NoAddress, Ask,
              RequestFails, NextAddress, Finish
<1>3. Verdicts' = [Verdicts EXCEPT ![c] = Verdict(c)'] /\ Verdicts[c] = Verdict(c)
  BY <1>2, OneVerdictMoves DEF Verdicts
<1>4. UNCHANGED applied
  BY DEF CallerStep, Register, SkipSocket, SendCall, GiveUp, Receive, NoAddress, Ask,
         RequestFails
<1>5. CASE Register(c) \/ SkipSocket(c)
  <2>1. Verdict(c) = "idle" /\ Verdict(c)' = "open"
    BY <1>1, <1>5 DEF Register, SkipSocket, Verdict, CallRecord
  <2> QED BY <1>3, <1>4, <2>1 DEF Contract!Next, Contract!Begin, Verdicts
<1>6. CASE SendCall(c) \/ GiveUp(c) \/ (\E kind \in {"kx", "sealed"} : Ask(c, kind))
  <2>1. Verdict(c) = "open" /\ Verdict(c)' = "open"
    BY <1>1, <1>6 DEF SendCall, GiveUp, Ask, Verdict, CallRecord
  <2> QED BY <1>3, <1>4, <2>1 DEF Verdicts
<1>7. CASE Receive(c)
  <2>1. Verdict(c) = "open" /\ Verdict(c)' = (IF box[c] = "ok" THEN "ok" ELSE "failed")
    BY <1>1, <1>7 DEF Receive, Finish, Verdict, CallRecord
  <2>2. box[c] = "ok" => c \in applied
    BY DEF ResultInv
  <2> QED BY <1>3, <1>4, <2>1, <2>2
          DEF Contract!Next, Contract!Succeed, Contract!Fail, Verdicts
<1>8. CASE NoAddress(c) \/ RequestFails(c)
  <2>1. Verdict(c) = "open" /\ Verdict(c)' \in {"open", "failed"}
    BY <1>1, <1>8 DEF NoAddress, RequestFails, NextAddress, Finish, Verdict, CallRecord
  <2> QED BY ZenonT(40), <1>3, <1>4, <2>1 DEF Contract!Next, Contract!Fail, Verdicts
<1> QED BY <1>5, <1>6, <1>7, <1>8 DEF CallerStep

LEMMA HearingKeepsTheContract ==
    ASSUME TypeInv, ResultInv, NEW a \in answers, HearingStep(a)
    PROVE  [Contract!Next]_<<Verdicts, applied>>
<1> USE DEF TypeInv, CallTypeOK
<1>1. /\ a.call \in Calls
      /\ call \in [Calls -> CallRecord] /\ call[a.call] \in CallRecord
  BY DEF Answer
<1>2. \A d \in Calls : d # a.call => call'[d] = call[d]
  BY <1>1 DEF HearingStep, HearSuccess, Renegotiate, HearError, NextAddress, Finish
<1>3. /\ Verdicts' = [Verdicts EXCEPT ![a.call] = Verdict(a.call)']
      /\ Verdicts[a.call] = Verdict(a.call)
  BY <1>1, <1>2, OneVerdictMoves DEF Verdicts
<1>4. UNCHANGED applied
  BY DEF HearingStep, HearSuccess, Renegotiate, HearError
<1>5. CASE HearSuccess(a)
  <2>1. Verdict(a.call) = "open" /\ Verdict(a.call)' = "ok" /\ a.call \in applied
    BY <1>1, <1>5 DEF HearSuccess, Awaited, Finish, Verdict, CallRecord, ResultInv
  <2> QED BY <1>1, <1>3, <1>4, <2>1 DEF Contract!Next, Contract!Succeed, Verdicts
<1>6. CASE Renegotiate(a) \/ HearError(a)
  <2>1. Verdict(a.call) = "open" /\ Verdict(a.call)' \in {"open", "failed"}
    <3>1. CASE Renegotiate(a)
      BY <1>1, <3>1 DEF Renegotiate, Awaited, Verdict, CallRecord
    <3>2. CASE HearError(a)
      BY <1>1, <3>2 DEF HearError, Awaited, NextAddress, Finish, Verdict, CallRecord
    <3> QED BY <1>6, <3>1, <3>2
  <2>2. CASE Verdict(a.call)' = "open"
    BY <1>1, <1>3, <1>4, <2>1, <2>2 DEF Verdicts
  <2>3. CASE Verdict(a.call)' = "failed"
    <3>1. Contract!Fail(a.call)
      BY <1>1, <1>3, <1>4, <2>1, <2>3 DEF Contract!Fail, Verdicts
    <3> QED BY <1>1, <3>1 DEF Contract!Next
  <2> QED BY <2>1, <2>2, <2>3
<1> QED BY <1>5, <1>6 DEF HearingStep

LEMMA AgentKeepsTheContract ==
    ASSUME TypeInv, SocketInv, AgentRuns
    PROVE  [Contract!Next]_<<Verdicts, applied>>
<1>1. UNCHANGED Verdicts
  BY DEF AgentRuns, Run, Refuse, Verdicts, Verdict
<1>2. ASSUME NEW m \in requests, NEW result, Run(m, result)
      PROVE  [Contract!Next]_<<Verdicts, applied>>
  <2>1. m.call \in Calls
    BY DEF TypeInv, CallTypeOK, Request
  <2>2. call[m.call].pc # "idle"
    BY DEF TypeInv, MessageInv, Fits, SocketInv, OverSocket
  <2>3. Verdicts[m.call] # "idle"
    <3>1. call[m.call].end \in {"none", "ok", "failed"}
      BY <2>1 DEF TypeInv, CallTypeOK, CallRecord
    <3> QED BY <2>1, <2>2, <3>1 DEF Verdicts, Verdict
  <2>4. applied' = applied \/ applied' = applied \cup {m.call}
    BY <1>2 DEF Run
  <2>5. CASE applied' = applied
    BY <1>1, <2>5
  <2>6. CASE applied' = applied \cup {m.call}
    <3>1. Contract!Apply(m.call)
      BY <1>1, <2>3, <2>6 DEF Contract!Apply, Verdicts
    <3> QED BY <2>1, <3>1 DEF Contract!Next
  <2> QED BY <2>4, <2>5, <2>6
<1>3. ASSUME NEW m \in requests, Refuse(m)
      PROVE  UNCHANGED <<Verdicts, applied>>
  BY <1>1, <1>3 DEF Refuse
<1> QED BY <1>2, <1>3 DEF AgentRuns

\* Every behaviour of a command is one of the contract: it ends once, and a
\* success was applied (forwardToRemoteServer, tryWSRPC).
THEOREM CallsKeepTheContract == CallSpec => RefinesCall
<1>1. CallInit => Contract!Init
  BY DEF CallInit, Contract!Init, Verdict, NewCall
<1>2. TypeInv /\ SocketInv /\ ResultInv /\ [CallNext]_callVars =>
          [Contract!Next]_<<Verdicts, applied>>
  <2> SUFFICES ASSUME TypeInv, SocketInv, ResultInv, [CallNext]_callVars
               PROVE  [Contract!Next]_<<Verdicts, applied>>
    OBVIOUS
  <2>1. CASE \E a \in answers : RouteReply(a)
    BY <2>1 DEF RouteReply, Verdicts, Verdict
  <2>2. CASE ForgetKey \/ Drop \/ Dial \/ UNCHANGED callVars
    BY <2>2 DEF ForgetKey, Drop, Dial, callVars, Verdicts, Verdict
  <2> QED BY <2>1, <2>2, CallersKeepTheContract, HearingKeepsTheContract,
             AgentKeepsTheContract DEF CallNext
<1> QED BY <1>1, <1>2, CallsInOnePlace, ResultsAreTrue, PTL
        DEF CallSpec, RefinesCall, Contract!Spec, Verdicts

-----------------------------------------------------------------------------
(* The output of a command, shown while it runs *)

FramesOf(s) == {s[i] : i \in 1..Len(s)}

\* The numbers of a sequence of frames go up.
Ascends(s) == \A i, j \in 1..Len(s) : i < j => s[i].no < s[j].no

\* Every frame of S comes before every frame of T.
Precede(S, T) == \A f \in S, g \in T : f.no < g.no

\* What can be told of the frames before f: they are in S.
Reaches(f, S) == \A no \in 1..f.no : [run |-> f.run, no |-> no] \in S

Settled == FramesOf(shown) \cup lost

\* Before the handler starts nothing is anywhere.
IdleInv ==
    stream.pc = "idle" =>
        /\ shown = <<>> /\ socket = <<>> /\ lost = {}
        /\ \A r \in Runs : sent[r] = NotAsked

\* While the handler selects, what was shown, what waits in the channel and what
\* is on the socket are one sequence of frames of one run, and what the agent
\* has sent and is in none of them was dropped, unless nothing comes any more.
Flow == FramesOf(shown) \cup FramesOf(channel) \cup FramesOf(socket)

FlowIsOneRun ==
    /\ waiting /\ sent[0] \in Nat
    /\ \A f \in Flow : f.run = 0 /\ f.no <= sent[0]

FlowAscends ==
    /\ Ascends(channel) /\ Ascends(socket)
    /\ Precede(FramesOf(shown), FramesOf(channel) \cup FramesOf(socket))
    /\ Precede(FramesOf(channel), FramesOf(socket))

FlowIsWhole ==
    /\ \A f \in FramesOf(channel) : Reaches(f, Settled \cup FramesOf(channel))
    /\ killed => socket = <<>>
    /\ ~killed => \A no \in 1..sent[0] : [run |-> 0, no |-> no] \in Settled \cup Flow

SelectInv == stream.pc = "select" => FlowIsOneRun /\ FlowAscends /\ FlowIsWhole

\* Over HTTP a run begins with nothing shown, and is shown line by line.
HttpInv ==
    /\ stream.pc \in {"dial", "copy"} => stream.address \in 1..Candidates
    /\ stream.pc = "dial" => shown = <<>>
    /\ stream.pc = "copy" =>
          /\ sent[stream.address] = Len(shown)
          /\ \A i \in 1..Len(shown) : shown[i] = [run |-> stream.address, no |-> i]

RestInv ==
    /\ stream.pc # "select" => ~waiting /\ channel = <<>>
    /\ stream.pc # "done" => stream.end = "none"

\* The two properties, told of the frames.
ShownInv ==
    /\ Ascends(shown) /\ \A f, g \in FramesOf(shown) : f.run = g.run
    /\ \A f \in FramesOf(shown) : Reaches(f, Settled)
    /\ stream.end = "complete" =>
          \E r \in Runs : \A no \in 1..Frames : [run |-> r, no |-> no] \in Settled

StreamInv ==
    StreamTypeOK /\ IdleInv /\ SelectInv /\ HttpInv /\ RestInv /\ ShownInv

-----------------------------------------------------------------------------
(* Sequences of frames *)

\* A frame that is appended comes last.
LEMMA OnAppend ==
    ASSUME NEW s \in Seq(Frame), NEW f \in Frame
    PROVE  /\ Append(s, f) \in Seq(Frame) /\ Len(Append(s, f)) = Len(s) + 1
           /\ FramesOf(Append(s, f)) = FramesOf(s) \cup {f}
           /\ Ascends(s) /\ Precede(FramesOf(s), {f}) => Ascends(Append(s, f))
<1>1. /\ Append(s, f) \in Seq(Frame) /\ Len(Append(s, f)) = Len(s) + 1
      /\ \A i \in 1..Len(s) : Append(s, f)[i] = s[i]
      /\ Append(s, f)[Len(s) + 1] = f
      /\ Len(s) \in Nat
  BY AppendProperties, LenProperties
<1>2. FramesOf(Append(s, f)) = FramesOf(s) \cup {f}
  BY <1>1 DEF FramesOf
<1>3. ASSUME Ascends(s), Precede(FramesOf(s), {f})
      PROVE  Ascends(Append(s, f))
  BY <1>1, <1>3 DEF Ascends, Precede, FramesOf
<1> QED BY <1>1, <1>2, <1>3

\* What is taken from the front came before the rest.
LEMMA OnTail ==
    ASSUME NEW s \in Seq(Frame), s # <<>>
    PROVE  /\ Head(s) \in Frame /\ Head(s) = s[1] /\ Len(s) \in Nat \ {0}
           /\ Tail(s) \in Seq(Frame) /\ Len(Tail(s)) = Len(s) - 1
           /\ FramesOf(s) = {Head(s)} \cup FramesOf(Tail(s))
           /\ Ascends(s) => Ascends(Tail(s)) /\ Precede({Head(s)}, FramesOf(Tail(s)))
<1>1. /\ Head(s) \in Frame /\ Head(s) = s[1] /\ Len(s) \in Nat \ {0}
      /\ Tail(s) \in Seq(Frame) /\ Len(Tail(s)) = Len(s) - 1
      /\ \A i \in 1..Len(Tail(s)) : Tail(s)[i] = s[i + 1]
  BY HeadTailProperties, EmptySeq, LenProperties
<1>2. FramesOf(s) = {Head(s)} \cup FramesOf(Tail(s))
  <2>1. ASSUME NEW i \in 1..Len(s)
        PROVE  s[i] \in {Head(s)} \cup FramesOf(Tail(s))
    <3>1. CASE i = 1
      BY <1>1, <3>1
    <3>2. CASE i # 1
      <4>1. i - 1 \in 1..Len(Tail(s)) /\ s[i] = Tail(s)[i - 1]
        BY <1>1, <3>2
      <4> QED BY <4>1 DEF FramesOf
    <3> QED BY <3>1, <3>2
  <2>2. Head(s) \in FramesOf(s)
    BY <1>1 DEF FramesOf
  <2>3. FramesOf(Tail(s)) \subseteq FramesOf(s)
    BY <1>1 DEF FramesOf
  <2> QED BY <2>1, <2>2, <2>3 DEF FramesOf
<1>3. ASSUME Ascends(s)
      PROVE  Ascends(Tail(s)) /\ Precede({Head(s)}, FramesOf(Tail(s)))
  BY <1>1, <1>3 DEF Ascends, Precede, FramesOf
<1> QED BY <1>1, <1>2, <1>3

LEMMA FramesTyped ==
    ASSUME NEW s \in Seq(Frame)
    PROVE  FramesOf(s) \subseteq Frame
  BY ElementOfSeq DEF FramesOf

\* A frame is a run and a number of Nat.
LEMMA FrameTyped ==
    ASSUME NEW f \in Frame
    PROVE  f.run \in Nat /\ f.no \in Nat /\ f.no >= 1 /\ f = [run |-> f.run, no |-> f.no]
  BY StreamAssumption DEF Frame, Runs

LEMMA NoFrames == FramesOf(<<>>) = {} /\ Ascends(<<>>) /\ <<>> \in Seq(Frame) /\ Len(<<>>) = 0
  BY EmptySeq DEF FramesOf, Ascends

\* What was shown and what was dropped, and the two properties.
LEMMA ShownIs ==
    ASSUME ShownInv
    PROVE  ShowsOneRunInOrder /\ GapsWereDropped
<1>1. ASSUME NEW r, NEW no
      PROVE  Seen(r, no) <=> [run |-> r, no |-> no] \in Settled
  BY DEF Seen, Settled, FramesOf
<1>2. ShowsOneRunInOrder
  BY DEF ShownInv, ShowsOneRunInOrder, Ascends, FramesOf
<1>3. GapsWereDropped
  BY <1>1 DEF ShownInv, GapsWereDropped, Reaches, FramesOf
<1> QED BY <1>2, <1>3

-----------------------------------------------------------------------------
(* The steps *)

StreamState(pcs) == [pc : pcs, address : 0..Candidates, end : Ends]

\* What a change of the handler's record leaves alone.
LEMMA StreamIsRecord ==
    StreamTypeOK => /\ stream = [pc |-> stream.pc, address |-> stream.address, end |-> stream.end]
                    /\ stream.address \in 0..Candidates /\ stream.end \in Ends
  BY DEF StreamTypeOK

LEMMA StreamEnds ==
    ASSUME StreamTypeOK, NEW end \in Ends, EndStream(end)
    PROVE  /\ stream' \in StreamState({"done"}) /\ stream'.pc = "done"
           /\ stream'.end = end /\ stream'.address = stream.address
<1>1. stream' = [pc |-> "done", address |-> stream.address, end |-> end]
  BY StreamIsRecord DEF EndStream
<1> QED BY <1>1, StreamIsRecord DEF StreamState

LEMMA StreamDials ==
    ASSUME StreamTypeOK, NEW address \in 0..Candidates,
           stream' = [stream EXCEPT !.pc = "dial", !.address = address]
    PROVE  /\ stream' \in StreamState({"dial"}) /\ stream'.pc = "dial"
           /\ stream'.end = stream.end /\ stream'.address = address
<1>1. stream' = [pc |-> "dial", address |-> address, end |-> stream.end]
  BY StreamIsRecord
<1> QED BY <1>1, StreamIsRecord DEF StreamState

LEMMA StreamTurns ==
    ASSUME StreamTypeOK, NEW pc, stream' = [stream EXCEPT !.pc = pc]
    PROVE  /\ stream' \in StreamState({pc}) /\ stream'.pc = pc
           /\ stream'.end = stream.end /\ stream'.address = stream.address
<1>1. stream' = [pc |-> pc, address |-> stream.address, end |-> stream.end]
  BY StreamIsRecord
<1> QED BY <1>1, StreamIsRecord DEF StreamState

LEMMA SentChanges ==
    ASSUME StreamTypeOK, NEW r \in Runs, NEW n \in 0..Frames, sent' = [sent EXCEPT ![r] = n]
    PROVE  sent' \in [Runs -> NotAsked..(Frames + 1)] /\ sent'[r] = n
  BY StreamAssumption DEF StreamTypeOK, NotAsked

LEMMA StreamStarts == StreamInit => StreamInv
<1> SUFFICES ASSUME StreamInit PROVE StreamInv
  OBVIOUS
<1> USE NoFrames, StreamAssumption DEF StreamInit
<1>1. StreamTypeOK
  BY DEF StreamTypeOK, Runs, Ends, NotAsked
<1> QED BY <1>1 DEF StreamInv, IdleInv, SelectInv, HttpInv, RestInv, ShownInv, Settled

\* A frame comes, and no later one was there.
LEMMA AgentFlushKeeps == StreamInv /\ AgentFlush => StreamInv'
<1> SUFFICES ASSUME StreamInv, AgentFlush PROVE StreamInv'
  OBVIOUS
<1> USE StreamAssumption DEF AgentFlush, StreamInv
<1> DEFINE f == [run |-> 0, no |-> sent[0] + 1]
<1>1. f \in Frame /\ socket' = Append(socket, f) /\ 0 \in Runs /\ sent[0] \in 0..Frames
  BY DEF StreamTypeOK, Frame, Runs
<1>2. StreamTypeOK'
  BY <1>1, OnAppend DEF StreamTypeOK, NotAsked
<1>3. /\ FramesOf(socket') = FramesOf(socket) \cup {f}
      /\ Ascends(socket) /\ Precede(FramesOf(socket), {f}) => Ascends(socket')
      /\ socket \in Seq(Frame)
  BY ZenonT(40), <1>1, OnAppend DEF StreamTypeOK
<1>4. sent' = [sent EXCEPT ![0] = sent[0] + 1] /\ sent \in [Runs -> NotAsked..(Frames + 1)]
  BY DEF StreamTypeOK
<1>5. SelectInv'
  <2> SUFFICES ASSUME stream.pc = "select" PROVE FlowIsOneRun' /\ FlowAscends' /\ FlowIsWhole'
    BY DEF SelectInv
  <2>1. /\ sent'[0] = sent[0] + 1 /\ FlowIsOneRun /\ FlowAscends /\ FlowIsWhole
        /\ Flow' = Flow \cup {f} /\ Settled' = Settled
    BY <1>1, <1>3, <1>4 DEF SelectInv, Flow, Settled
  <2>2. Flow \subseteq Frame /\ sent[0] \in Nat
    BY <1>1, FramesTyped DEF StreamTypeOK, Flow
  <2>3. Precede(Flow, {f})
    BY <2>1, <2>2, FrameTyped DEF Precede, FlowIsOneRun
  <2>4. FlowIsOneRun'
    BY <2>1, <2>2, FrameTyped DEF FlowIsOneRun
  <2>5. FlowAscends'
    BY <1>1, <1>3, <2>1, <2>3 DEF FlowAscends, Precede, Flow
  <2>6. FlowIsWhole'
    BY <1>1, <2>1, <2>2 DEF FlowIsWhole, Reaches
  <2> QED BY <2>4, <2>5, <2>6
<1>6. IdleInv'
  BY <1>1 DEF IdleInv, NotAsked
<1>7. HttpInv'
  BY <1>1, <1>4 DEF HttpInv, StreamTypeOK, Runs
<1>8. RestInv' /\ ShownInv'
  BY DEF RestInv, ShownInv, Settled, Reaches
<1> QED BY <1>2, <1>5, <1>6, <1>7, <1>8

LEMMA KillKeeps == StreamInv /\ Kill => StreamInv'
<1> SUFFICES ASSUME StreamInv, Kill PROVE StreamInv'
  OBVIOUS
<1> USE DEF Kill, StreamInv
<1>1. StreamTypeOK' /\ IdleInv'
  BY NoFrames DEF StreamTypeOK, IdleInv
<1>2. SelectInv'
  BY NoFrames DEF SelectInv, Flow, FlowIsOneRun, FlowAscends, FlowIsWhole, Settled, Precede, Reaches
<1>3. HttpInv' /\ RestInv' /\ ShownInv'
  BY DEF HttpInv, RestInv, ShownInv, Settled, Reaches
<1> QED BY <1>1, <1>2, <1>3

\* A frame moves into the channel, or is dropped: it is not lost from sight.
LEMMA RouteFrameKeeps == StreamInv /\ RouteFrame => StreamInv'
<1> SUFFICES ASSUME StreamInv, RouteFrame PROVE StreamInv'
  OBVIOUS
<1> USE DEF RouteFrame, StreamInv
<1> DEFINE f == Head(socket)
<1>1. /\ f \in Frame /\ Tail(socket) \in Seq(Frame)
      /\ FramesOf(socket) = {f} \cup FramesOf(socket')
      /\ Ascends(socket) => Ascends(socket') /\ Precede({f}, FramesOf(socket'))
  BY OnTail DEF StreamTypeOK
<1>2. CASE ~waiting
  <2>1. stream.pc # "select"
    BY <1>2 DEF SelectInv, FlowIsOneRun
  <2> QED BY <1>1, <1>2, <2>1 DEF StreamTypeOK, IdleInv, SelectInv, HttpInv, RestInv, ShownInv,
                                  Settled, Reaches
<1>3. CASE waiting /\ Len(channel) < ChanSize
  <2>1. channel' = Append(channel, f) /\ lost' = lost /\ stream.pc = "select"
    BY <1>3 DEF RestInv
  <2>2. /\ channel' \in Seq(Frame) /\ Len(channel') = Len(channel) + 1
        /\ FramesOf(channel') = FramesOf(channel) \cup {f}
        /\ Ascends(channel) /\ Precede(FramesOf(channel), {f}) => Ascends(channel')
    BY <1>1, <2>1, OnAppend DEF StreamTypeOK
  <2>3. StreamTypeOK'
    BY <1>1, <1>3, <2>1, <2>2, LenProperties, StreamAssumption DEF StreamTypeOK
  <2>4. FlowIsOneRun /\ FlowAscends /\ FlowIsWhole /\ Flow' = Flow /\ Settled' = Settled
    BY <1>1, <2>1, <2>2 DEF SelectInv, Flow, Settled
  <2>5. FlowIsOneRun'
    BY <2>4 DEF FlowIsOneRun
  <2>6. FlowAscends'
    BY <1>1, <2>2, <2>4 DEF FlowAscends, Precede
  <2>7. FlowIsWhole'
    <3>1. Reaches(f, Settled' \cup FramesOf(channel'))
      <4> SUFFICES ASSUME NEW no \in 1..f.no
                   PROVE  [run |-> f.run, no |-> no] \in Settled' \cup FramesOf(channel')
        BY DEF Reaches
      <4>1. ~killed /\ f.run = 0 /\ f.no <= sent[0] /\ sent[0] \in Nat
        BY <1>1, <2>4 DEF FlowIsWhole, FlowIsOneRun, Flow
      <4>2. [run |-> 0, no |-> no] \in Settled \cup Flow
        BY <4>1, <2>4, <1>1, FrameTyped DEF FlowIsWhole
      <4>3. ASSUME [run |-> 0, no |-> no] \in FramesOf(socket')
            PROVE  FALSE
        BY <4>3, <1>1, <2>4, FrameTyped DEF FlowAscends, Precede
      <4>4. FramesOf(shown) \subseteq Settled
        BY DEF Settled
      <4> QED BY <4>1, <4>2, <4>3, <4>4, <1>1, <2>2, <2>4 DEF Flow
    <3>2. killed' => socket' = <<>>
      BY <2>4 DEF FlowIsWhole
    <3> QED BY <1>1, <2>2, <2>4, <3>1, <3>2 DEF FlowIsWhole, Reaches
  <2> QED BY <2>1, <2>3, <2>4, <2>5, <2>6, <2>7
          DEF IdleInv, SelectInv, HttpInv, RestInv, ShownInv, Reaches
<1>4. CASE waiting /\ ~(Len(channel) < ChanSize)
  <2>1. lost' = lost \cup {f} /\ channel' = channel /\ stream.pc = "select"
    BY <1>4 DEF RestInv
  <2>2. StreamTypeOK'
    BY <1>1, <2>1 DEF StreamTypeOK
  <2>3. FlowIsOneRun /\ FlowAscends /\ FlowIsWhole /\ Settled' = Settled \cup {f}
    BY <2>1 DEF SelectInv, Settled
  <2>4. Flow' \subseteq Flow /\ Flow \subseteq Flow' \cup {f}
    BY <1>1, <2>1 DEF Flow
  <2>5. FlowIsOneRun' /\ FlowAscends'
    BY <1>1, <2>1, <2>3, <2>4 DEF FlowIsOneRun, FlowAscends, Precede
  <2>6. FlowIsWhole'
    BY <2>1, <2>3, <2>4 DEF FlowIsWhole, Reaches
  <2>7. ShownInv'
    BY <2>1, <2>3 DEF ShownInv, Reaches
  <2> QED BY <2>1, <2>2, <2>5, <2>6, <2>7 DEF IdleInv, SelectInv, HttpInv, RestInv
<1> QED BY <1>2, <1>3, <1>4

\* The first frame of the channel is shown: all before it were, or were dropped.
LEMMA ShowFrameKeeps == StreamInv /\ ShowFrame => StreamInv'
<1> SUFFICES ASSUME StreamInv, ShowFrame PROVE StreamInv'
  OBVIOUS
<1> USE DEF ShowFrame, StreamInv
<1> DEFINE f == Head(channel)
<1>1. /\ f \in Frame /\ Tail(channel) \in Seq(Frame)
      /\ Len(Tail(channel)) = Len(channel) - 1
      /\ FramesOf(channel) = {f} \cup FramesOf(channel')
      /\ Ascends(channel) => Ascends(channel') /\ Precede({f}, FramesOf(channel'))
  BY OnTail DEF StreamTypeOK
<1>2. /\ shown' \in Seq(Frame)
      /\ FramesOf(shown') = FramesOf(shown) \cup {f}
      /\ Ascends(shown) /\ Precede(FramesOf(shown), {f}) => Ascends(shown')
  BY <1>1, OnAppend DEF StreamTypeOK
<1>3. StreamTypeOK'
  BY <1>1, <1>2, LenProperties, StreamAssumption DEF StreamTypeOK
<1>4. /\ FlowIsOneRun /\ FlowAscends /\ FlowIsWhole
      /\ Flow' = Flow /\ Settled' = Settled \cup {f}
  BY <1>1, <1>2 DEF SelectInv, Flow, Settled
<1>5. FlowIsOneRun' /\ FlowAscends'
  BY <1>1, <1>2, <1>4 DEF FlowIsOneRun, FlowAscends, Precede
<1>6. FlowIsWhole'
  BY <1>1, <1>4 DEF FlowIsWhole, Reaches
<1>7. Reaches(f, Settled')
  <2> SUFFICES ASSUME NEW no \in 1..f.no PROVE [run |-> f.run, no |-> no] \in Settled'
    BY DEF Reaches
  <2>1. [run |-> f.run, no |-> no] \in Settled \cup FramesOf(channel)
    BY <1>1, <1>4 DEF FlowIsWhole, Reaches
  <2>2. ASSUME [run |-> f.run, no |-> no] \in FramesOf(channel')
        PROVE  FALSE
    BY <1>1, <1>4, <2>2, FrameTyped DEF FlowAscends, Precede
  <2> QED BY <1>1, <1>4, <2>1, <2>2
<1>8. ShownInv'
  <2>1. Ascends(shown') /\ \A g, h \in FramesOf(shown') : g.run = h.run
    BY <1>1, <1>2, <1>4 DEF ShownInv, FlowAscends, FlowIsOneRun, Flow, Precede
  <2>2. \A g \in FramesOf(shown') : Reaches(g, Settled')
    BY <1>2, <1>4, <1>7 DEF ShownInv, Reaches
  <2> QED BY <2>1, <2>2, <1>4 DEF ShownInv
<1> QED BY <1>3, <1>5, <1>6, <1>8 DEF IdleInv, SelectInv, HttpInv, RestInv

\* A step that ends the select leaves nothing of it in the channel.
LEMMA SelectEndKeeps ==
    ASSUME StreamInv, stream.pc = "select", channel' = <<>>, waiting' = FALSE,
           UNCHANGED <<socket, sent, shown, lost, killed>>, stream' \in StreamState({"dial", "done"}),
           stream'.pc = "dial" => stream'.address = 1 /\ stream'.end = "none" /\ shown = <<>>,
           stream'.end = "complete" =>
               \A no \in 1..Frames : [run |-> 0, no |-> no] \in Settled
    PROVE  StreamInv'
<1> USE StreamAssumption DEF StreamInv
<1>1. StreamTypeOK'
  <2>1. stream' \in [pc : {"idle", "select", "dial", "copy", "done"},
                     address : 0..Candidates, end : Ends]
    BY DEF StreamState
  <2>2. channel' \in Seq(Frame) /\ Len(channel') <= ChanSize
    BY NoFrames
  <2> QED BY <2>1, <2>2 DEF StreamTypeOK
<1>2. IdleInv' /\ SelectInv' /\ HttpInv' /\ RestInv'
  BY DEF IdleInv, SelectInv, HttpInv, RestInv, StreamState
<1>3. ShownInv'
  BY DEF ShownInv, Settled, Reaches, Runs
<1> QED BY <1>1, <1>2, <1>3

LEMMA TakeEndKeeps == StreamInv /\ TakeEnd => StreamInv'
<1> SUFFICES ASSUME StreamInv, TakeEnd PROVE StreamInv'
  OBVIOUS
<1> USE DEF TakeEnd, StreamInv
<1> DEFINE f == Head(channel)
<1>1. /\ f \in Frame /\ FramesOf(channel) = {f} \cup FramesOf(Tail(channel))
      /\ Ascends(channel) => Precede({f}, FramesOf(Tail(channel)))
  BY OnTail DEF StreamTypeOK
<1>2. FlowIsOneRun /\ FlowAscends /\ FlowIsWhole
  BY DEF SelectInv
<1>3. ASSUME NEW no \in 1..Frames
      PROVE  [run |-> 0, no |-> no] \in Settled
  <2>1. f.run = 0 /\ f.no > Frames /\ f.no \in Nat
    BY <1>1, <1>2, FrameTyped DEF FlowIsOneRun, Flow
  <2>2. [run |-> 0, no |-> no] \in Settled \cup FramesOf(channel)
    BY <1>1, <1>2, <2>1, StreamAssumption DEF FlowIsWhole, Reaches
  <2>3. [run |-> 0, no |-> no] # f
    BY <2>1, StreamAssumption
  <2>4. ASSUME [run |-> 0, no |-> no] \in FramesOf(Tail(channel))
        PROVE  FALSE
    BY <1>1, <1>2, <2>1, <2>4, StreamAssumption DEF FlowAscends, Precede
  <2> QED BY <1>1, <2>2, <2>3, <2>4
<1>4. stream' \in StreamState({"done"})
  BY StreamEnds DEF Ends
<1> QED BY <1>3, <1>4, SelectEndKeeps DEF StreamState

LEMMA StreamTimeoutKeeps == StreamInv /\ StreamTimeout => StreamInv'
<1> SUFFICES ASSUME StreamInv, StreamTimeout PROVE StreamInv'
  OBVIOUS
<1> USE DEF StreamTimeout, StreamInv
<1>1. CASE shown = <<>>
  <2>1. 1 \in 0..Candidates
    BY StreamAssumption
  <2>2. stream' \in StreamState({"dial"}) /\ stream'.address = 1 /\ stream'.end = "none"
    BY <1>1, <2>1, StreamDials DEF RestInv
  <2> QED BY <1>1, <2>2, SelectEndKeeps DEF StreamState
<1>2. CASE shown # <<>>
  <2>1. stream' \in StreamState({"done"}) /\ stream'.end = "interrupted"
    BY <1>2, StreamEnds DEF Ends
  <2> QED BY <2>1, SelectEndKeeps DEF StreamState
<1> QED BY <1>1, <1>2

LEMMA WriteFailsKeeps == StreamInv /\ WriteFails => StreamInv'
<1> SUFFICES ASSUME StreamInv, WriteFails PROVE StreamInv'
  OBVIOUS
<1> USE DEF WriteFails, StreamInv
<1>1. stream' \in StreamState({"done"}) /\ stream'.end = "error"
  BY StreamEnds DEF Ends
<1> QED BY <1>1, SelectEndKeeps DEF StreamState

LEMMA StartSocketKeeps == StreamInv /\ StartSocket => StreamInv'
<1> SUFFICES ASSUME StreamInv, StartSocket PROVE StreamInv'
  OBVIOUS
<1> USE DEF StartSocket, StreamInv
<1>1. /\ stream' \in StreamState({"select"}) /\ stream'.pc = "select"
      /\ stream'.end = "none"
  BY StreamTurns DEF RestInv
<1>2. sent' \in [Runs -> NotAsked..(Frames + 1)] /\ sent'[0] = 0
  <2>1. 0 \in Runs /\ 0 \in 0..Frames
    BY StreamAssumption DEF Runs
  <2> QED BY <2>1, SentChanges
<1>3. channel = <<>> /\ shown = <<>> /\ socket = <<>> /\ lost = {}
  BY DEF IdleInv, RestInv
<1>4. StreamTypeOK'
  BY <1>1, <1>2 DEF StreamTypeOK, StreamState
<1>5. SelectInv'
  BY <1>2, <1>3, NoFrames
  DEF SelectInv, FlowIsOneRun, FlowAscends, FlowIsWhole, Flow, Precede, Reaches
<1> QED BY <1>1, <1>3, <1>4, <1>5, NoFrames
        DEF IdleInv, HttpInv, RestInv, ShownInv, Settled, Reaches

LEMMA SkipStreamKeeps == StreamInv /\ SkipStream => StreamInv'
<1> SUFFICES ASSUME StreamInv, SkipStream PROVE StreamInv'
  OBVIOUS
<1> USE DEF SkipStream, StreamInv
<1>1. /\ stream' \in StreamState({"dial"}) /\ stream'.pc = "dial"
      /\ stream'.end = "none" /\ stream'.address = 1
  <2>1. 1 \in 0..Candidates /\ stream.end = "none"
    BY StreamAssumption DEF RestInv
  <2> QED BY <2>1, StreamDials
<1>2. StreamTypeOK'
  BY <1>1 DEF StreamTypeOK, StreamState
<1> QED BY <1>1, <1>2, StreamAssumption
        DEF IdleInv, SelectInv, HttpInv, RestInv, ShownInv, Settled, Reaches

LEMMA CandidateFailsKeeps == StreamInv /\ CandidateFails => StreamInv'
<1> SUFFICES ASSUME StreamInv, CandidateFails PROVE StreamInv'
  OBVIOUS
<1> USE DEF CandidateFails, StreamInv
<1>1. CASE stream.address < Candidates
  <2>1. stream.address + 1 \in 1..Candidates /\ stream.end = "none"
    BY <1>1, StreamAssumption DEF HttpInv, RestInv
  <2>2. stream' = [stream EXCEPT !.pc = "dial", !.address = stream.address + 1]
    BY <1>1 DEF StreamTypeOK
  <2>3. /\ stream' \in StreamState({"dial"}) /\ stream'.pc = "dial"
        /\ stream'.end = "none" /\ stream'.address = stream.address + 1
    <3>1. stream.address + 1 \in 0..Candidates
      BY <2>1
    <3> QED BY <2>1, <2>2, <3>1, StreamDials
  <2>4. StreamTypeOK'
    BY <2>3 DEF StreamTypeOK, StreamState
  <2> QED BY <2>1, <2>3, <2>4
          DEF IdleInv, SelectInv, HttpInv, RestInv, ShownInv, Settled, Reaches
<1>2. CASE ~(stream.address < Candidates)
  <2>1. stream' \in StreamState({"done"}) /\ stream'.pc = "done" /\ stream'.end = "error"
    BY <1>2, StreamEnds DEF Ends
  <2>2. StreamTypeOK'
    BY <2>1 DEF StreamTypeOK, StreamState
  <2> QED BY <2>1, <2>2 DEF IdleInv, SelectInv, HttpInv, RestInv, ShownInv, Settled, Reaches
<1> QED BY <1>1, <1>2

LEMMA CandidateAnswersKeeps == StreamInv /\ CandidateAnswers => StreamInv'
<1> SUFFICES ASSUME StreamInv, CandidateAnswers PROVE StreamInv'
  OBVIOUS
<1> USE DEF CandidateAnswers, StreamInv
<1>1. /\ stream' \in StreamState({"copy"}) /\ stream'.pc = "copy"
      /\ stream'.end = "none" /\ stream'.address = stream.address
  BY StreamTurns DEF RestInv
<1>2. /\ stream.address \in 1..Candidates
      /\ sent' \in [Runs -> NotAsked..(Frames + 1)] /\ sent'[stream.address] = 0
  <2>1. stream.address \in 1..Candidates /\ stream.address \in Runs /\ 0 \in 0..Frames
    BY StreamAssumption DEF HttpInv, Runs
  <2> QED BY <2>1, SentChanges
<1>3. StreamTypeOK'
  BY <1>1, <1>2 DEF StreamTypeOK, StreamState
<1> QED BY <1>1, <1>2, <1>3, NoFrames
        DEF IdleInv, SelectInv, HttpInv, RestInv, ShownInv, Settled, Reaches

\* A line of the body is the next one of its run.
LEMMA CopyLineKeeps == StreamInv /\ CopyLine => StreamInv'
<1> SUFFICES ASSUME StreamInv, CopyLine PROVE StreamInv'
  OBVIOUS
<1> USE DEF CopyLine, StreamInv
<1> DEFINE f == [run |-> stream.address, no |-> sent[stream.address] + 1]
<1>1. /\ stream.address \in 1..Candidates /\ sent[stream.address] = Len(shown)
      /\ Len(shown) \in Nat /\ shown \in Seq(Frame)
  BY LenProperties DEF HttpInv, StreamTypeOK
<1>2. f \in Frame
  BY <1>1, StreamAssumption DEF Frame, Runs
<1>3. /\ shown' \in Seq(Frame) /\ Len(shown') = Len(shown) + 1
      /\ \A i \in 1..Len(shown) : shown'[i] = shown[i]
      /\ shown'[Len(shown) + 1] = f
  BY <1>1, <1>2, AppendProperties
<1>4. /\ sent' \in [Runs -> NotAsked..(Frames + 1)]
      /\ sent'[stream.address] = Len(shown')
  BY <1>1, <1>3, StreamAssumption DEF StreamTypeOK, NotAsked, Runs
<1>5. StreamTypeOK'
  BY <1>3, <1>4 DEF StreamTypeOK
<1>6. \A i \in 1..Len(shown') : shown'[i] = [run |-> stream.address, no |-> i]
  BY <1>1, <1>3 DEF HttpInv
<1>7. ASSUME NEW g \in FramesOf(shown')
      PROVE  \E i \in 1..Len(shown') : g = [run |-> stream.address, no |-> i]
  <2>1. PICK i \in 1..Len(shown') : g = shown'[i]
    BY DEF FramesOf
  <2> QED BY <1>6, <2>1
<1>8. ShownInv'
  <2>1. ASSUME NEW i \in 1..Len(shown') PROVE shown'[i].no = i
    <3>1. shown'[i] = [run |-> stream.address, no |-> i]
      BY <1>6
    <3> QED BY <3>1
  <2>2. Ascends(shown')
    BY <2>1 DEF Ascends
  <2>3. \A g \in FramesOf(shown') : g.run = stream.address
    BY <1>7
  <2>4. ASSUME NEW g \in FramesOf(shown') PROVE Reaches(g, FramesOf(shown'))
    <3>1. PICK i \in 1..Len(shown') : g = [run |-> stream.address, no |-> i]
      BY <1>7
    <3>2. ASSUME NEW no \in 1..i PROVE [run |-> stream.address, no |-> no] \in FramesOf(shown')
      BY <1>1, <1>3, <1>6 DEF FramesOf
    <3> QED BY <3>1, <3>2 DEF Reaches
  <2>5. stream'.end # "complete"
    BY DEF RestInv
  <2> QED BY <2>2, <2>3, <2>4, <2>5 DEF ShownInv, Settled, Reaches
<1> QED BY <1>4, <1>5, <1>6, <1>8 DEF IdleInv, SelectInv, HttpInv, RestInv

LEMMA BodyEndsKeeps == StreamInv /\ BodyEnds => StreamInv'
<1> SUFFICES ASSUME StreamInv, BodyEnds PROVE StreamInv'
  OBVIOUS
<1> USE DEF BodyEnds, StreamInv
<1> DEFINE end == IF sent[stream.address] = Frames THEN "complete" ELSE "interrupted"
<1>1. end \in Ends /\ EndStream(end)
  BY DEF Ends
<1>2. /\ stream' \in StreamState({"done"}) /\ stream'.pc = "done"
      /\ stream'.end = end /\ stream'.address = stream.address
  BY <1>1, StreamEnds
<1>3. StreamTypeOK'
  BY <1>2 DEF StreamTypeOK, StreamState
<1>4. ASSUME stream'.end = "complete", NEW no \in 1..Frames
      PROVE  [run |-> stream.address, no |-> no] \in Settled /\ stream.address \in Runs
  <2>1. Len(shown) = Frames /\ stream.address \in Runs
    BY <1>2, <1>4, StreamAssumption DEF HttpInv, Runs
  <2>2. shown[no] = [run |-> stream.address, no |-> no]
    BY <2>1 DEF HttpInv
  <2> QED BY <2>1, <2>2 DEF Settled, FramesOf
<1>5. ShownInv'
  <2>1. shown' = shown /\ Settled' = Settled
    BY DEF Settled
  <2>2. stream'.end = "complete" =>
            \E r \in Runs : \A no \in 1..Frames : [run |-> r, no |-> no] \in Settled
    <3> SUFFICES ASSUME stream'.end = "complete"
                 PROVE  /\ stream.address \in Runs
                        /\ \A no \in 1..Frames : [run |-> stream.address, no |-> no] \in Settled
      OBVIOUS
    <3> QED BY <1>4, StreamAssumption DEF HttpInv, Runs
  <2> QED BY <2>1, <2>2 DEF ShownInv, Reaches
<1> QED BY <1>2, <1>3, <1>5 DEF IdleInv, SelectInv, HttpInv, RestInv

-----------------------------------------------------------------------------

\* The inductive invariant of a streamed command.
THEOREM StreamInvariant == StreamSpec => []StreamInv
<1>1. StreamInit => StreamInv
  BY StreamStarts
<1>2. StreamInv /\ [StreamNext]_streamVars => StreamInv'
  <2> SUFFICES ASSUME StreamInv, [StreamNext]_streamVars PROVE StreamInv'
    OBVIOUS
  <2>1. CASE StreamNext
    BY <2>1, AgentFlushKeeps, KillKeeps, RouteFrameKeeps, ShowFrameKeeps, TakeEndKeeps,
       StreamTimeoutKeeps, WriteFailsKeeps, StartSocketKeeps, SkipStreamKeeps,
       CandidateFailsKeeps, CandidateAnswersKeeps, CopyLineKeeps, BodyEndsKeeps
    DEF StreamNext, SelectStep
  <2>2. CASE UNCHANGED streamVars
    BY <2>2 DEF streamVars, StreamInv, StreamTypeOK, IdleInv, SelectInv, HttpInv, RestInv,
       ShownInv, Settled, Reaches, Flow, FlowIsOneRun, FlowAscends, FlowIsWhole
  <2> QED BY <2>1, <2>2
<1> QED BY <1>1, <1>2, PTL DEF StreamSpec

\* Every variable of the stream keeps its type, whatever the sizes; in
\* particular the channel of a streamed command never holds more than it may.
THEOREM StreamTypeCorrect == StreamSpec => []StreamTypeOK
<1>1. StreamInv => StreamTypeOK
  BY DEF StreamInv
<1> QED BY <1>1, StreamInvariant, PTL

\* For any channel, any number of frames and of addresses: the administrator
\* sees one run, in its order (CallAgentStream, forwardStreamToRemote).
THEOREM OneRunIsShown == StreamSpec => []ShowsOneRunInOrder
<1>1. StreamInv => ShowsOneRunInOrder
  BY ShownIs DEF StreamInv
<1> QED BY <1>1, StreamInvariant, PTL

\* ... and what is missing of it was dropped by a full channel.
THEOREM GapsAreDrops == StreamSpec => []GapsWereDropped
<1>1. StreamInv => GapsWereDropped
  BY ShownIs DEF StreamInv
<1> QED BY <1>1, StreamInvariant, PTL

-----------------------------------------------------------------------------
(* Commands under a share *)


Outcomes == {"none", "ok", "denied", "refused", "unreadable", "failed", "looksInvalid"}
Stages   == {"idle", "sent", "opened", "forward", "track", "answered", "done"}

CommandRecord == [pc : Stages, share : Shares \cup {"none"}, action : Actions,
                  tag : Tags \cup {"none"}, kind : {"kx", "sealed"},
                  key : 0..MaxSessions, result : Outcomes]

\* A command that is under way is of a share and a tag.
Addressed(r) == r.pc \notin {"idle", "done"} => r.share \in Shares /\ r.tag \in Tags

CommandsOK == /\ command \in [Commands -> CommandRecord]
              /\ \A c \in Commands : Addressed(command[c])

TablesOK ==
    /\ share \in [Shares -> [revoked : BOOLEAN, key : 0..MaxSessions]]
    /\ consumer \in [Shares -> 0..MaxSessions] /\ sessions \in [Shares -> 0..MaxSessions]
    /\ records \subseteq Shares \X Tags /\ inbounds \subseteq Shares \X Tags
    /\ missed \subseteq Shares \X Tags
    /\ revocation \in [Shares -> [pc : {"idle", "deleting", "cleared", "done"},
                                  todo : SUBSET Tags]]
    /\ ran \in [Commands -> Nat] /\ useless \in [Commands -> Nat]

-----------------------------------------------------------------------------
(* How the commands move *)

\* One command moves to the record r, the others stay.
LEMMA CommandMoves ==
    ASSUME CommandsOK, NEW c \in Commands, NEW r \in CommandRecord, Addressed(r),
           command' = [command EXCEPT ![c] = r]
    PROVE  /\ CommandsOK'
           /\ command'[c] = r
           /\ \A d \in Commands : d # c => command'[d] = command[d]
<1>1. /\ command'[c] = r
      /\ \A d \in Commands : d # c => command'[d] = command[d]
      /\ command' \in [Commands -> CommandRecord]
  BY DEF CommandsOK
<1>2. \A d \in Commands : Addressed(command'[d])
  BY <1>1 DEF CommandsOK
<1> QED BY <1>1, <1>2 DEF CommandsOK, Addressed

\* It moves to another stage, and keeps the rest.
LEMMA CommandGoes ==
    ASSUME CommandsOK, NEW c \in Commands, command[c].pc \notin {"idle", "done"},
           NEW pc \in Stages, Goes(c, pc)
    PROVE  /\ CommandsOK'
           /\ command'[c] = [command[c] EXCEPT !.pc = pc]
           /\ \A d \in Commands : d # c => command'[d] = command[d]
<1> DEFINE r == [command[c] EXCEPT !.pc = pc]
<1>1. command[c] \in CommandRecord /\ Addressed(command[c])
  BY DEF CommandsOK
<1>2. r \in CommandRecord /\ Addressed(r)
  BY <1>1 DEF CommandRecord, Addressed
<1>3. command' = [command EXCEPT ![c] = r]
  BY DEF Goes
<1> HIDE DEF r
<1>4. /\ CommandsOK'
      /\ command'[c] = r
      /\ \A d \in Commands : d # c => command'[d] = command[d]
  BY <1>2, <1>3, CommandMoves
<1> QED BY <1>4 DEF r

\* It is answered.
LEMMA CommandAnswered ==
    ASSUME CommandsOK, NEW c \in Commands, command[c].pc \notin {"idle", "done"},
           NEW result \in Outcomes, Answers(c, result)
    PROVE  /\ CommandsOK'
           /\ command'[c] = [command[c] EXCEPT !.pc = "answered", !.result = result]
           /\ \A d \in Commands : d # c => command'[d] = command[d]
<1> DEFINE r == [command[c] EXCEPT !.pc = "answered", !.result = result]
<1>1. command[c] \in CommandRecord /\ Addressed(command[c])
  BY DEF CommandsOK
<1>2. r \in CommandRecord /\ Addressed(r)
  BY <1>1 DEF CommandRecord, Addressed, Stages
<1>3. command' = [command EXCEPT ![c] = r]
  BY DEF Answers
<1> HIDE DEF r
<1>4. /\ CommandsOK'
      /\ command'[c] = r
      /\ \A d \in Commands : d # c => command'[d] = command[d]
  BY <1>2, <1>3, CommandMoves
<1> QED BY <1>4 DEF r

\* The stages a command may go to and the answers it may get are such.
LEMMA StagesAndOutcomes ==
    /\ {"done", "forward", "opened", "track", "sent", "answered"} \subseteq Stages
    /\ {"ok", "denied", "refused", "unreadable", "failed", "looksInvalid", "none"}
          \subseteq Outcomes
  BY DEF Stages, Outcomes

\* Its caller has the answer: only that it is done is left of it.
LEMMA CommandReturns ==
    ASSUME CommandsOK, NEW c \in Commands, command[c].pc # "idle", Returns(c)
    PROVE  /\ CommandsOK'
           /\ command'[c].pc = "done"
           /\ \A d \in Commands : d # c => command'[d] = command[d]
<1> DEFINE r == [NewCommand EXCEPT !.pc = "done"]
<1>1. r \in CommandRecord
  BY FederationAssumption DEF NewCommand, NoSession, CommandRecord, Stages, Outcomes,
                              Actions
<1>2. Addressed(r)
  BY DEF Addressed, NewCommand
<1>3. command' = [command EXCEPT ![c] = r] /\ r.pc = "done"
  BY DEF Returns, NewCommand
<1> HIDE DEF r
<1> QED BY <1>1, <1>2, <1>3, CommandMoves

\* Each step keeps the types of the commands.
LEMMA CommandsStep ==
    ASSUME CommandsOK, TablesOK, [FedNext]_fedVars PROVE CommandsOK'
<1> USE StagesAndOutcomes
<1>1. ASSUME NEW c \in Commands, NEW s \in Shares, NEW a \in Actions, NEW t \in Tags,
             Send(c, s, a, t)
      PROVE CommandsOK'
  <2> DEFINE r == [NewCommand EXCEPT !.pc = "sent", !.share = s, !.action = a,
                      !.tag = t, !.key = consumer[s],
                      !.kind = IF consumer[s] = NoSession THEN "kx" ELSE "sealed"]
  <2>1. consumer[s] \in 0..MaxSessions
    BY DEF TablesOK
  <2>2. r \in CommandRecord /\ Addressed(r)
    BY <2>1 DEF NewCommand, CommandRecord, Addressed, Stages, Outcomes
  <2>3. command' = [command EXCEPT ![c] = r]
    BY <1>1 DEF Send
  <2> HIDE DEF r
  <2> QED BY <2>2, <2>3, CommandMoves
<1>2. ASSUME NEW c \in Commands, TakeSuccess(c) PROVE CommandsOK'
  BY <1>2, CommandReturns DEF TakeSuccess
<1>3. ASSUME NEW c \in Commands, ResendWithKeyExchange(c) PROVE CommandsOK'
  <2> DEFINE r == [command[c] EXCEPT !.pc = "sent", !.kind = "kx",
                                     !.key = NoSession, !.result = "none"]
  <2>1. command[c] \in CommandRecord /\ Addressed(command[c]) /\ command[c].pc = "answered"
    BY <1>3 DEF CommandsOK, ResendWithKeyExchange
  <2>2. NoSession \in 0..MaxSessions
    BY FederationAssumption DEF NoSession
  <2>3. r \in CommandRecord /\ Addressed(r)
    BY <2>1, <2>2 DEF CommandRecord, Addressed
  <2>4. command' = [command EXCEPT ![c] = r]
    BY <1>3 DEF ResendWithKeyExchange
  <2> HIDE DEF r
  <2> QED BY <2>3, <2>4, CommandMoves
<1>4. ASSUME NEW c \in Commands, TakeError(c) PROVE CommandsOK'
  BY <1>4, CommandReturns DEF TakeError
<1>5. ASSUME NEW c \in Commands, Unauthorized(c) PROVE CommandsOK'
  BY <1>5, CommandAnswered DEF Unauthorized
<1>6. ASSUME NEW c \in Commands, Negotiate(c) PROVE CommandsOK'
  <2> DEFINE n == sessions[command[c].share] + 1
             r == [command[c] EXCEPT !.pc = "opened", !.key = n]
  <2>1. command[c] \in CommandRecord /\ Addressed(command[c]) /\ command[c].pc = "sent"
    BY <1>6 DEF CommandsOK, Negotiate
  <2>2. n \in 0..MaxSessions
    BY <1>6, <2>1, FederationAssumption DEF TablesOK, Negotiate, Addressed
  <2>3. command' = [command EXCEPT ![c] = r]
    BY <1>6 DEF Negotiate
  <2> HIDE DEF n
  <2>4. r \in CommandRecord /\ Addressed(r)
    BY <2>1, <2>2 DEF CommandRecord, Addressed, Stages
  <2> HIDE DEF r
  <2> QED BY <2>3, <2>4, CommandMoves
<1>7. ASSUME NEW c \in Commands, OpenPayload(c) PROVE CommandsOK'
  BY <1>7, CommandGoes, CommandAnswered DEF OpenPayload
<1>8. ASSUME NEW c \in Commands, CheckScope(c) PROVE CommandsOK'
  BY <1>8, CommandGoes, CommandAnswered DEF CheckScope
<1>9. ASSUME NEW c \in Commands, Forward(c) PROVE CommandsOK'
  BY <1>9, CommandGoes DEF Forward
<1>10. ASSUME NEW c \in Commands, NEW r \in {"failed", "looksInvalid"}, ForwardFails(c, r)
       PROVE CommandsOK'
  BY <1>10, CommandAnswered DEF ForwardFails
<1>11. ASSUME NEW c \in Commands, Track(c) \/ TrackFails(c) PROVE CommandsOK'
  BY <1>11, CommandAnswered DEF Track, TrackFails
<1>12. ASSUME UNCHANGED command PROVE CommandsOK'
  BY <1>12 DEF CommandsOK, Addressed
<1>13. CASE \E s \in Shares : \/ OwnerForgets(s) \/ StartRevoke(s) \/ ClearRecords(s)
                              \/ Revoke(s) \/ \E t \in Tags : RevokeOne(s, t)
  BY <1>12, <1>13 DEF OwnerForgets, StartRevoke, ClearRecords, Revoke, RevokeOne
<1>14. CASE UNCHANGED fedVars
  BY <1>12, <1>14 DEF fedVars
<1> QED
  BY <1>1, <1>2, <1>3, <1>4, <1>5, <1>6, <1>7, <1>8, <1>9, <1>10, <1>11, <1>13, <1>14
     DEF FedNext, CommandStep

\* Each step keeps the types of the tables.
LEMMA TablesStep ==
    ASSUME CommandsOK, TablesOK, [FedNext]_fedVars PROVE TablesOK'
<1> USE FederationAssumption DEF TablesOK
<1>0. ASSUME NEW c \in Commands, command[c].pc \notin {"idle", "done"}
      PROVE  /\ command[c].share \in Shares /\ command[c].key \in 0..MaxSessions
             /\ Own(c) \in Shares \X Tags
  BY <1>0 DEF CommandsOK, Addressed, CommandRecord, Own
<1>1. ASSUME NEW c \in Commands, NEW s \in Shares, NEW a \in Actions, NEW t \in Tags,
             Send(c, s, a, t)
      PROVE TablesOK'
  BY <1>1 DEF Send
<1>2. ASSUME NEW c \in Commands, TakeSuccess(c) PROVE TablesOK'
  <2>1. command[c].pc \notin {"idle", "done"}
    BY <1>2 DEF TakeSuccess
  <2> HIDE DEF TablesOK
  <2>2. command[c].share \in Shares /\ command[c].key \in 0..MaxSessions
    BY <1>0, <2>1
  <2>3. consumer' \in [Shares -> 0..MaxSessions]
    BY <1>2, <2>2 DEF TakeSuccess, TablesOK
  <2> QED BY <1>2, <2>3 DEF TakeSuccess, TablesOK
<1>3. ASSUME NEW c \in Commands, ResendWithKeyExchange(c) PROVE TablesOK'
  <2>1. consumer \in [Shares -> 0..MaxSessions] /\ NoSession \in 0..MaxSessions
    BY DEF NoSession
  <2>2. consumer' = [consumer EXCEPT ![command[c].share] = NoSession]
    BY <1>3 DEF ResendWithKeyExchange
  <2>3. consumer' \in [Shares -> 0..MaxSessions]
    <3> HIDE DEF TablesOK
    <3> QED BY <2>1, <2>2
  <2>4. useless' \in [Commands -> Nat]
    BY <1>3 DEF ResendWithKeyExchange
  <2> QED BY <1>3, <2>3, <2>4 DEF ResendWithKeyExchange
<1>4. ASSUME NEW c \in Commands, TakeError(c) \/ Unauthorized(c) \/ OpenPayload(c)
                                 \/ CheckScope(c)
      PROVE TablesOK'
  BY <1>4 DEF TakeError, Unauthorized, OpenPayload, CheckScope
<1>5. ASSUME NEW c \in Commands, Negotiate(c) PROVE TablesOK'
  <2>1. command[c].share \in Shares
    BY <1>0, <1>5 DEF Negotiate
  <2>2. sessions[command[c].share] + 1 \in 0..MaxSessions
    BY <1>5, <2>1 DEF Negotiate
  <2>3. /\ sessions' \in [Shares -> 0..MaxSessions]
        /\ share' \in [Shares -> [revoked : BOOLEAN, key : 0..MaxSessions]]
    BY <1>5, <2>1, <2>2 DEF Negotiate
  <2> QED BY <1>5, <2>3 DEF Negotiate
<1>6. ASSUME NEW c \in Commands, Forward(c) PROVE TablesOK'
  BY <1>0, <1>6 DEF Forward, Applied
<1>7. ASSUME NEW c \in Commands, NEW r \in {"failed", "looksInvalid"}, ForwardFails(c, r)
      PROVE TablesOK'
  BY <1>0, <1>7 DEF ForwardFails, Applied
<1>8. ASSUME NEW c \in Commands, Track(c) PROVE TablesOK'
  BY <1>0, <1>8 DEF Track
<1>15. ASSUME NEW c \in Commands, TrackFails(c) PROVE TablesOK'
  BY <1>0, <1>15 DEF TrackFails
<1>9. ASSUME NEW s \in Shares, OwnerForgets(s) PROVE TablesOK'
  BY <1>9 DEF OwnerForgets, NoSession
<1>10. ASSUME NEW s \in Shares, StartRevoke(s) PROVE TablesOK'
  BY <1>10 DEF StartRevoke
<1>11. ASSUME NEW s \in Shares, ClearRecords(s) PROVE TablesOK'
  BY <1>11 DEF ClearRecords
<1>12. ASSUME NEW s \in Shares, Revoke(s) PROVE TablesOK'
  BY <1>12 DEF Revoke
<1>13. ASSUME NEW s \in Shares, NEW t \in Tags, RevokeOne(s, t) PROVE TablesOK'
  BY <1>13 DEF RevokeOne
<1>14. CASE UNCHANGED fedVars
  BY <1>14 DEF fedVars
<1> QED
  BY <1>1, <1>2, <1>3, <1>4, <1>5, <1>6, <1>7, <1>8, <1>9, <1>10, <1>11, <1>12,
     <1>13, <1>14, <1>15 DEF FedNext, CommandStep

\* The types hold at the start.
LEMMA TypesInitially == FedInit => CommandsOK /\ TablesOK
<1> SUFFICES ASSUME FedInit PROVE CommandsOK /\ TablesOK
  OBVIOUS
<1>1. NewCommand \in CommandRecord /\ Addressed(NewCommand)
  BY FederationAssumption
     DEF NewCommand, CommandRecord, Addressed, Stages, Outcomes, Actions, NoSession
<1>2. CommandsOK
  BY <1>1 DEF FedInit, CommandsOK
<1>3. TablesOK
  BY FederationAssumption DEF FedInit, TablesOK, NoSession
<1> QED BY <1>2, <1>3

TypesOK == CommandsOK /\ TablesOK

\* Every variable of the federation keeps its type.
THEOREM FedTypeCorrect == FedSpec => []TypesOK
<1>1. FedInit => TypesOK
  BY TypesInitially DEF TypesOK
<1>2. TypesOK /\ [FedNext]_fedVars => TypesOK'
  BY CommandsStep, TablesStep DEF TypesOK
<1> QED BY <1>1, <1>2, PTL DEF FedSpec

-----------------------------------------------------------------------------
(* How often a command is run *)

\* A command whose answer is a refusal, or that has not reached the agent yet,
\* has not been run since its last useless answer.
AccountOf(c) ==
    /\ ran[c] <= useless[c] + 1
    /\ command[c].pc \in {"idle", "sent", "opened", "forward"} => ran[c] <= useless[c]
    /\ command[c].pc = "answered" /\ command[c].result = "refused" => ran[c] <= useless[c]

SharedAccountInv == \A c \in Commands : AccountOf(c)

\* What keeps the account of a command that does not move.
LEMMA AccountUntouched ==
    ASSUME NEW d \in Commands, AccountOf(d), command'[d] = command[d],
           ran'[d] = ran[d], useless'[d] = useless[d]
    PROVE  AccountOf(d)'
  BY DEF AccountOf

\* Each step keeps the account of every command.
LEMMA AccountStep ==
    ASSUME TypesOK, SharedAccountInv, [FedNext]_fedVars PROVE SharedAccountInv'
<1> USE StagesAndOutcomes DEF TypesOK
<1> DEFINE Others(c) == \A d \in Commands \ {c} : /\ command'[d] = command[d]
                                                  /\ ran'[d] = ran[d]
                                                  /\ useless'[d] = useless[d]
<1>0. ASSUME NEW c \in Commands, Others(c), AccountOf(c)' PROVE SharedAccountInv'
  BY <1>0, AccountUntouched DEF SharedAccountInv
<1> HIDE DEF Others
<1>1. \A c \in Commands : /\ AccountOf(c) /\ ran[c] \in Nat /\ useless[c] \in Nat
                          /\ command[c] \in CommandRecord
  BY DEF SharedAccountInv, TablesOK, CommandsOK
<1>2. ASSUME NEW c \in Commands, NEW s \in Shares, NEW a \in Actions, NEW t \in Tags,
             Send(c, s, a, t)
      PROVE SharedAccountInv'
  <2>1. /\ ran'[c] = 0 /\ useless'[c] = 0
        /\ command'[c].pc = "sent"
    BY <1>2 DEF Send, TablesOK, CommandsOK, NewCommand
  <2>2. Others(c)
    BY <1>2 DEF Send, TablesOK, CommandsOK, Others
  <2>3. AccountOf(c)'
    BY <2>1 DEF AccountOf
  <2> QED BY <2>2, <2>3, <1>0
<1>3. ASSUME NEW c \in Commands, TakeSuccess(c) PROVE SharedAccountInv'
  <2>1. UNCHANGED <<ran, useless>> /\ Returns(c) /\ command[c].pc # "idle"
    BY <1>3 DEF TakeSuccess
  <2>2. command'[c].pc = "done" /\ Others(c)
    BY <2>1, CommandReturns DEF Others
  <2>3. AccountOf(c)'
    BY <1>1, <2>1, <2>2 DEF AccountOf, CommandRecord
  <2> QED BY <2>2, <2>3, <1>0
<1>4. ASSUME NEW c \in Commands, TakeError(c) PROVE SharedAccountInv'
  <2>1. UNCHANGED <<ran, useless>> /\ Returns(c) /\ command[c].pc # "idle"
    BY <1>4 DEF TakeError
  <2>2. command'[c].pc = "done" /\ Others(c)
    BY <2>1, CommandReturns DEF Others
  <2>3. AccountOf(c)'
    BY <1>1, <2>1, <2>2 DEF AccountOf, CommandRecord
  <2> QED BY <2>2, <2>3, <1>0
<1>5. ASSUME NEW c \in Commands, ResendWithKeyExchange(c) PROVE SharedAccountInv'
  <2>1. command'[c].pc = "sent" /\ ran'[c] = ran[c]
    BY <1>5 DEF ResendWithKeyExchange, CommandsOK, CommandRecord
  <2>2. Others(c)
    BY <1>5 DEF ResendWithKeyExchange, CommandsOK, TablesOK, Others
  <2>3. ran[c] <= useless'[c]
    BY <1>1, <1>5 DEF ResendWithKeyExchange, AccountOf, TablesOK
  <2>4. useless'[c] \in Nat
    BY <1>1, <1>5 DEF ResendWithKeyExchange, TablesOK
  <2>5. AccountOf(c)'
    BY <1>1, <2>1, <2>3, <2>4 DEF AccountOf
  <2> QED BY <2>2, <2>5, <1>0
<1>6. ASSUME NEW c \in Commands, UNCHANGED <<ran, useless>>,
             command[c].pc \in {"sent", "opened", "forward"},
             NEW result \in Outcomes, Answers(c, result)
      PROVE SharedAccountInv'
  <2>1. /\ command'[c] = [command[c] EXCEPT !.pc = "answered", !.result = result]
        /\ Others(c)
    BY <1>6, CommandAnswered DEF Others
  <2>2. AccountOf(c)'
    BY <1>1, <1>6, <2>1 DEF AccountOf, CommandRecord
  <2> QED BY <2>1, <2>2, <1>0
<1>7. ASSUME NEW c \in Commands, UNCHANGED <<ran, useless>>,
             command[c].pc \in {"sent", "opened", "forward"},
             NEW pc \in {"opened", "forward"}, Goes(c, pc)
      PROVE SharedAccountInv'
  <2>1. command'[c] = [command[c] EXCEPT !.pc = pc] /\ Others(c)
    BY <1>7, CommandGoes DEF Others
  <2>2. AccountOf(c)'
    BY <1>1, <1>7, <2>1 DEF AccountOf, CommandRecord
  <2> QED BY <2>1, <2>2, <1>0
<1>8. ASSUME NEW c \in Commands, Unauthorized(c) \/ OpenPayload(c) \/ CheckScope(c)
      PROVE SharedAccountInv'
  BY <1>6, <1>7, <1>8 DEF Unauthorized, OpenPayload, CheckScope
<1>9. ASSUME NEW c \in Commands, Negotiate(c) PROVE SharedAccountInv'
  <2>1. /\ command'[c].pc = "opened" /\ UNCHANGED <<ran, useless>>
        /\ command[c].pc = "sent" /\ Others(c)
    BY <1>9 DEF Negotiate, CommandsOK, CommandRecord, Others
  <2>2. AccountOf(c)'
    BY <1>1, <2>1 DEF AccountOf
  <2> QED BY <2>1, <2>2, <1>0
<1>10. ASSUME NEW c \in Commands, Forward(c) PROVE SharedAccountInv'
  <2>1. /\ Goes(c, "track") /\ command[c].pc = "forward"
        /\ ran' = [ran EXCEPT ![c] = @ + 1] /\ useless' = useless
    BY <1>10 DEF Forward
  <2>2. /\ command'[c] = [command[c] EXCEPT !.pc = "track"]
        /\ \A d \in Commands : d # c => command'[d] = command[d]
    BY <2>1, CommandGoes
  <2>3. ran'[c] = ran[c] + 1 /\ Others(c)
    BY <2>1, <2>2 DEF TablesOK, Others
  <2>4. AccountOf(c)'
    BY <1>1, <2>1, <2>2, <2>3 DEF AccountOf, CommandRecord
  <2> QED BY <2>3, <2>4, <1>0
<1>11. ASSUME NEW c \in Commands, NEW r \in {"failed", "looksInvalid"}, ForwardFails(c, r)
       PROVE SharedAccountInv'
  <2>1. /\ Answers(c, r) /\ command[c].pc = "forward" /\ useless' = useless
        /\ ran' = ran \/ ran' = [ran EXCEPT ![c] = @ + 1]
    BY <1>11 DEF ForwardFails
  <2>2. /\ command'[c] = [command[c] EXCEPT !.pc = "answered", !.result = r]
        /\ \A d \in Commands : d # c => command'[d] = command[d]
    BY <2>1, CommandAnswered
  <2>3. ran'[c] \in {ran[c], ran[c] + 1} /\ Others(c)
    BY <2>1, <2>2 DEF TablesOK, Others
  <2>4. command'[c].pc = "answered" /\ command'[c].result # "refused"
    BY <1>1, <2>2 DEF CommandRecord
  <2>5. AccountOf(c)'
    BY <1>1, <2>1, <2>3, <2>4 DEF AccountOf
  <2> QED BY <2>3, <2>5, <1>0
<1>12. ASSUME NEW c \in Commands, Track(c) \/ TrackFails(c) PROVE SharedAccountInv'
  <2>1. PICK r \in {"ok", "unreadable", "failed"} :
           Answers(c, r) /\ command[c].pc = "track" /\ UNCHANGED <<ran, useless>>
    BY <1>12 DEF Track, TrackFails
  <2>2. /\ command'[c] = [command[c] EXCEPT !.pc = "answered", !.result = r]
        /\ Others(c)
    BY <2>1, CommandAnswered DEF Others
  <2>3. command'[c].pc = "answered" /\ command'[c].result # "refused"
    BY <1>1, <2>1, <2>2 DEF CommandRecord
  <2>4. AccountOf(c)'
    BY <1>1, <2>1, <2>3 DEF AccountOf
  <2> QED BY <2>2, <2>4, <1>0
<1>13. ASSUME UNCHANGED <<command, ran, useless>> PROVE SharedAccountInv'
  BY <1>13 DEF SharedAccountInv, AccountOf
<1>14. CASE \E s \in Shares : \/ OwnerForgets(s) \/ StartRevoke(s) \/ ClearRecords(s)
                              \/ Revoke(s) \/ \E t \in Tags : RevokeOne(s, t)
  BY <1>13, <1>14 DEF OwnerForgets, StartRevoke, ClearRecords, Revoke, RevokeOne
<1>15. CASE UNCHANGED fedVars
  BY <1>13, <1>15 DEF fedVars
<1> QED
  BY <1>2, <1>3, <1>4, <1>5, <1>8, <1>9, <1>10, <1>11, <1>12, <1>14, <1>15
     DEF FedNext, CommandStep

\* However commands, sessions and failures meet, a consumer makes the agent
\* run a command again only after an answer it could not use.
THEOREM SharedRunsAccounted == FedSpec => []SharedRunsAccountedFor
<1>1. FedInit => SharedAccountInv
  BY DEF FedInit, SharedAccountInv, AccountOf, NewCommand
<1>2. TypesOK /\ SharedAccountInv /\ [FedNext]_fedVars => SharedAccountInv'
  BY AccountStep
<1>3. TypesOK /\ SharedAccountInv => SharedRunsAccountedFor
  BY DEF TypesOK, TablesOK, SharedAccountInv, AccountOf, SharedRunsAccountedFor
<1> QED BY <1>1, <1>2, <1>3, FedTypeCorrect, PTL DEF FedSpec

-----------------------------------------------------------------------------
(* What a revoked share leaves behind *)

\* An add that the agent has run and that is still to be recorded.
Tracked(i) == \E c \in Commands : /\ command[c].pc = "track" /\ command[c].action = "add"
                                  /\ Own(c) = i

\* Why the owner has not lost sight of an inbound, or may have.
Known(i) ==
    \/ i \in missed
    \/ Tracked(i)
    \/ revocation[i[1]].pc = "idle" /\ i \in records
    \/ revocation[i[1]].pc = "deleting" /\ i[2] \in revocation[i[1]].todo

LeftInv ==
    /\ \A i \in inbounds : Known(i)
    /\ \A s \in Shares : share[s].revoked => revocation[s].pc = "done"

\* A step after which no share is revoked that was not, that leaves
\* revocations and records alone, forgets nothing missed and takes no add out
\* of the hands of Track: only new inbounds need a reason.
LEMMA LeftUntouched ==
    ASSUME TypesOK, LeftInv, UNCHANGED <<revocation, records>>, missed \subseteq missed',
           \A s \in Shares : share'[s].revoked => share[s].revoked,
           \A i : Tracked(i) => Tracked(i)',
           \A i \in inbounds' \ inbounds : Known(i)'
    PROVE  LeftInv'
<1>1. \A i \in inbounds : Known(i)'
  BY DEF LeftInv, Known
<1> QED BY <1>1 DEF LeftInv

\* An add stays in the hands of Track when no command leaves it.
LEMMA TrackedStays ==
    ASSUME NEW c \in Commands, command[c].pc # "track",
           \A d \in Commands : d # c => command'[d] = command[d]
    PROVE  \A i : Tracked(i) => Tracked(i)'
<1> SUFFICES ASSUME NEW i, NEW d \in Commands, command[d].pc = "track",
                    command[d].action = "add", Own(d) = i
             PROVE  Tracked(i)'
  BY DEF Tracked
<1>1. command'[d] = command[d]
  OBVIOUS
<1> QED BY <1>1 DEF Tracked, Own

\* Each step keeps the reasons.
LEMMA LeftStep == ASSUME TypesOK, LeftInv, [FedNext]_fedVars PROVE LeftInv'
<1> USE StagesAndOutcomes DEF TypesOK
<1>1. ASSUME NEW c \in Commands, command[c].pc # "track",
             UNCHANGED <<share, revocation, records, missed, inbounds>>,
             \A d \in Commands : d # c => command'[d] = command[d]
      PROVE LeftInv'
  BY <1>1, TrackedStays, LeftUntouched
<1>2. ASSUME NEW c \in Commands, NEW s \in Shares, NEW a \in Actions, NEW t \in Tags,
             Send(c, s, a, t)
      PROVE LeftInv'
  <2>1. \A d \in Commands : d # c => command'[d] = command[d]
    BY <1>2 DEF Send, CommandsOK
  <2> QED BY <1>1, <1>2, <2>1 DEF Send
<1>3. ASSUME NEW c \in Commands,
             \/ TakeSuccess(c) \/ TakeError(c) \/ Unauthorized(c) \/ OpenPayload(c)
             \/ CheckScope(c) \/ ResendWithKeyExchange(c)
      PROVE LeftInv'
  <2>1. \A d \in Commands : d # c => command'[d] = command[d]
    BY <1>3 DEF TakeSuccess, TakeError, Unauthorized, OpenPayload, CheckScope,
                ResendWithKeyExchange, Goes, Answers, Returns, CommandsOK
  <2> QED BY <1>1, <1>3, <2>1
          DEF TakeSuccess, TakeError, Unauthorized, OpenPayload, CheckScope,
              ResendWithKeyExchange
<1>4. ASSUME NEW c \in Commands, Negotiate(c) PROVE LeftInv'
  <2>1. \A d \in Commands : d # c => command'[d] = command[d]
    BY <1>4 DEF Negotiate, CommandsOK
  <2>2. \A s \in Shares : share'[s].revoked => share[s].revoked
    BY <1>4 DEF Negotiate, TablesOK
  <2> QED BY <1>4, <2>1, <2>2, TrackedStays, LeftUntouched DEF Negotiate
<1>5. ASSUME NEW c \in Commands, Forward(c) PROVE LeftInv'
  <2>1. /\ command[c].pc = "forward" /\ Goes(c, "track") /\ inbounds' = Applied(c)
        /\ UNCHANGED <<share, revocation, records, missed>>
    BY <1>5 DEF Forward
  <2>2. /\ command'[c] = [command[c] EXCEPT !.pc = "track"]
        /\ \A d \in Commands : d # c => command'[d] = command[d]
    BY <2>1, CommandGoes
  <2>3. command'[c].pc = "track" /\ command'[c].action = command[c].action /\ Own(c)' = Own(c)
    BY <2>2 DEF CommandsOK, CommandRecord, Own
  <2>4. \A i \in inbounds' \ inbounds : i = Own(c) /\ command[c].action = "add"
    BY <2>1 DEF Applied
  <2>5. \A i \in inbounds' \ inbounds : Known(i)'
    BY <2>3, <2>4 DEF Known, Tracked
  <2> QED BY <2>1, <2>2, <2>5, TrackedStays, LeftUntouched
<1>6. ASSUME NEW c \in Commands, NEW r \in {"failed", "looksInvalid"}, ForwardFails(c, r)
      PROVE LeftInv'
  <2>1. /\ command[c].pc = "forward" /\ Answers(c, r)
        /\ UNCHANGED <<share, revocation, records>>
        /\ \/ UNCHANGED <<inbounds, missed>>
           \/ inbounds' = Applied(c) /\ missed' = missed \cup {Own(c)}
    BY <1>6 DEF ForwardFails
  <2>2. \A d \in Commands : d # c => command'[d] = command[d]
    BY <2>1 DEF Answers, CommandsOK
  <2>3. \A i \in inbounds' \ inbounds : i \in missed'
    BY <2>1 DEF Applied
  <2>4. \A i \in inbounds' \ inbounds : Known(i)'
    BY <2>3 DEF Known
  <2> QED BY <2>1, <2>2, <2>4, TrackedStays, LeftUntouched
<1>7. ASSUME NEW c \in Commands, Track(c) PROVE LeftInv'
  <2>1. /\ command[c].pc = "track" /\ UNCHANGED <<share, inbounds, revocation>>
        /\ missed \subseteq missed' /\ \E r \in {"ok", "unreadable"} : Answers(c, r)
    BY <1>7 DEF Track
  <2>2. \A d \in Commands : d # c => command'[d] = command[d]
    BY <2>1 DEF Answers, CommandsOK
  <2>3. command[c].share \in Shares /\ Own(c)[1] = command[c].share
    BY <2>1 DEF CommandsOK, Addressed, Own
  <2>4. SUFFICES ASSUME NEW i \in inbounds PROVE Known(i)'
    BY <2>1 DEF LeftInv
  <2>5. CASE i = Own(c)
    <3>1. CASE command[c].action = "add" /\ revocation[command[c].share].pc = "idle"
      <4>1. ~share[command[c].share].revoked
        BY <2>3, <3>1 DEF LeftInv
      <4>2. i \in records'
        BY <1>7, <2>5, <3>1, <4>1 DEF Track
      <4> QED BY <2>1, <2>3, <2>5, <3>1, <4>2 DEF Known
    <3>2. CASE \/ command[c].action = "add" /\ revocation[command[c].share].pc # "idle"
               \/ command[c].action = "remove"
      <4>1. i \in missed'
        BY <1>7, <2>5, <3>2 DEF Track
      <4> QED BY <4>1 DEF Known
    <3>3. CASE command[c].action \notin {"add", "remove"}
      <4>1. Tracked(i) => Tracked(i)'
        BY <2>2, <3>3 DEF Tracked, Own
      <4>2. records' = records
        BY <1>7, <3>3 DEF Track
      <4> QED BY <2>1, <4>1, <4>2 DEF LeftInv, Known
    <3> QED BY <3>1, <3>2, <3>3
  <2>6. CASE i # Own(c)
    <3>1. Tracked(i) => Tracked(i)'
      BY <2>2, <2>6 DEF Tracked, Own
    <3>2. i \in records => i \in records'
      BY <1>7, <2>6 DEF Track
    <3> QED BY <2>1, <3>1, <3>2 DEF LeftInv, Known
  <2> QED BY <2>5, <2>6
<1>14. ASSUME NEW c \in Commands, TrackFails(c) PROVE LeftInv'
  <2>1. /\ command[c].action \in {"add", "remove"} /\ missed \subseteq missed'
        /\ command[c].action = "add" => Own(c) \in missed'
        /\ UNCHANGED <<share, inbounds, revocation, records>>
        /\ \E r \in {"ok", "failed"} : Answers(c, r)
    BY <1>14 DEF TrackFails
  <2>2. \A d \in Commands : d # c => command'[d] = command[d]
    BY <2>1 DEF Answers, CommandsOK
  <2>3. \A i : Tracked(i) => Tracked(i)' \/ i \in missed'
    BY <2>1, <2>2 DEF Tracked, Own
  <2> QED BY <2>1, <2>3 DEF LeftInv, Known
<1>8. ASSUME NEW s \in Shares, OwnerForgets(s) PROVE LeftInv'
  <2>1. \A r \in Shares : share'[r].revoked => share[r].revoked
    BY <1>8 DEF OwnerForgets, TablesOK
  <2>2. \A i : Tracked(i) => Tracked(i)'
    BY <1>8 DEF OwnerForgets, Tracked, Own
  <2> QED BY <1>8, <2>1, <2>2, LeftUntouched DEF OwnerForgets
<1>9. ASSUME NEW s \in Shares, StartRevoke(s) PROVE LeftInv'
  <2>1. /\ revocation[s].pc = "idle" /\ ~share[s].revoked
        /\ UNCHANGED <<share, records, inbounds, command, missed>>
        /\ revocation'[s].pc = "deleting"
        /\ revocation'[s].todo = {t \in Tags : <<s, t>> \in records}
        /\ \A r \in Shares : r # s => revocation'[r] = revocation[r]
    BY <1>9 DEF StartRevoke, TablesOK
  <2>2. ASSUME NEW i \in inbounds PROVE Known(i)'
    <3>1. i = <<i[1], i[2]>> /\ i[1] \in Shares /\ i[2] \in Tags
      BY DEF TablesOK
    <3>2. Tracked(i) => Tracked(i)'
      BY <2>1 DEF Tracked, Own
    <3>3. Known(i)
      BY DEF LeftInv
    <3>4. CASE i[1] = s
      <4>1. i \in missed \/ Tracked(i) \/ i \in records
        BY <2>1, <3>3, <3>4 DEF Known
      <4>2. i \in records => i[2] \in revocation'[s].todo
        BY <2>1, <3>1, <3>4
      <4> QED BY <2>1, <3>2, <3>4, <4>1, <4>2 DEF Known
    <3>5. CASE i[1] # s
      <4>1. revocation'[i[1]] = revocation[i[1]]
        BY <2>1, <3>1, <3>5
      <4> QED BY <2>1, <3>2, <3>3, <4>1 DEF Known
    <3> QED BY <3>4, <3>5
  <2> QED BY <2>1, <2>2 DEF LeftInv
<1>10. ASSUME NEW s \in Shares, NEW t \in Tags, RevokeOne(s, t) PROVE LeftInv'
  <2>1. /\ revocation[s].pc = "deleting" /\ UNCHANGED <<share, records, command>>
        /\ revocation'[s].pc = "deleting"
        /\ revocation'[s].todo = revocation[s].todo \ {t}
        /\ \A r \in Shares : r # s => revocation'[r] = revocation[r]
        /\ inbounds' \subseteq inbounds /\ missed \subseteq missed'
        /\ <<s, t>> \in inbounds' => <<s, t>> \in missed'
    BY <1>10 DEF RevokeOne, TablesOK
  <2>2. ASSUME NEW i \in inbounds' PROVE Known(i)'
    <3>1. i = <<i[1], i[2]>> /\ i[1] \in Shares /\ i[2] \in Tags
      BY <2>1 DEF TablesOK
    <3>2. Tracked(i) => Tracked(i)'
      BY <2>1 DEF Tracked, Own
    <3>3. Known(i)
      BY <2>1 DEF LeftInv
    <3>4. CASE i = <<s, t>>
      BY <2>1, <3>4 DEF Known
    <3>5. CASE i # <<s, t>> /\ i[1] = s
      <4>1. i[2] # t
        BY <3>1, <3>5
      <4> QED BY <2>1, <3>2, <3>3, <3>5, <4>1 DEF Known
    <3>6. CASE i[1] # s
      <4>1. revocation'[i[1]] = revocation[i[1]]
        BY <2>1, <3>1, <3>6
      <4> QED BY <2>1, <3>2, <3>3, <4>1 DEF Known
    <3> QED BY <3>4, <3>5, <3>6
  <2>3. \A r \in Shares : share'[r].revoked => revocation'[r].pc = "done"
    BY <2>1 DEF LeftInv
  <2> QED BY <2>2, <2>3 DEF LeftInv
<1>11. ASSUME NEW s \in Shares, ClearRecords(s) PROVE LeftInv'
  <2>1. /\ revocation[s].pc = "deleting" /\ revocation[s].todo = {}
        /\ UNCHANGED <<share, inbounds, command, missed>>
        /\ \A r \in Shares : r # s => revocation'[r] = revocation[r]
        /\ \A i \in records : i[1] # s => i \in records'
    BY <1>11 DEF ClearRecords, TablesOK
  <2>2. ASSUME NEW i \in inbounds PROVE Known(i)'
    <3>1. i[1] \in Shares /\ Known(i)
      BY DEF TablesOK, LeftInv
    <3>2. Tracked(i) => Tracked(i)'
      BY <2>1 DEF Tracked, Own
    <3>3. CASE i[1] = s
      BY <2>1, <3>1, <3>2, <3>3 DEF Known
    <3>4. CASE i[1] # s
      <4>1. revocation'[i[1]] = revocation[i[1]]
        BY <2>1, <3>1, <3>4
      <4> QED BY <2>1, <3>1, <3>2, <3>4, <4>1 DEF Known
    <3> QED BY <3>3, <3>4
  <2>3. \A r \in Shares : share'[r].revoked => revocation'[r].pc = "done"
    BY <2>1 DEF LeftInv
  <2> QED BY <2>1, <2>2, <2>3 DEF LeftInv
<1>12. ASSUME NEW s \in Shares, Revoke(s) PROVE LeftInv'
  <2>1. /\ revocation[s].pc = "cleared" /\ revocation'[s].pc = "done"
        /\ UNCHANGED <<records, inbounds, command, missed>>
        /\ \A r \in Shares : r # s => /\ revocation'[r] = revocation[r]
                                      /\ share'[r] = share[r]
    BY <1>12 DEF Revoke, TablesOK
  <2>2. ASSUME NEW i \in inbounds PROVE Known(i)'
    <3>1. i[1] \in Shares /\ Known(i)
      BY DEF TablesOK, LeftInv
    <3>2. Tracked(i) => Tracked(i)'
      BY <2>1 DEF Tracked, Own
    <3>3. CASE i[1] = s
      BY <2>1, <3>1, <3>2, <3>3 DEF Known
    <3>4. CASE i[1] # s
      <4>1. revocation'[i[1]] = revocation[i[1]]
        BY <2>1, <3>1, <3>4
      <4> QED BY <2>1, <3>1, <3>2, <4>1 DEF Known
    <3> QED BY <3>3, <3>4
  <2>3. \A r \in Shares : share'[r].revoked => revocation'[r].pc = "done"
    BY <2>1 DEF LeftInv
  <2> QED BY <2>1, <2>2, <2>3 DEF LeftInv
<1>13. CASE UNCHANGED fedVars
  BY <1>13 DEF fedVars, LeftInv, Known, Tracked, Own
<1> QED
  BY <1>2, <1>3, <1>4, <1>5, <1>6, <1>7, <1>8, <1>9, <1>10, <1>11, <1>12, <1>13,
     <1>14 DEF FedNext, CommandStep

\* What is left of a share that was revoked with its inbounds could not be
\* known or reached by the revocation.
THEOREM LeftoversAreExplained == FedSpec => []LeftoverIsExplained
<1>1. FedInit => LeftInv
  BY DEF FedInit, LeftInv
<1>2. TypesOK /\ LeftInv /\ [FedNext]_fedVars => LeftInv'
  BY LeftStep
<1>3. TypesOK /\ LeftInv => LeftoverIsExplained
  <2> SUFFICES ASSUME TypesOK, LeftInv, NEW i \in inbounds, share[i[1]].revoked
               PROVE  i \in missed \/ Busy(i)
    BY DEF LeftoverIsExplained
  <2>1. revocation[i[1]].pc = "done"
    BY DEF LeftInv, TypesOK, TablesOK
  <2>2. i \in missed \/ Tracked(i)
    BY <2>1 DEF LeftInv, Known
  <2> QED BY <2>2 DEF Tracked, Busy
<1> QED BY <1>1, <1>2, <1>3, FedTypeCorrect, PTL DEF FedSpec
=============================================================================
