------------------------------- MODULE MCWire -------------------------------
(***************************************************************************)
(* One instance of each module about the connection between a panel and    *)
(* what it talks to.  The five share no state, so a behaviour is one of    *)
(* one of them: part says which.                                           *)
(***************************************************************************)
EXTENDS SecureChannel, RemoteCall, RemoteStream, Federation, ServerLiveness, TLC

VARIABLE part

wireVars == <<channelVars, callVars, streamVars, fedVars, vars, part>>

WireInit == /\ part \in {"channel", "call", "stream", "federation", "server"}
            /\ ChannelInit /\ CallInit /\ StreamInit /\ FedInit /\ Init

WireNext ==
    /\ UNCHANGED part
    /\ \/ /\ part = "channel" /\ ChannelNext
          /\ UNCHANGED <<callVars, streamVars, fedVars, vars>>
       \/ /\ part = "call" /\ CallNext
          /\ UNCHANGED <<channelVars, streamVars, fedVars, vars>>
       \/ /\ part = "stream" /\ StreamNext
          /\ UNCHANGED <<channelVars, callVars, fedVars, vars>>
       \/ /\ part = "federation" /\ FedNext
          /\ UNCHANGED <<channelVars, callVars, streamVars, vars>>
       \/ /\ part = "server" /\ Next
          /\ UNCHANGED <<channelVars, callVars, streamVars, fedVars>>

WireSpec == WireInit /\ [][WireNext]_wireVars

\* Type invariants of the five, each in its own behaviours.
WireTypeOK == /\ part = "channel" => ChannelTypeOK
              /\ part = "call" => CallTypeOK
              /\ part = "stream" => StreamTypeOK
              /\ part = "federation" => FedTypeOK
              /\ part = "server" => TypeOK

\* Calls, commands and connections are interchangeable.  The instance names
\* them alike, so that one group of permutations serves all parts.
ASSUME Calls = Commands /\ Calls = Conns
Symmetry == Permutations(Calls)
=============================================================================
