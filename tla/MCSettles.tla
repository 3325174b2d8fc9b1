------------------------------ MODULE MCSettles ------------------------------
(***************************************************************************)
(* What must come about in the end, in one instance of each module that    *)
(* says so: the shown state of a server, the end of a call and of a        *)
(* stream.  The modules share no state, so a behaviour is one of one of    *)
(* them: part says which, and the fairness of the others asks nothing of   *)
(* it.                                                                     *)
(***************************************************************************)
EXTENDS ServerLiveness

CONSTANTS Calls, Addresses, MaxLinks, MaxKeys,
          ChanSize, Frames, Candidates

VARIABLES part,
          link, pending, box, call, key, agentKey, keys, requests, answers,
          applied, runs, excused, hit, deaf,
          stream, channel, waiting, socket, sent, shown, lost, killed

callVars    == <<link, pending, box, call, key, agentKey, keys, requests, answers,
                 applied, runs, excused, hit, deaf>>
streamVars  == <<stream, channel, waiting, socket, sent, shown, lost, killed>>
allVars     == <<vars, callVars, streamVars, part>>

Command == INSTANCE RemoteCall
Shown   == INSTANCE RemoteStream

SettlesInit ==
    /\ part \in {"server", "call", "stream"}
    /\ Init /\ Command!CallInit /\ Shown!StreamInit

SettlesNext ==
    /\ UNCHANGED part
    /\ \/ /\ part = "server" /\ Next
          /\ UNCHANGED <<callVars, streamVars>>
       \/ /\ part = "call" /\ Command!CallNext
          /\ UNCHANGED <<vars, streamVars>>
       \/ /\ part = "stream" /\ Shown!StreamNext
          /\ UNCHANGED <<vars, callVars>>

\* The fair actions of a part, in its behaviours.
Of(p) == part = p

SettlesSpec ==
    /\ SettlesInit /\ [][SettlesNext]_allVars
    \* ServerLiveness!FairSpec
    /\ WF_vars(Of("server") /\ Round) /\ WF_vars(Of("server") /\ Heartbeats)
    /\ \A c \in Conns : /\ WF_vars(Of("server") /\ Handler(c))
                        /\ WF_vars(Of("server") /\ agent # "up" /\ Break(c))
    /\ WF_vars(Of("server") /\ Unheard /\ BeatAges) /\ WF_vars(Of("server") /\ SinceRipens)
    /\ WF_vars(Of("server") /\ ThrottleEnds)
    \* RemoteCall!FairCallSpec and RemoteStream!FairStreamSpec
    /\ \A c \in Calls :
          WF_callVars(Of("call") /\ call[c].pc # "idle" /\ Command!CallerStep(c))
    /\ WF_streamVars(Of("stream") /\ Shown!SelectStep)

\* No command of an administrator stays open for ever: a call ends, and a
\* streamed one stops waiting for the WebSocket, whatever the agent and the
\* network do (CallAgent, forwardToRemoteServer, CallAgentStream).
CommandsEnd == Command!CallEnds /\ Shown!SelectEnds
=============================================================================
