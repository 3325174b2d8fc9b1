---------------------------- MODULE RemoteStream ----------------------------
(***************************************************************************)
(* A streamed command (install, remove, upgrade) shown to the              *)
(* administrator while the agent runs it: CallAgentStream, tryWSRPCStream, *)
(* routeRPCStreamData and routeRPCReply of handler/ws_rpc.go, and          *)
(* forwardStreamToRemote and forwardUpgradeStream of                       *)
(* handler/remote_manage.go.  The agent, external, sends its output as     *)
(* frames and an end frame; over HTTP the same command is run again.       *)
(***************************************************************************)
EXTENDS Integers, Sequences

CONSTANTS ChanSize,    \* capacity of the frame channel, 64 in the code
          Frames,      \* how many frames one run of the command produces
          Candidates   \* HTTP addresses of the server

ASSUME StreamAssumption == /\ ChanSize \in Nat \ {0}
                           /\ Frames \in Nat
                           /\ Candidates \in Nat \ {0}

VARIABLES
  stream,   \* [pc, address, end] of the handler; address 0 is the WebSocket
  channel,  \* the frames of the channel registered in pendingStream
  waiting,  \* the channel is registered in pendingStream
  socket,   \* frames on the WebSocket, in the order the agent sent them
  sent,     \* per run of the command, how many frames it has produced; -1:
            \* the agent was not asked to run it through this address
  shown,    \* what was written to the administrator, in order
  lost,     \* history: frames dropped because the channel was full
  killed    \* the agent restarts or the connection drops: nothing more comes

streamVars == <<stream, channel, waiting, socket, sent, shown, lost, killed>>

\* A run is named by the address it was started through; frame Frames + 1 of
\* the run over the WebSocket is its end frame.
Runs  == 0..Candidates
Frame == [run : Runs, no : 1..(Frames + 1)]
Ends  == {"none", "complete", "error", "interrupted"}
NotAsked == -1

StreamInit ==
    /\ stream = [pc |-> "idle", address |-> 0, end |-> "none"]
    /\ channel = <<>> /\ waiting = FALSE /\ socket = <<>>
    /\ sent = [r \in Runs |-> NotAsked]
    /\ shown = <<>> /\ lost = {} /\ killed = FALSE

-----------------------------------------------------------------------------
(* Over the WebSocket *)

\* tryWSRPCStream finds a connection whose agent can stream: the channel is
\* registered, then the command is sent.
StartSocket ==
    /\ stream.pc = "idle" /\ ~killed
    /\ stream' = [stream EXCEPT !.pc = "select"]
    /\ waiting' = TRUE
    /\ sent' = [sent EXCEPT ![0] = 0]
    /\ UNCHANGED <<channel, socket, shown, lost, killed>>

\* No connection, no capability, or the command could not be sent.
SkipStream ==
    /\ stream.pc = "idle"
    /\ stream' = [stream EXCEPT !.pc = "dial", !.address = 1]
    /\ UNCHANGED <<channel, waiting, socket, sent, shown, lost, killed>>

\* The agent flushes a frame of its output, or the end frame, whether the
\* handler still waits or not.
AgentFlush ==
    /\ sent[0] \in 0..Frames /\ ~killed
    /\ sent' = [sent EXCEPT ![0] = @ + 1]
    /\ socket' = Append(socket, [run |-> 0, no |-> sent[0] + 1])
    /\ UNCHANGED <<stream, channel, waiting, shown, lost, killed>>

\* The agent restarts, or the connection drops; nobody tells the handler.
Kill ==
    /\ ~killed
    /\ killed' = TRUE
    /\ socket' = <<>>
    /\ UNCHANGED <<stream, channel, waiting, sent, shown, lost>>

\* routeRPCStreamData and routeRPCReply: a frame without a waiter is thrown
\* away, and so is one the full channel has no room for, the end frame too.
RouteFrame ==
    /\ socket # <<>>
    /\ socket' = Tail(socket)
    /\ IF ~waiting THEN UNCHANGED <<channel, lost>>
       ELSE IF Len(channel) < ChanSize
            THEN channel' = Append(channel, Head(socket)) /\ UNCHANGED lost
            ELSE lost' = lost \cup {Head(socket)} /\ UNCHANGED channel
    /\ UNCHANGED <<stream, waiting, sent, shown, killed>>

EndStream(end) == stream' = [stream EXCEPT !.pc = "done", !.end = end]

\* The select takes a data frame and writes it out.
ShowFrame ==
    /\ stream.pc = "select" /\ channel # <<>> /\ Head(channel).no <= Frames
    /\ shown' = Append(shown, Head(channel))
    /\ channel' = Tail(channel)
    /\ UNCHANGED <<stream, waiting, socket, sent, lost, killed>>

\* The select takes the end frame: complete, or an error of the agent.
TakeEnd ==
    /\ stream.pc = "select" /\ channel # <<>> /\ Head(channel).no > Frames
    /\ \E end \in {"complete", "error"} : EndStream(end)
    /\ channel' = <<>> /\ waiting' = FALSE
    /\ UNCHANGED <<socket, sent, shown, lost, killed>>

\* mutant: the handler falls back whatever was shown
TimeoutFallsBack ==
    /\ stream.pc = "select"
    /\ stream' = [stream EXCEPT !.pc = "dial", !.address = 1]
    /\ channel' = <<>> /\ waiting' = FALSE
    /\ UNCHANGED <<socket, sent, shown, lost, killed>>

\* The context or the deadline ends the select.  With nothing shown yet the
\* handler falls back to HTTP; otherwise it may not.
StreamTimeout ==
    /\ stream.pc = "select"
    /\ IF shown = <<>>
       THEN stream' = [stream EXCEPT !.pc = "dial", !.address = 1]
       ELSE EndStream("interrupted")
    /\ channel' = <<>> /\ waiting' = FALSE
    /\ UNCHANGED <<socket, sent, shown, lost, killed>>

\* The administrator has gone: the write fails.
WriteFails ==
    /\ stream.pc = "select" /\ channel # <<>> /\ Head(channel).no <= Frames
    /\ EndStream("error")
    /\ channel' = <<>> /\ waiting' = FALSE
    /\ UNCHANGED <<socket, sent, shown, lost, killed>>

-----------------------------------------------------------------------------
(* Over HTTP *)

\* The candidate cannot be reached or answers with a status of 400 or more:
\* the next one is tried, and after the last the error is shown.
CandidateFails ==
    /\ stream.pc = "dial"
    /\ IF stream.address < Candidates
       THEN stream' = [stream EXCEPT !.address = @ + 1]
       ELSE EndStream("error")
    /\ UNCHANGED <<channel, waiting, socket, sent, shown, lost, killed>>

\* The candidate answers 200: from here on it is the only one.
CandidateAnswers ==
    /\ stream.pc = "dial" /\ stream.address <= Candidates
    /\ stream' = [stream EXCEPT !.pc = "copy"]
    /\ sent' = [sent EXCEPT ![stream.address] = 0]
    /\ UNCHANGED <<channel, waiting, socket, shown, lost, killed>>

\* A line of the body is copied.
CopyLine ==
    /\ stream.pc = "copy" /\ sent[stream.address] < Frames
    /\ sent' = [sent EXCEPT ![stream.address] = @ + 1]
    /\ shown' = Append(shown, [run |-> stream.address,
                               no |-> sent[stream.address] + 1])
    /\ UNCHANGED <<stream, channel, waiting, socket, lost, killed>>

\* mutant: the end of a body is the end of the command
BodyCompletes ==
    /\ stream.pc = "copy"
    /\ EndStream("complete")
    /\ UNCHANGED <<channel, waiting, socket, sent, shown, lost, killed>>

\* The body ends, because the command is done or because the agent is gone;
\* the handler of the general stream has no deadline of its own.
BodyEnds ==
    /\ stream.pc = "copy"
    /\ EndStream(IF sent[stream.address] = Frames THEN "complete"
                 ELSE "interrupted")
    /\ UNCHANGED <<channel, waiting, socket, sent, shown, lost, killed>>

-----------------------------------------------------------------------------
SelectStep == \/ StartSocket \/ ShowFrame \/ TakeEnd \/ StreamTimeout \/ WriteFails
              \/ CandidateFails

StreamNext == \/ SelectStep \/ SkipStream \/ CandidateAnswers \/ CopyLine
              \/ BodyEnds \/ AgentFlush \/ Kill \/ RouteFrame

\* The deadline of the select and the timeout of a dial fire.  Nothing is
\* assumed of the agent, and so nothing of a body it keeps open.
StreamFairness == WF_streamVars(SelectStep)

StreamSpec == StreamInit /\ [][StreamNext]_streamVars
FairStreamSpec == StreamSpec /\ StreamFairness

-----------------------------------------------------------------------------
(* Properties *)

\* Type invariant of the stream.
StreamTypeOK ==
    /\ stream \in [pc : {"idle", "select", "dial", "copy", "done"},
                   address : 0..Candidates, end : Ends]
    /\ channel \in Seq(Frame) /\ Len(channel) <= ChanSize
    /\ socket \in Seq(Frame) /\ shown \in Seq(Frame)
    /\ sent \in [Runs -> NotAsked..(Frames + 1)]
    /\ lost \subseteq Frame
    /\ waiting \in BOOLEAN /\ killed \in BOOLEAN

\* The administrator sees the output of one run only, in the order the run
\* produced it: once a frame was shown the command is not started again, and
\* frames of a run that was given up never mix with those of the next
\* (CallAgentStream's bytesWritten, pendingStream).
ShowsOneRunInOrder ==
    \A i, j \in 1..Len(shown) :
        i < j => shown[i].run = shown[j].run /\ shown[i].no < shown[j].no

\* A frame is missing from what was shown only when the channel was full: up
\* to the last frame shown nothing else is skipped, and a stream that is
\* reported complete has shown every frame that was not dropped
\* (routeRPCStreamData drops, it never reorders).
Seen(r, no) == \/ \E i \in 1..Len(shown) : shown[i] = [run |-> r, no |-> no]
               \/ [run |-> r, no |-> no] \in lost

GapsWereDropped ==
    /\ \A i \in 1..Len(shown) : \A no \in 1..shown[i].no : Seen(shown[i].run, no)
    /\ stream.end = "complete" =>
           \E r \in Runs : \A no \in 1..Frames : Seen(r, no)

\* The handler does not wait for a WebSocket for ever, even when the end frame
\* was dropped or the connection is gone.
SelectEnds == stream.pc = "select" ~> stream.pc # "select"
=============================================================================
