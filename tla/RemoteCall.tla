----------------------------- MODULE RemoteCall -----------------------------
(***************************************************************************)
(* A command of the panel to one agent: handler/ws_rpc.go and              *)
(* forwardToRemoteServer of handler/remote_manage.go.  The panel tries the *)
(* WebSocket first, then each HTTP address, sealing the body with a pull   *)
(* session it negotiates on the way.  The agent and the network are        *)
(* external: connections drop, answers are lost or late, and a request     *)
(* whose caller has left may still be run.                                 *)
(***************************************************************************)
EXTENDS Naturals, FiniteSets

CONSTANTS Calls,      \* calls made concurrently to the agent
          Addresses,  \* how many address candidates the server has
          MaxLinks,   \* bound: WebSocket connections
          MaxKeys     \* bound: pull sessions negotiated

ASSUME CallAssumption == /\ Addresses \in Nat \ {0}
                         /\ MaxLinks \in Nat \ {0}
                         /\ MaxKeys \in Nat \ {0}

NoKey == 0

VARIABLES
  link,       \* the WebSocket: [no: its number, up: BOOLEAN]
  pending,    \* pendingRPC: the calls whose reply channel is registered
  box,        \* the reply channel of each call, capacity 1
  call,       \* per call: [pc, try, link, address, kind, end]
  key,        \* pullSessions of the server
  agentKey,   \* the session the agent keeps for the token of the server
  keys,       \* how many sessions were negotiated
  requests,   \* requests on their way to the agent or waiting inside it
  answers,    \* answers on their way to the panel
  applied,    \* history: the calls the agent has run successfully
  runs,       \* history: how often the agent ran each call
  excused,    \* history: tries of a call that ended without an answer of use
  hit,        \* history: calls that met a failure of the agent or of the network
  deaf        \* history: calls whose reply found no waiter while it waited

callVars == <<link, pending, box, call, key, agentKey, keys, requests, answers,
              applied, runs, excused, hit, deaf>>

Results == {"ok", "bad", "refused", "unreadable"}
Kinds   == {"rpc", "kx", "sealed"}
Tries   == 0..(1 + 2 * Addresses)
\* "via" is the connection of an rpc, else the session of the request.
Request == [call : Calls, try : Tries, kind : Kinds, via : 0..(MaxKeys + MaxLinks)]
Answer  == [call : Calls, try : Tries, kind : Kinds, via : 0..(MaxKeys + MaxLinks),
            result : Results]

CallRecord == [pc : {"idle", "registered", "waiting", "http", "asked", "done"},
               try : Tries, link : 0..MaxLinks, address : 1..Addresses,
               kind : Kinds, end : {"none", "ok", "failed"}]

NewCall == [pc |-> "idle", try |-> 0, link |-> 0, address |-> 1, kind |-> "rpc",
            end |-> "none"]

CallInit == /\ link = [no |-> 1, up |-> TRUE]
            /\ pending = {}
            /\ box = [c \in Calls |-> "empty"]
            /\ call = [c \in Calls |-> NewCall]
            /\ key = NoKey /\ agentKey = NoKey /\ keys = 0
            /\ requests = {} /\ answers = {}
            /\ applied = {} /\ runs = [c \in Calls |-> 0]
            /\ excused = [c \in Calls |-> 0]
            /\ hit = {}
            /\ deaf = {}

Finish(c, end) == call' = [call EXCEPT ![c].pc = "done", ![c].end = end]

Excuse(c) == excused' = [excused EXCEPT ![c] = @ + 1]

HeldLink(c) == link.up /\ link.no = call[c].link

-----------------------------------------------------------------------------
(* tryWSRPC and CallAgent *)

\* mutant: the channel is registered under another id than the one sent
RegisterElsewhere(c) ==
    /\ call[c].pc = "idle" /\ link.up
    /\ call' = [call EXCEPT ![c].pc = "registered", ![c].link = link.no]
    /\ UNCHANGED <<link, pending, box, key, agentKey, keys, requests, answers,
                   applied, runs, excused, hit, deaf>>

\* The agent is connected and advertises rpc: CallAgent registers the reply
\* channel before it sends anything.
Register(c) ==
    /\ call[c].pc = "idle" /\ link.up
    /\ call' = [call EXCEPT ![c].pc = "registered", ![c].link = link.no]
    /\ pending' = pending \cup {c}
    /\ UNCHANGED <<link, box, key, agentKey, keys, requests, answers, applied,
                   runs, excused, hit, deaf>>

\* No connection, or an agent without the capability: straight to HTTP.
SkipSocket(c) ==
    /\ call[c].pc = "idle"
    /\ call' = [call EXCEPT ![c].pc = "http"]
    /\ UNCHANGED <<link, pending, box, key, agentKey, keys, requests, answers,
                   applied, runs, excused, hit, deaf>>

\* sendEncryptedMessage succeeds.  A connection that died unnoticed may take
\* the message too; it is then lost.
SendCall(c) ==
    /\ call[c].pc = "registered"
    /\ call' = [call EXCEPT ![c].pc = "waiting"]
    /\ requests' = IF HeldLink(c)
                   THEN requests \cup {[call |-> c, try |-> 0, kind |-> "rpc",
                                        via |-> call[c].link]}
                   ELSE requests
    /\ UNCHANGED <<link, pending, box, key, agentKey, keys, answers, applied,
                   runs, excused, hit, deaf>>

\* mutant: no timer fires
GiveUpOnSend(c) ==
    /\ call[c].pc = "registered" /\ ~HeldLink(c)
    /\ call' = [call EXCEPT ![c].pc = "http", ![c].try = 1]
    /\ pending' = pending \ {c}
    /\ Excuse(c)
    /\ UNCHANGED <<link, box, key, agentKey, keys, requests, answers, applied,
                   runs, hit, deaf>>

\* ErrWSRPCUnavailable: the send failed, the context ended, or the timer of
\* the select fired, even if a reply arrived at the same moment.
GiveUp(c) ==
    /\ \/ call[c].pc = "registered" /\ ~HeldLink(c)
       \/ call[c].pc = "waiting"
    /\ call' = [call EXCEPT ![c].pc = "http", ![c].try = 1]
    /\ pending' = pending \ {c}
    /\ Excuse(c)
    /\ UNCHANGED <<link, box, key, agentKey, keys, requests, answers, applied,
                   runs, hit, deaf>>

\* mutants: an error of the agent is retried over HTTP; an error is a success
ReceiveAndRetry(c) ==
    /\ call[c].pc = "waiting" /\ box[c] # "empty"
    /\ IF box[c] = "ok" THEN Finish(c, "ok")
       ELSE call' = [call EXCEPT ![c].pc = "http", ![c].try = 1]
    /\ pending' = pending \ {c}
    /\ UNCHANGED <<link, box, key, agentKey, keys, requests, answers, applied,
                   runs, excused, hit, deaf>>
ReceiveAnything(c) ==
    /\ call[c].pc = "waiting" /\ box[c] # "empty"
    /\ Finish(c, "ok")
    /\ pending' = pending \ {c}
    /\ UNCHANGED <<link, box, key, agentKey, keys, requests, answers, applied,
                   runs, excused, hit, deaf>>

\* The select receives the reply: success, or an error of the agent that is
\* passed on without trying HTTP.
Receive(c) ==
    /\ call[c].pc = "waiting" /\ box[c] # "empty"
    /\ Finish(c, IF box[c] = "ok" THEN "ok" ELSE "failed")
    /\ pending' = pending \ {c}
    /\ hit' = IF box[c] = "bad" THEN hit \cup {c} ELSE hit
    /\ UNCHANGED <<link, box, key, agentKey, keys, requests, answers, applied,
                   runs, excused, deaf>>

\* routeRPCReply finds the channel by the request id, or drops the reply.
RouteReply(a) ==
    /\ a \in answers /\ a.kind = "rpc" /\ link.up /\ a.via = link.no
    /\ answers' = answers \ {a}
    /\ IF a.call \in pending /\ box[a.call] = "empty"
       THEN box' = [box EXCEPT ![a.call] = a.result] /\ UNCHANGED deaf
       ELSE /\ UNCHANGED box
            /\ deaf' = IF call[a.call].pc \in {"registered", "waiting"}
                       THEN deaf \cup {a.call} ELSE deaf
    /\ UNCHANGED <<link, pending, call, key, agentKey, keys, requests, applied,
                   runs, excused, hit>>

-----------------------------------------------------------------------------
(* The HTTP candidates *)

\* The row says the server is not connected, or it has no address.
NoAddress(c) ==
    /\ call[c].pc = "http" /\ call[c].address = 1 /\ call[c].kind = "rpc"
    /\ Finish(c, "failed")
    /\ hit' = hit \cup {c}
    /\ UNCHANGED <<link, pending, box, key, agentKey, keys, requests, answers,
                   applied, runs, excused, deaf>>

\* A request to the current address: sealed with the pull session when there
\* is one, else carrying a key exchange; a renegotiation always exchanges.
Ask(c, kind) ==
    /\ call[c].pc = "http" /\ call[c].address <= Addresses
    /\ \/ kind = "kx" /\ (key = NoKey \/ call[c].kind = "kx")
       \/ kind = "sealed" /\ key # NoKey /\ call[c].kind # "kx"
    /\ call' = [call EXCEPT ![c].pc = "asked", ![c].kind = kind]
    /\ requests' = requests \cup {[call |-> c, try |-> call[c].try, kind |-> kind,
                                   via |-> IF kind = "kx" THEN NoKey ELSE key]}
    /\ UNCHANGED <<link, pending, box, key, agentKey, keys, answers, applied,
                   runs, excused, hit, deaf>>

\* The answer the caller is waiting for.
Awaited(a) == /\ a \in answers
              /\ call[a.call].pc = "asked" /\ a.try = call[a.call].try
              /\ a.kind # "rpc"

\* A success; a key exchange stores the session it has made.
HearSuccess(a) ==
    /\ Awaited(a) /\ a.result = "ok"
    /\ answers' = answers \ {a}
    /\ Finish(a.call, "ok")
    /\ key' = IF a.kind = "kx" THEN a.via ELSE key
    /\ UNCHANGED <<link, pending, box, agentKey, keys, requests, applied, runs,
                   excused, hit, deaf>>

\* mutant: only the agent's refusal counts
IsRefusal(a) == a.kind = "sealed" /\ a.result = "refused"

\* isSessionInvalidErr: the agent has no such session or the answer cannot
\* be opened; the session is forgotten, whichever is stored by now, and the
\* same address is asked again with a key exchange.
IsSessionInvalid(a) == a.kind = "sealed" /\ a.result \in {"refused", "unreadable"}

Renegotiate(a) ==
    /\ Awaited(a) /\ IsSessionInvalid(a)
    /\ answers' = answers \ {a}
    /\ key' = NoKey
    /\ call' = [call EXCEPT ![a.call].pc = "http", ![a.call].kind = "kx",
                            ![a.call].try = @ + 1]
    /\ IF a.result = "refused" THEN UNCHANGED excused ELSE Excuse(a.call)
    /\ UNCHANGED <<link, pending, box, agentKey, keys, requests, applied, runs,
                   hit, deaf>>

\* mutant: one address too many
NextAddressOver(c) ==
    /\ call[c].pc = "asked"
    /\ IF call[c].address <= Addresses
       THEN call' = [call EXCEPT ![c].pc = "http", ![c].address = @ + 1,
                                 ![c].kind = "sealed", ![c].try = @ + 1]
       ELSE Finish(c, "failed")
    /\ Excuse(c)

\* Any other failure of an address: the next one, or the error to the caller.
NextAddress(c) ==
    /\ call[c].pc = "asked"
    /\ IF call[c].address < Addresses
       THEN call' = [call EXCEPT ![c].pc = "http", ![c].address = @ + 1,
                                 ![c].kind = "sealed", ![c].try = @ + 1]
       ELSE Finish(c, "failed")
    /\ Excuse(c)

HearError(a) ==
    /\ Awaited(a) /\ a.result # "ok" /\ ~IsSessionInvalid(a)
    /\ answers' = answers \ {a}
    /\ NextAddress(a.call)
    /\ hit' = IF a.result = "bad" THEN hit \cup {a.call} ELSE hit
    /\ UNCHANGED <<link, pending, box, key, agentKey, keys, requests, applied,
                   runs, deaf>>

\* The client's timeout, a refused connection, a cancelled context.
RequestFails(c) ==
    /\ NextAddress(c)
    /\ answers' = {a \in answers : a.call # c \/ a.kind = "rpc"}
    /\ hit' = hit \cup {c}
    /\ UNCHANGED <<link, pending, box, key, agentKey, keys, requests, applied,
                   runs, deaf>>

-----------------------------------------------------------------------------
(* The agent and the network (external) *)

\* Somebody may still hear the answer: its connection, or its request, lives.
Hears(m) == IF m.kind = "rpc" THEN link.up /\ link.no = m.via
            ELSE call[m.call].pc = "asked" /\ call[m.call].try = m.try

Reply(m, result, via) ==
    answers' = IF Hears(m)
               THEN answers \cup {[call |-> m.call, try |-> m.try, kind |-> m.kind,
                                  via |-> via, result |-> result]}
               ELSE answers

\* The agent runs a call: over the WebSocket, with a key exchange that makes
\* a session, or sealed with the session it has.
Run(m, result) ==
    /\ m \in requests
    /\ m.kind = "sealed" => m.via = agentKey
    /\ m.kind = "kx" => keys < MaxKeys
    /\ requests' = requests \ {m}
    /\ runs' = [runs EXCEPT ![m.call] = @ + 1]
    /\ applied' = IF result = "bad" THEN applied ELSE applied \cup {m.call}
    /\ IF m.kind = "kx"
       THEN keys' = keys + 1 /\ agentKey' = keys + 1 /\ Reply(m, result, keys + 1)
       ELSE UNCHANGED <<keys, agentKey>> /\ Reply(m, result, m.via)
    /\ UNCHANGED <<link, pending, box, call, key, excused, hit, deaf>>

\* A sealed request of a session the agent does not have is not run.
Refuse(m) ==
    /\ m \in requests /\ m.kind = "sealed" /\ m.via # agentKey
    /\ requests' = requests \ {m}
    /\ Reply(m, "refused", m.via)
    /\ UNCHANGED <<link, pending, box, call, key, agentKey, keys, applied, runs,
                   excused, hit, deaf>>

\* Restart of the agent, or the end of the life of its session.
ForgetKey ==
    /\ agentKey # NoKey
    /\ agentKey' = NoKey
    /\ UNCHANGED <<link, pending, box, call, key, keys, requests, answers,
                   applied, runs, excused, hit, deaf>>

\* The connection drops, with what it carries; the agent dials again.
Drop ==
    /\ link.up /\ link.no < MaxLinks
    /\ link' = [link EXCEPT !.up = FALSE]
    /\ answers' = {a \in answers : a.kind # "rpc"}
    /\ UNCHANGED <<pending, box, call, key, agentKey, keys, requests, applied,
                   runs, excused, hit, deaf>>

Dial ==
    /\ ~link.up
    /\ link' = [no |-> link.no + 1, up |-> TRUE]
    /\ UNCHANGED <<pending, box, call, key, agentKey, keys, requests, answers,
                   applied, runs, excused, hit, deaf>>

-----------------------------------------------------------------------------
CallerStep(c) ==
    \/ Register(c) \/ SkipSocket(c) \/ SendCall(c) \/ GiveUp(c) \/ Receive(c)
    \/ NoAddress(c) \/ (\E kind \in {"kx", "sealed"} : Ask(c, kind))
    \/ RequestFails(c)

HearingStep(a) == HearSuccess(a) \/ Renegotiate(a) \/ HearError(a)

AgentRuns == \E m \in requests : \/ Run(m, "ok") \/ Run(m, "bad") \/ Refuse(m)
                                 \/ m.kind = "sealed" /\ Run(m, "unreadable")

CallNext ==
    \/ \E c \in Calls : CallerStep(c)
    \/ \E a \in answers : RouteReply(a) \/ HearingStep(a)
    \/ AgentRuns
    \/ ForgetKey \/ Drop \/ Dial

\* The timers of the select and of the HTTP client fire, and the goroutine of
\* a call is scheduled; nothing is assumed of the agent or of the network.
CallFairness == \A c \in Calls : WF_callVars(call[c].pc # "idle" /\ CallerStep(c))

CallSpec == CallInit /\ [][CallNext]_callVars
FairCallSpec == CallSpec /\ CallFairness

-----------------------------------------------------------------------------
(* Properties *)

\* Type invariant of the calls.
CallTypeOK ==
    /\ link \in [no : 0..MaxLinks, up : BOOLEAN]
    /\ pending \subseteq Calls
    /\ box \in [Calls -> Results \cup {"empty"}]
    /\ call \in [Calls -> CallRecord]
    /\ {key, agentKey, keys} \subseteq 0..MaxKeys
    /\ requests \subseteq Request /\ answers \subseteq Answer
    /\ applied \subseteq Calls /\ hit \subseteq Calls /\ deaf \subseteq Calls
    /\ runs \in [Calls -> Nat] /\ excused \in [Calls -> Nat]

\* Every run of a command, and every copy of it the agent may still run, is
\* paid for by a try the panel gave up on, could not read, or heard an error
\* from: a late reply, a session the agent has lost or an error over the
\* WebSocket never makes it run the command again, and once a call ended in its first try
\* nothing of it is left to run late (tryWSRPC, forwardToRemoteServer).
Copies(c) == runs[c] + Cardinality({m \in requests : m.call = c})
RunsAreAccountedFor == \A c \in Calls : Copies(c) <= excused[c] + 1

\* A reply channel is registered exactly as long as its caller may read it.
PendingIsWaiting ==
    pending = {c \in Calls : call[c].pc \in {"registered", "waiting"}}

\* A reply that arrives while its caller is still waiting reaches it, and no
\* channel outlives its caller: it is registered before the send and taken
\* away only by the caller (CallAgent, routeRPCReply).
RepliesReachTheirCaller == deaf = {} /\ PendingIsWaiting

\* Losing a session on either side, or two calls that negotiate at once, fails
\* no call by itself: every failure goes back to the agent or the network
\* (isSessionInvalidErr: "one renegotiation heals it").
SessionLossFailsNoCall ==
    \A c \in Calls : call[c].end = "failed" => c \in hit

\* Every call ends, whatever the agent and the network do.
CallEnds == \A c \in Calls : call[c].pc # "idle" ~> call[c].pc = "done"

\* A call reports success only for a command that was applied, and ends once.
Verdict(c) == IF call[c].pc = "idle" THEN "idle"
              ELSE IF call[c].pc = "done" THEN call[c].end ELSE "open"
Contract == INSTANCE Call WITH verdict <- [c \in Calls |-> Verdict(c)]
RefinesCall == Contract!Spec
=============================================================================
