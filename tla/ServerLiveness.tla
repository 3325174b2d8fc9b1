--------------------------- MODULE ServerLiveness ---------------------------
(***************************************************************************)
(* Whether a server is shown online. One row of remote_servers is written *)
(* by the handlers of its agent's WebSocket connections, by its HTTP      *)
(* reports, by the collector that pulls from it, marks it offline and     *)
(* announces that it is gone, and by the cleanup of connections that      *)
(* ended; some of them announce that it is back. They share the map of    *)
(* connections (the hub) and no lock.                                     *)
(*                                                                        *)
(* Servers share nothing but the goroutines that visit them in turn, so   *)
(* one server is modelled. Time is what the code compares it with: ten    *)
(* seconds, ninety seconds, five minutes and the notice tolerance.        *)
(***************************************************************************)
EXTENDS Integers

CONSTANTS
    Conns,          \* WebSocket connections the agent ever opens
    Nobody,         \* no connection
    ExplicitPull,   \* connection_mode is pull
    Threshold,      \* push failures before falling back to pull: 3
    MaxTrouble      \* bound: how often the agent or the network changes,
                    \* a silence of a reachable agent, or a restart occurs

ASSUME LivenessAssumption ==
    /\ Nobody \notin Conns
    /\ ExplicitPull \in BOOLEAN
    /\ Threshold \in Nat \ {0}
    /\ MaxTrouble \in Nat

VARIABLES
    row,        \* the server's row in remote_servers
    throttled,  \* heartbeatCache: activity was written in the last 10 s
    hub,        \* RemoteWSHandler.conns: the connection of the server's token
    conn,       \* the goroutine of a connection: where it is, whether the
                \* socket is open, the connection it found in the hub, the
                \* outage whose end it will announce
    sweep,      \* CleanupStaleConnections has closed the connection it found
    collector,  \* Collector.collectAll
    agent,      \* "up", "pullOnly" (cannot reach the master), "down"
    trouble,    \* (bound) how often something went wrong
    told,       \* (history) outages announced
    unsaid,     \* (history) outages whose notice died with the process
    owed        \* (history) outages announced, or about to be, whose end is
                \* yet to be announced

vars == <<row, throttled, hub, conn, sweep, collector, agent, trouble, told,
          unsaid, owed>>
hubVars == <<hub, conn, sweep>>
world   == <<agent, trouble>>
history == <<told, unsaid, owed>>

----------------------------------------------------------------------------

Beats == {"none", "recent", "late", "old"}  \* late: 90 s, old: 5 min
Since == {"null", "young", "ripe"}          \* ripe: the notice tolerance

Row == [status: {"pending", "connected", "offline"}, beat: Beats,
        since: Since, notified: BOOLEAN, fails: 0..Threshold,
        fallback: BOOLEAN,
        outage: Nat]                        \* (history) which outage this is

NewRow == [status |-> "pending", beat |-> "none", since |-> "null",
           notified |-> FALSE, fails |-> 0, fallback |-> FALSE, outage |-> 0]

Conn == [at: {"unused", "auth", "load", "swap", "store", "beat", "reset", "live",
              "delete", "mark", "done"},
         open: BOOLEAN, prev: Conns \cup {Nobody}, ends: Nat]

Unused == [at |-> "unused", open |-> FALSE, prev |-> Nobody, ends |-> 0]

\* Where the round is, the outage it will announce, and what it will do by the
\* row it has listed, unless the server is on a WebSocket by then.
Collector == [at: {"idle", "take", "update", "tell", "list", "visit",
                   "count", "decide", "fall"},
              todo: {"pass", "pull", "count"}, taken: Nat]

Idle == [at |-> "idle", todo |-> "pass", taken |-> 0]

\* mutant: a heartbeat does not bring the server back
HeardOnly(r) == [r EXCEPT !.beat = "recent", !.since = "null",
                          !.notified = FALSE]

\* A heartbeat or an activity of the agent.
Heard(r) == [r EXCEPT !.status = "connected", !.beat = "recent",
                      !.since = "null", !.notified = FALSE]

\* mutants: the guard on the status is missing; offline_since is not set
OfflineAgain(r) ==
    [r EXCEPT !.status = "offline", !.since = "young", !.notified = FALSE,
              !.outage = IF r.status = "connected" THEN @ + 1 ELSE @]
OfflineUndated(r) ==
    IF r.status = "connected"
    THEN [r EXCEPT !.status = "offline", !.notified = FALSE, !.outage = @ + 1]
    ELSE r

\* MarkRemoteServerOfflineByID, and one row of MarkOfflineRemoteServers.
Offline(r) ==
    IF r.status = "connected"
    THEN [r EXCEPT !.status = "offline", !.since = "young",
                   !.notified = FALSE, !.outage = @ + 1]
    ELSE r

\* The outage was announced, or its notice is about to go out.
Missed(r) == r.status = "offline" /\ r.notified

\* mutant: the test of offline_notified the wrong way round
EndUnannounced(r) == IF r.status = "offline" /\ ~r.notified THEN r.outage ELSE 0

\* What handleAuth and HTTP reports of traffic decide by the row they read: the
\* outage whose end they will announce, 0 for none. (A server that connects for
\* the first time is announced too, of which nothing is recorded here.)
EndOf(r) == IF Missed(r) THEN r.outage ELSE 0

\* Nothing is owed of this outage any more: its end was announced, or nobody will.
Settled(o) == owed' = owed \ {o}

\* The outage that ends when the agent is heard, 0 for none.
Ended(r) == IF r.status = "offline" THEN r.outage ELSE 0

\* The server comes back by a way that announces nothing.
Silently == Settled(Ended(row))

\* The goroutine has read the row and not written it yet.
HasRead(c) == conn[c].at \in {"load", "swap", "store", "beat"}

\* Outages whose end is about to be announced, and is in the database.
Due == {conn[c].ends : c \in {d \in Conns : conn[d].at = "reset"}}

\* The outage whose notice goes out now.
Telling == IF collector.at = "tell" THEN {collector.taken} ELSE {}

\* Outages whose notice went out, goes out now or died with the process; or none.
Noticed == {0} \cup told \cup unsaid \cup Telling

\* ResetRemoteServerPushFailCount.
PushWorks(r) == [r EXCEPT !.fails = 0, !.fallback = FALSE]

\* mutant: outages already announced are taken again
EveryOutage(r) == r.status = "offline" /\ r.since = "ripe"

\* TakeOfflineServersToNotify: its WHERE.
Announceable(r) == r.status = "offline" /\ ~r.notified /\ r.since = "ripe"

\* ShouldUsePullMode, with a pull address configured.
Pulled(r) == ExplicitPull \/ r.fallback

\* What collectAll and checkAndTriggerFallback do with a server: those that are
\* pulled and offline are passed over, and so are those that push and have been
\* heard within five minutes.
Todo(r) == CASE Pulled(r) /\ r.status # "offline" -> "pull"
             [] ~Pulled(r) /\ r.beat \in {"none", "old"} -> "count"
             [] OTHER -> "pass"

\* UpdateRemoteServerLastActivity, its answer ignored.
Activity ==
    IF throttled THEN UNCHANGED <<row, throttled, owed>>
    ELSE row' = Heard(row) /\ throttled' = TRUE /\ Silently

Init ==
    /\ row = NewRow
    /\ throttled = FALSE
    /\ hub = Nobody
    /\ conn = [c \in Conns |-> Unused]
    /\ sweep = FALSE
    /\ collector = Idle
    /\ agent = "down"
    /\ trouble = 0
    /\ told = {}
    /\ unsaid = {}
    /\ owed = {}

----------------------------------------------------------------------------
(* The agent and the network (external).                                  *)

Trouble == trouble < MaxTrouble /\ trouble' = trouble + 1

\* An agent in pull mode never calls the master.
AgentMoves(to) ==
    /\ to # agent
    /\ to = "up" => ~ExplicitPull
    /\ IF agent = "down" THEN UNCHANGED trouble ELSE Trouble
    /\ agent' = to
    /\ UNCHANGED <<row, throttled, hubVars, collector, history>>

\* The agent connects, for whatever reason, while older connections may live.
Accept(c) ==
    /\ agent = "up"
    /\ conn[c] = Unused
    /\ conn' = [conn EXCEPT ![c] = [@ EXCEPT !.at = "auth", !.open = TRUE]]
    /\ UNCHANGED <<row, throttled, hub, sweep, collector, world, history>>

\* The agent hangs up, the network drops the connection, or its read
\* deadline passes. Nothing but the read loop finds out, so that an earlier break
\* is one with the start of the loop.
Break(c) ==
    /\ conn[c].open /\ conn[c].at = "live"
    /\ conn' = [conn EXCEPT ![c].open = FALSE]
    /\ UNCHANGED <<row, throttled, hub, sweep, collector, world, history>>

----------------------------------------------------------------------------
(* Time.                                                                  *)

\* Nothing the agent does reaches this row.
Unheard == \/ agent = "down"
           \/ agent = "pullOnly" /\ ~Pulled(row)

\* The collector's rounds are minutes apart at most: one meets a late beat
\* before it is old.
BeatAges ==
    /\ \/ row.beat = "recent" /\ ~throttled /\ row' = [row EXCEPT !.beat = "late"]
       \/ /\ row.beat = "late" /\ row.status # "connected"
          /\ row' = [row EXCEPT !.beat = "old"]
    /\ IF Unheard THEN UNCHANGED trouble ELSE Trouble
    /\ UNCHANGED <<throttled, hubVars, collector, agent, history>>

SinceRipens ==
    /\ row.since = "young"
    /\ row' = [row EXCEPT !.since = "ripe"]
    /\ UNCHANGED <<throttled, hubVars, collector, world, history>>

ThrottleEnds ==
    /\ throttled
    /\ throttled' = FALSE
    /\ UNCHANGED <<row, hubVars, collector, world, history>>

----------------------------------------------------------------------------
(* RemoteWSHandler: a goroutine per connection, from handleAuth to the    *)
(* cleanup after its read loop.                                           *)

Advances(c, from, to) ==
    /\ conn[c].at = from
    /\ conn' = [conn EXCEPT ![c].at = to]

\* handleAuth reads the row of the server, which decides what it announces ...
AuthRead(c) ==
    /\ conn[c].at = "auth"
    /\ conn' = [conn EXCEPT ![c] = [@ EXCEPT !.at = "load", !.ends = EndOf(row)]]
    /\ UNCHANGED <<row, throttled, hub, sweep, collector, world, history>>

\* ... and looks for an older connection of the token: with one there it
\* announces nothing.
AuthLoad(c) ==
    /\ conn[c].at = "load"
    /\ IF hub = Nobody
       THEN /\ conn' = [conn EXCEPT ![c].at = "store"]
            /\ UNCHANGED owed
       ELSE /\ conn' = [conn EXCEPT ![c] = [@ EXCEPT !.at = "swap", !.prev = hub,
                                                    !.ends = 0]]
            /\ Silently
    /\ UNCHANGED <<row, throttled, hub, sweep, collector, world, told, unsaid>>

\* LoadAndDelete takes whatever is there now; what is closed is the
\* connection found before.
AuthSwap(c) ==
    /\ conn[c].at = "swap"
    /\ hub' = Nobody
    /\ conn' = [d \in Conns |->
                   IF d = c
                   THEN [conn[c] EXCEPT !.at = "store", !.prev = Nobody]
                   ELSE IF d = conn[c].prev /\ hub # Nobody
                   THEN [conn[d] EXCEPT !.open = FALSE]
                   ELSE conn[d]]
    /\ UNCHANGED <<row, throttled, sweep, collector, world, history>>

AuthStore(c) ==
    /\ Advances(c, "store", "beat")
    /\ hub' = c
    /\ UNCHANGED <<row, throttled, sweep, collector, world, history>>

AuthBeat(c) ==
    /\ Advances(c, "beat", "reset")
    /\ row' = Heard(row)
    /\ UNCHANGED <<throttled, hub, sweep, collector, world, history>>

\* The notice, in a goroutine of its own, and ResetRemoteServerPushFailCount.
AuthReset(c) ==
    /\ conn[c].at = "reset"
    /\ conn' = [conn EXCEPT ![c] = [@ EXCEPT !.at = "live", !.ends = 0]]
    /\ row' = PushWorks(row)
    /\ Settled(conn[c].ends)
    /\ UNCHANGED <<throttled, hub, sweep, collector, world, told, unsaid>>

Talks(c) == agent = "up" /\ conn[c].at = "live" /\ conn[c].open

\* handleHeartbeat.
WsHeartbeat(c) ==
    /\ Talks(c)
    /\ row' = Heard(row)
    /\ Silently
    /\ UNCHANGED <<throttled, hubVars, collector, world, told, unsaid>>

\* handleTraffic, handleSpeed.
WsActivity(c) ==
    /\ Talks(c)
    /\ Activity
    /\ UNCHANGED <<hubVars, collector, world, told, unsaid>>

\* The read loop ends: is the entry of the token still this connection?
CleanupLoad(c) ==
    /\ ~conn[c].open
    /\ Advances(c, "live", IF hub = c THEN "delete" ELSE "done")
    /\ UNCHANGED <<row, throttled, hub, sweep, collector, world, history>>

\* mutant: the entry stays
CleanupKeeps(c) ==
    /\ Advances(c, "delete", "mark")
    /\ UNCHANGED <<row, throttled, hub, sweep, collector, world, history>>

\* The entry is deleted by its token.
CleanupDelete(c) ==
    /\ Advances(c, "delete", "mark")
    /\ hub' = Nobody
    /\ UNCHANGED <<row, throttled, sweep, collector, world, history>>

CleanupMark(c) ==
    /\ Advances(c, "mark", "done")
    /\ row' = Offline(row)
    /\ UNCHANGED <<throttled, hub, sweep, collector, world, history>>

\* CleanupStaleConnections closes a connection without heartbeats for five
\* minutes, and deletes the entry it found it under. The silence of a
\* connection is not recorded, so any that is done with handleAuth may be met.
SweepClose ==
    /\ ~sweep /\ hub # Nobody
    /\ conn[hub].at = "live"
    /\ sweep' = TRUE
    /\ conn' = [conn EXCEPT ![hub].open = FALSE]
    /\ UNCHANGED <<row, throttled, hub, collector, world, history>>

SweepDelete ==
    /\ sweep
    /\ sweep' = FALSE
    /\ hub' = Nobody
    /\ UNCHANGED <<row, throttled, conn, collector, world, history>>

----------------------------------------------------------------------------
(* Reports over HTTP.                                                     *)

\* RemoteHeartbeatHandler announces whoever was not connected, whether or not
\* the outage was.
HttpHeartbeat ==
    /\ agent = "up"
    /\ row' = PushWorks(Heard(row))
    /\ Settled(Ended(row))
    /\ UNCHANGED <<throttled, hubVars, collector, world, told, unsaid>>

\* The handler of traffic, through UpdateRemoteServerLastActivity; throttled, it
\* neither reads nor writes.
HttpActivity ==
    /\ agent = "up"
    /\ ~throttled
    /\ row' = Heard(row)
    /\ throttled' = TRUE
    /\ Settled(EndOf(row))
    /\ UNCHANGED <<hubVars, collector, world, told, unsaid>>

----------------------------------------------------------------------------
(* The collector's round.                                                 *)

Step(from, to) ==
    /\ collector.at = from
    /\ collector' = [Idle EXCEPT !.at = to, !.taken = collector.taken]

\* MarkOfflineRemoteServers.
MarkOffline ==
    /\ Step("idle", "take")
    /\ row' = IF row.beat \in {"late", "old"} THEN Offline(row) ELSE row
    /\ UNCHANGED <<throttled, hubVars, world, history>>

\* TakeOfflineServersToNotify: SELECT ...
Take ==
    /\ collector.at = "take"
    /\ collector' = IF Announceable(row)
                    THEN [collector EXCEPT !.at = "update", !.taken = row.outage]
                    ELSE [collector EXCEPT !.at = "list"]
    /\ UNCHANGED <<row, throttled, hubVars, world, history>>

\* mutant: the UPDATE computes its cutoff anew
UpdateLate ==
    /\ Step("update", "tell")
    /\ row' = IF Announceable(row) THEN [row EXCEPT !.notified = TRUE] ELSE row
    /\ UNCHANGED <<throttled, hubVars, world, history>>

\* ... and UPDATE with the same cutoff, which an outage that began in between
\* does not meet. One that ended in between is announced all the same, and who
\* has read the row by now does not know of the notice.
Update ==
    LET hits == Announceable(row) /\ row.outage = collector.taken
    IN  /\ Step("update", "tell")
        /\ row' = IF hits THEN [row EXCEPT !.notified = TRUE] ELSE row
        /\ owed' = IF hits /\ ~\E c \in Conns : HasRead(c)
                    THEN owed \cup {row.outage} ELSE owed
        /\ UNCHANGED <<throttled, hubVars, world, told, unsaid>>

\* OnServerOffline.
Tell ==
    /\ collector.at = "tell"
    /\ told' = told \cup {collector.taken}
    /\ collector' = [collector EXCEPT !.at = "list", !.taken = 0]
    /\ UNCHANGED <<row, throttled, hubVars, world, unsaid, owed>>

List ==
    /\ collector.at = "list"
    /\ collector' = [Idle EXCEPT !.at = "visit", !.todo = Todo(row)]
    /\ UNCHANGED <<row, throttled, hubVars, world, history>>

\* The server is on a WebSocket, or there is nothing to do.
Pass ==
    /\ Step("visit", "idle")
    /\ hub # Nobody \/ collector.todo = "pass"
    /\ UNCHANGED <<row, throttled, hubVars, world, history>>

Visits(todo) == hub = Nobody /\ collector.todo = todo

\* CollectFromRemoteServer: an answer is an activity.
Pull ==
    /\ Visits("pull")
    /\ Step("visit", "idle")
    /\ IF agent # "down" THEN Activity ELSE UNCHANGED <<row, throttled, owed>>
    /\ UNCHANGED <<hubVars, world, told, unsaid>>

\* checkAndTriggerFallback.
Judge ==
    /\ Visits("count")
    /\ Step("visit", "count")
    /\ UNCHANGED <<row, throttled, hubVars, world, history>>

\* IncrementRemoteServerPushFailCount, in its three statements. Only whether
\* the count has reached the threshold is ever asked.
Count ==
    /\ Step("count", "decide")
    /\ row' = [row EXCEPT !.fails = IF @ < Threshold THEN @ + 1 ELSE @]
    /\ UNCHANGED <<throttled, hubVars, world, history>>

Decide ==
    /\ Step("decide", IF ~row.fallback /\ row.fails = Threshold
                      THEN "fall" ELSE "idle")
    /\ UNCHANGED <<row, throttled, hubVars, world, history>>

FallBack ==
    /\ Step("fall", "idle")
    /\ row' = [row EXCEPT !.fallback = TRUE]
    /\ UNCHANGED <<throttled, hubVars, world, history>>

----------------------------------------------------------------------------

\* The process ends and starts: the database stays.
Restart ==
    /\ Trouble
    /\ throttled' = FALSE
    /\ hub' = Nobody
    /\ conn' = [c \in Conns |-> IF conn[c] = Unused THEN Unused
                                ELSE [Unused EXCEPT !.at = "done"]]
    /\ sweep' = FALSE
    /\ collector' = Idle
    /\ unsaid' = unsaid \cup Telling
    /\ owed' = owed \ Due
    /\ UNCHANGED <<row, agent, told>>

Handler(c) ==
    \/ AuthRead(c) \/ AuthLoad(c) \/ AuthSwap(c) \/ AuthStore(c) \/ AuthBeat(c)
    \/ AuthReset(c) \/ CleanupLoad(c) \/ CleanupDelete(c) \/ CleanupMark(c)

Sweep == SweepClose \/ SweepDelete

Round == MarkOffline \/ Take \/ Update \/ Tell \/ List \/ Pass \/ Pull \/ Judge
         \/ Count \/ Decide \/ FallBack

Heartbeats == HttpHeartbeat \/ \E c \in Conns : WsHeartbeat(c)

Next ==
    \/ \E to \in {"up", "pullOnly", "down"} : AgentMoves(to)
    \/ \E c \in Conns : Accept(c) \/ Break(c) \/ Handler(c) \/ WsActivity(c)
    \/ BeatAges \/ SinceRipens \/ ThrottleEnds
    \/ Heartbeats \/ HttpActivity
    \/ Sweep \/ Round \/ Restart

Spec == Init /\ [][Next]_vars

\* The collector ticks, handlers run on, an agent that can reach the master
\* sends heartbeats, a connection it left meets its read deadline, and time
\* passes.
FairSpec ==
    /\ Spec
    /\ WF_vars(Round) /\ WF_vars(Heartbeats)
    /\ \A c \in Conns :
          WF_vars(Handler(c)) /\ WF_vars(agent # "up" /\ Break(c))
    /\ WF_vars(Unheard /\ BeatAges) /\ WF_vars(SinceRipens)
    /\ WF_vars(ThrottleEnds)

----------------------------------------------------------------------------
(* Properties                                                             *)

TypeOK ==
    /\ row \in Row
    /\ throttled \in BOOLEAN
    /\ hub \in Conns \cup {Nobody}
    /\ conn \in [Conns -> Conn]
    /\ sweep \in BOOLEAN
    /\ collector \in Collector
    /\ agent \in {"up", "pullOnly", "down"}
    /\ trouble \in 0..MaxTrouble
    /\ told \subseteq Nat /\ unsaid \subseteq Nat
    /\ owed \subseteq Nat

\* One offline notice per outage: what the collector is about to announce has
\* not been announced, whatever the handlers, late activities and restarts do
\* between its SELECT, its UPDATE and the notice.
OneNoticePerOutage == collector.taken # 0 => collector.taken \notin told

\* Why: an outage is announced, or in the hands of the collector, only as long
\* as its number is the row's own or an earlier one; while the row is still in
\* it, it is marked as notified, or will be by the UPDATE to come.
NoticeInv ==
    /\ row.status = "offline" => row.outage > 0
    /\ row.notified => row.status = "offline"
    /\ collector.taken # 0 <=> collector.at \in {"update", "tell"}
    /\ collector.taken <= row.outage
    /\ \A o \in told : o <= row.outage
    /\ row.status = "offline" /\ row.outage \in told => row.notified
    /\ row.status = "offline" /\ row.outage = collector.taken
          => IF collector.at = "tell" THEN row.notified ELSE row.since = "ripe"

\* The entry of the hub belongs to a goroutine between storing and deleting it.
HubInv ==
    hub # Nobody => conn[hub].at \in {"beat", "reset", "live", "delete"}

\* A notice the database calls sent was sent, is about to be, or died with
\* the process: no other interleaving swallows one.
NotifiedIsTold ==
    row.notified => \/ row.outage \in told
                    \/ collector.at = "tell" /\ collector.taken = row.outage
                    \/ row.outage \in unsaid

\* Outage o is over.
Over(o) == row.status = "connected" \/ o < row.outage

\* Notices come in pairs: the end of an outage that was announced is announced
\* too, unless the server came back by a way that says nothing, over a
\* connection that was not missed yet, or while the notice of the outage was
\* being written, or the process died; and a connection announces the end of no
\* outage nobody was told of, but of one whose notice died with the process.
NoticesPair ==
    /\ \A o \in owed : Over(o) => o \in Due
    /\ Due \subseteq Noticed

\* Why: what is owed was told, or will be; and who has read the row and not
\* written it yet will announce the end of the outage the row is in, if that is
\* owed.
PairInv ==
    /\ \A o \in owed : o <= row.outage
    /\ row.outage \in owed /\ row.status # "connected" => Missed(row)
    /\ \A c \in Conns :
          /\ HasRead(c) /\ row.outage \in owed /\ Missed(row)
                => conn[c].ends = row.outage
          /\ conn[c].ends \in Noticed

\* The hub never keeps a connection whose goroutine has ended: the master
\* would take the server for connected and stop pulling from it for good.
HubHasNoGhost == hub # Nobody => conn[hub].at # "done"

\* The conjunction is inductive.
LivenessInv == TypeOK /\ NoticeInv /\ OneNoticePerOutage /\ NotifiedIsTold
               /\ HubInv /\ NoticesPair /\ PairInv

\* A server whose agent can reach the master for good is shown connected for
\* good, whatever late cleanups, marks and rounds were under way.
AliveIsShown == <>[](agent = "up") => <>[](row.status = "connected")

\* A server that was there and has gone for good is shown offline, and its
\* notice is marked as sent.
GoneIsNotified ==
    <>[](agent = "down") =>
        <>[](row.status # "pending" => row.status = "offline" /\ row.notified)

\* A pull that succeeds counts as a heartbeat (collector.go), so that a server
\* that fell back to pull does not stay offline: one that is to be pulled for
\* good, and whose agent answers pulls, is shown connected again and again.
PulledIsShown ==
    <>[](Pulled(row) /\ agent = "pullOnly") => []<>(row.status = "connected")
=============================================================================
