---------------------------- MODULE LimiterPush ----------------------------
(***************************************************************************)
(* What the master pushes to the agents because of a package or a license: *)
(* the speed limits (limiter_config_push.go), which an agent keeps in      *)
(* memory only and replaces as a whole, and whether its xray may run       *)
(* (license_quota.go).  Every change starts a goroutine that reads the     *)
(* database again, builds the configuration of each server concerned and   *)
(* sends it; nobody orders these goroutines.                               *)
(*                                                                         *)
(* One inbound per server.  The agents, external, are embedded.            *)
(***************************************************************************)
EXTENDS License, Sequences, FiniteSets

CONSTANTS Names,      \* usernames
          MaxHosts,   \* servers, numbered in the order of ListRemoteServers
          Pushes,     \* goroutines that push at once
          Limits,     \* speed limits; 0 is unlimited
          What,       \* what this instance pushes: "limits" or "flags"
          Mishaps,    \* what else may happen: "drop" of a connection, "restart"
          MaxLine     \* bound: messages on a connection

ASSUME LimiterAssumption == /\ MaxHosts \in Nat /\ 0 \in Limits /\ Limits \subseteq Nat
                            /\ What \in {"limits", "flags"}
                            /\ Mishaps \subseteq {"drop", "restart"}
                            /\ MaxLine \in Nat

VARIABLES
  bound,    \* user_inbound_configs: <<name, host>>
  limit,    \* what resolveLimit finds for a user
  enabled,  \* users that exist and are active
  linked,   \* hosts whose agent is connected over the WebSocket
  table,    \* agent: its limiter, a function from names to limits
  flag,     \* agent: xray_authorized, which it keeps on disk
  line,     \* messages on the connection of a host, oldest first
  push,     \* per goroutine: [pc, kind, todo: hosts to go, host, load]
  why       \* history: why the limiter of a host may differ from the database

limiterVars == <<licenseVars, moves, bound, limit, enabled, linked, table, flag, line, push, why>>
recordVars  == <<bound, limit, enabled>>
agentVars   == <<linked, table, flag, line>>

Hosts  == 1..MaxHosts
Tables == UNION {[N -> Limits] : N \in SUBSET Names}
Empty  == [n \in {} |-> 0]

\* A message, or what a goroutine has built: a table, or a flag.
Load   == [to : {"limiter"}, table : Tables] \cup [to : {"xray"}, on : SUBSET Hosts]
NoLoad == [to |-> "limiter", table |-> Empty]

Blames == {"overtaken", "lost", "forgotten", "empty", "unannounced", "restarted"}
Push   == [pc : {"idle", "start", "next", "send", "http"},
           kind : {"none", "server", "user", "package", "all", "revoke", "quota", "flag"},
           who : Names \cup {"nobody"}, todo : SUBSET Hosts, host : 0..MaxHosts, load : Load]
NoPush   == [pc |-> "idle", kind |-> "none", who |-> "nobody", todo |-> {}, host |-> 0,
           load |-> NoLoad]

LimiterTypeOK ==
    /\ LicenseTypeOK
    /\ bound \subseteq Names \X Hosts /\ limit \in [Names -> Limits]
    /\ enabled \subseteq Names /\ linked \subseteq Hosts
    /\ table \in [Hosts -> Tables] /\ flag \in [Hosts -> BOOLEAN]
    /\ line \in [Hosts -> Seq(Load)] /\ \A h \in Hosts \ linked : line[h] = <<>>
    /\ why \in [Hosts -> SUBSET Blames]
    /\ push \in [Pushes -> Push]

-----------------------------------------------------------------------------
(* What an agent should have *)

\* BuildLimiterConfigForServer: its users with a row here that are active.
Built(h) == [n \in {m \in enabled : <<m, h>> \in bound} |-> limit[n]]

\* RevokeAllEmbeddedServers: the same, with every limit zero.
Zeroed(t) == [n \in DOMAIN t |-> 0]

NoLimitIn(t) == \A n \in DOMAIN t : t[n] = 0

\* serverAuthMap.
Authorized(h) == h <= ServerQuota(license)

\* The limiter a host should have now.
Right(h, t) == IF HasLimiter(license) THEN t = Built(h) ELSE NoLimitIn(t)

\* A quiet moment.
LimiterInit ==
    /\ LicenseInit
    /\ bound \in SUBSET (Names \X Hosts) /\ limit \in [Names -> Limits] /\ enabled = Names
    /\ linked = Hosts
    /\ table = [h \in Hosts |-> IF HasLimiter(license) THEN Built(h) ELSE Empty]
    /\ flag = [h \in Hosts |-> Authorized(h)]
    /\ line = [h \in Hosts |-> <<>>]
    /\ push = [p \in Pushes |-> NoPush] /\ why = [h \in Hosts |-> {}]

\* A goroutine starts.
Launch(p, kind, who, todo) ==
    /\ push[p].pc = "idle"
    /\ push' = [push EXCEPT ![p] = [NoPush EXCEPT !.pc = "start", !.kind = kind, !.who = who,
                                                !.todo = todo]]

Blame(hosts, cause) == why' = [h \in Hosts |-> IF h \in hosts THEN why[h] \cup {cause} ELSE why[h]]

-----------------------------------------------------------------------------
(* Changes of the database, each followed by a push *)

Change == What = "limits" /\ Move

Only(n, p) == Launch(p, "user", n, {})

\* NewUserLimitsHandler and NewUserNodeLimitsHandler: a limit needs the feature.
SetLimit(n, v, p) ==
    /\ Change
    /\ v # limit[n] /\ (v > 0 => HasLimiter(license))
    /\ limit' = [limit EXCEPT ![n] = v]
    /\ Only(n, p)
    /\ UNCHANGED <<licenseVars, bound, enabled, agentVars, why>>

\* PackageUpdateHandler, for the package of all.
SetPackageLimit(v, p) ==
    /\ Change
    /\ v > 0 => HasLimiter(license)
    /\ limit' = [n \in Names |-> v] /\ limit' # limit
    /\ Launch(p, "package", "nobody", {})
    /\ UNCHANGED <<licenseVars, bound, enabled, agentVars, why>>

\* AssignAndProvision: the rows, however many calls they take, then the push.
Provision(n, p) ==
    /\ Change
    /\ \E h \in Hosts : <<n, h>> \notin bound
    /\ bound' = bound \cup ({n} \X Hosts)
    /\ Only(n, p)
    /\ UNCHANGED <<licenseVars, limit, enabled, agentVars, why>>

\* NewUserStatusHandler.
Toggle(n, p) ==
    /\ Change
    /\ enabled' = IF n \in enabled THEN enabled \ {n} ELSE enabled \cup {n}
    /\ Only(n, p)
    /\ UNCHANGED <<licenseVars, bound, limit, agentVars, why>>

\* PackageUnassignHandler, unbindUserPackage, NewUserDeleteHandler and the
\* expiry of CheckAll: the rows are dropped, then the push looks for them.
Withdraw(n, p) ==
    /\ Change
    /\ \E h \in Hosts : <<n, h>> \in bound
    /\ bound' = bound \ ({n} \X Hosts)
    /\ Only(n, p)
    /\ Blame({h \in Hosts : <<n, h>> \in bound}, "forgotten")
    /\ UNCHANGED <<licenseVars, limit, enabled, agentVars>>

-----------------------------------------------------------------------------
(* A push *)

Steps(p, from) == push[p].pc = from

\* A goroutine is done with host h, and over when no host is left.
After(g, h) == IF g.todo \subseteq {h} THEN NoPush
               ELSE [g EXCEPT !.pc = "next", !.todo = @ \ {h}, !.host = 0]

Flags(p) == push[p].kind \in {"quota", "flag"}

\* The servers of a push: given, all, or those where the user has a row.
HostsOf(g) ==
    CASE g.kind \in {"server", "flag"} -> g.todo
      [] g.kind = "user" -> {h \in Hosts : <<g.who, h>> \in bound}
      [] g.kind = "package" -> {h \in Hosts : \E n \in Names : <<n, h>> \in bound}
      [] OTHER -> Hosts

\* The gate of PushToAllServersForUser and the like; ReconcileServerQuota
\* and reconcileOne decide about their servers here.
Begin(p) ==
    /\ Steps(p, "start")
    /\ LET g == push[p] IN
       push' = [push EXCEPT ![p] =
          IF \/ g.kind \in {"user", "package", "all"} /\ ~HasLimiter(license)
             \/ HostsOf(g) = {}
          THEN NoPush
          ELSE [g EXCEPT !.pc = "next", !.todo = HostsOf(g),
                         !.load = IF Flags(p)
                                  THEN [to |-> "xray", on |-> {h \in Hosts : Authorized(h)}]
                                  ELSE NoLoad]]
    /\ UNCHANGED <<licenseVars, recordVars, agentVars, why, moves>>

\* PushToServer, or one round of RevokeAllEmbeddedServers, up to the connection.
Turn(p, h) ==
    /\ Steps(p, "next") /\ h \in push[p].todo /\ ~Flags(p)
    /\ LET g == push[p]
           t == IF g.kind = "revoke" THEN Zeroed(Built(h)) ELSE Built(h)
           skips == t = Empty \/ (g.kind # "revoke" /\ ~HasLimiter(license))
       IN  /\ push' = [push EXCEPT ![p] =
                IF skips THEN After(g, h)
                ELSE [g EXCEPT !.pc = IF h \in linked THEN "send" ELSE "http", !.host = h,
                               !.load = [NoLoad EXCEPT !.table = t]]]
           /\ IF t = Empty THEN Blame({h}, "empty") ELSE UNCHANGED why
    /\ UNCHANGED <<licenseVars, recordVars, agentVars, moves>>

\* SendLimiterConfig looks for the connection again.
Send(p) ==
    /\ Steps(p, "send")
    /\ LET h == push[p].host
           m == push[p].load
       IN  IF h \in linked
           THEN /\ Len(line[h]) < MaxLine
                /\ line' = [line EXCEPT ![h] = Append(@, m)]
                /\ IF Right(h, m.table) THEN UNCHANGED why ELSE Blame({h}, "overtaken")
           ELSE /\ Blame({h}, "lost")
                /\ UNCHANGED line
    /\ push' = [push EXCEPT ![p] = After(@, @.host)]
    /\ UNCHANGED <<licenseVars, recordVars, linked, table, flag, moves>>

\* The write fails: the socket is gone and the hub does not know it yet.
SendFails(p) ==
    /\ Steps(p, "send") /\ push[p].host \in linked
    /\ "drop" \in Mishaps /\ Move
    /\ push' = [push EXCEPT ![p].pc = "http"]
    /\ UNCHANGED <<licenseVars, recordVars, agentVars, why>>

\* pushViaHTTP.
Post(p) ==
    /\ Steps(p, "http")
    /\ LET h == push[p].host
           t == push[p].load.table
       IN  \/ /\ table' = [table EXCEPT ![h] = t]
              /\ IF Right(h, t) /\ line[h] = <<>> THEN why' = [why EXCEPT ![h] = {}]
                                                  ELSE Blame({h}, "overtaken")
           \/ /\ Blame({h}, "lost")
              /\ UNCHANGED table
    /\ push' = [push EXCEPT ![p] = After(@, @.host)]
    /\ UNCHANGED <<licenseVars, recordVars, linked, flag, line, moves>>

\* SendConfigUpdate: to the connected only.
SendFlag(p, h) ==
    /\ Steps(p, "next") /\ h \in push[p].todo /\ Flags(p)
    /\ h \in linked => Len(line[h]) < MaxLine
    /\ line' = IF h \in linked THEN [line EXCEPT ![h] = Append(@, push[p].load)] ELSE line
    /\ push' = [push EXCEPT ![p] = After(@, h)]
    /\ UNCHANGED <<licenseVars, recordVars, linked, table, flag, why, moves>>

-----------------------------------------------------------------------------
(* The license, and the connections *)

\* main.go: what the callbacks start.
CallbackKind(c) == CASE c = "recover" -> "all" [] c = "lost" -> "revoke" [] c = "quota" -> "quota"

RunCallback(c, p) ==
    /\ c \in due
    /\ due' = due \ {c}
    /\ Launch(p, CallbackKind(c), "nobody", {})
    /\ UNCHANGED <<license, saved, ask, verdict, recordVars, agentVars, why, moves>>

\* The limiter comes or goes and parseResponse cannot see that: grace ends, an
\* upgrade, a grace that is given back, an answer compared before another one.
Unannounced ==
    \/ GraceEnds /\ HasLimiter(license) /\ ~HasLimiter(license')
    \/ \E a \in Asks :
          /\ Finish(a)
          /\ CASE ask[a].turn = "gained" -> ask[a].had.valid \/ ask[a].answer \notin Plans
               [] ask[a].turn = "lost"   -> ~ask[a].had.limiter
               [] OTHER -> FALSE

LicenseMoves ==
    /\ LicenseStep
    /\ IF Unannounced THEN Blame(Hosts, "unannounced") ELSE UNCHANGED why
    /\ UNCHANGED <<recordVars, agentVars, push>>

\* The agent handles the oldest message.
Deliver(h) ==
    /\ line[h] # <<>>
    /\ line' = [line EXCEPT ![h] = Tail(@)]
    /\ LET m == Head(line[h]) IN
       IF m.to = "limiter"
       THEN /\ table' = [table EXCEPT ![h] = m.table]
            /\ why' = IF Right(h, m.table) /\ line'[h] = <<>> THEN [why EXCEPT ![h] = {}] ELSE why
            /\ UNCHANGED flag
       ELSE /\ flag' = [flag EXCEPT ![h] = h \in m.on]
            /\ UNCHANGED <<table, why>>
    /\ UNCHANGED <<licenseVars, recordVars, linked, push, moves>>

\* The connection ends, with what was on it; perhaps the agent restarts.
Drop(h) ==
    /\ h \in linked /\ "drop" \in Mishaps /\ Move
    /\ linked' = linked \ {h} /\ line' = [line EXCEPT ![h] = <<>>]
    /\ \/ UNCHANGED table
       \/ table' = [table EXCEPT ![h] = Empty]
    /\ IF line[h] = <<>> THEN UNCHANGED why ELSE Blame({h}, "lost")
    /\ UNCHANGED <<licenseVars, recordVars, flag, push>>

\* handleAuth: a push to this server, if the license allows it, and its flag.
Connect(h, p) ==
    /\ h \notin linked
    /\ linked' = linked \cup {h}
    /\ IF What = "limits" /\ HasLimiter(license)
       THEN Launch(p, "server", "nobody", {h}) /\ why' = [why EXCEPT ![h] = {}]
       ELSE /\ IF What = "flags" THEN Launch(p, "flag", "nobody", {h}) ELSE UNCHANGED push
            /\ UNCHANGED why
    /\ UNCHANGED <<licenseVars, recordVars, table, flag, line, moves>>

\* mutant: only events push the quota
NoTick(p) == FALSE

\* The five-minute ticker, and requests that add, delete or move a server.
Tick(p) ==
    /\ What = "flags"
    /\ Launch(p, "quota", "nobody", {})
    /\ UNCHANGED <<licenseVars, recordVars, agentVars, why, moves>>

\* The process ends with its goroutines and connections.
PanelRestarts ==
    /\ "restart" \in Mishaps
    /\ LicenseRestarts
    /\ push' = [p \in Pushes |-> NoPush]
    /\ linked' = {} /\ line' = [h \in Hosts |-> <<>>]
    /\ Blame(Hosts, "restarted")
    /\ UNCHANGED <<recordVars, table, flag>>

LimiterNext ==
    \/ \E p \in Pushes :
          \/ \E n \in Names : \/ \E v \in Limits : SetLimit(n, v, p)
                             \/ Provision(n, p) \/ Toggle(n, p) \/ Withdraw(n, p)
          \/ \E v \in Limits : SetPackageLimit(v, p)
          \/ \E h \in Hosts : Turn(p, h) \/ SendFlag(p, h) \/ Connect(h, p)
          \/ Begin(p) \/ Send(p) \/ SendFails(p) \/ Post(p) \/ Tick(p)
          \/ \E c \in Callbacks : RunCallback(c, p)
    \/ LicenseMoves \/ PanelRestarts
    \/ \E h \in Hosts : Deliver(h) \/ Drop(h)

LimiterSpec == LimiterInit /\ [][LimiterNext]_limiterVars

PushSteps(p) == \/ Begin(p) \/ Send(p) \/ Post(p)
                \/ \E h \in Hosts : Turn(p, h) \/ SendFlag(p, h)

\* Goroutines run, the ticker of main.go ticks, a connection delivers.
FairLimiterSpec ==
    /\ LimiterSpec
    /\ \A p \in Pushes : WF_limiterVars(PushSteps(p))
    /\ WF_limiterVars(\E p \in Pushes : Tick(p))
    /\ \A h \in Hosts : WF_limiterVars(Deliver(h))

-----------------------------------------------------------------------------
(* Properties *)

\* Nothing is on its way to the agent of h.
Calm(h) == /\ \A p \in Pushes : push[p].pc = "idle"
           /\ \A a \in Asks : ask[a].pc = "idle"
           /\ due = {} /\ line[h] = <<>>

\* Once everything is quiet a connected agent limits whom the database says, or
\* whom it should not at all, for a known reason only: an older push arrived
\* last, a push was lost with its connection or over HTTP, the rows of a user
\* were gone before the push looked for them, nothing was left to send, or the
\* license changed in a way parseResponse does not announce.  Every change has
\* its push, every loss of the feature its revocation, and a connection brings
\* the whole (PushToAllServersForUser, RevokeAllEmbeddedServers, handleAuth).
StaleLimitIsExplained ==
    \A h \in linked : Calm(h) => Right(h, table[h]) \/ why[h] # {}

\* A connected agent's xray may run in the end exactly if its server is within
\* the quota of the license, whatever was lost on the way, and although a grace
\* period that ends tells nobody (ReconcileServerQuota and its ticker).
QuotaIsObeyed ==
    \A h \in Hosts : (h \in linked /\ flag[h] # Authorized(h))
                        ~> (h \notin linked \/ flag[h] = Authorized(h))

\* What the comments of CheckAll and of NewUserDeleteHandler say: the push after
\* a user lost its rows makes the limiter of every agent forget it.
RemovedIsForgotten ==
    \A h \in linked : Calm(h) => \A n \in DOMAIN table[h] : <<n, h>> \in bound
=============================================================================
