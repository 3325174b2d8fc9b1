------------------------------ MODULE Snapshots ------------------------------
(***************************************************************************)
(* What the panel remembers of an agent's xray configuration.  Every write *)
(* of the panel is followed by a goroutine that fetches the file and makes *)
(* it the current snapshot; every connection starts one that compares: the *)
(* file of a server that was offline waits for the admin as a pending      *)
(* recovery, or is replaced by the current snapshot if the admin asked for *)
(* that; otherwise it becomes the current snapshot.                        *)
(*                                                                         *)
(* One server of this panel is modelled.  A configuration is the set of    *)
(* what is in it; two texts of one content count as the same.              *)
(***************************************************************************)
EXTENDS Integers, FiniteSets

CONSTANTS Tags,       \* inbounds and outbounds, which have a tag
          Rules,      \* routing rules, which have none
          Deprecated, \* rules that newer versions take out
          Errands,    \* goroutines and requests
          MaxEvents   \* bound: changes of the machine, the network, the database

ASSUME SnapshotAssumption == /\ Tags \cap Rules = {} /\ Deprecated \subseteq Rules
                             /\ MaxEvents \in Nat

VARIABLES
  machine,  \* agent: its configuration file
  reach,    \* the agent is connected over the WebSocket
  status,   \* the server's row: its status
  current,  \* snapshots of the server that are current: one at most
  pending,  \* ... that await a decision: one at most
  older,    \* ... that were current
  expect,   \* expectRecoveryFlags, in memory
  errand,   \* [at, kind, prev: status before the connection, copy]
  events,   \* (bound) what has happened
  drift,    \* (history) why no snapshot may be what the file is
  lost,     \* (history) the current snapshot when the machine was replaced
  decided,  \* (history) what has come between it and the admin's decision
  kept,     \* (history) tags somebody added and nobody took off
  between   \* (history) something was added while a restoration was under way

snapVars == <<machine, reach, status, current, pending, older, expect, errand,
              events, drift, lost, decided, kept, between>>
rowVars  == <<current, pending, older>>
tellVars == <<drift, lost, decided, kept, between>>

Configs == SUBSET (Tags \cup Rules)
One(S)  == {{}} \cup {{c} : c \in S}

Errand == [at : {"idle", "fetch", "store", "put", "restart", "discard"},
           kind : {"none", "sync", "refresh", "apply", "restore"},
           prev : {"pending", "connected", "offline"}, copy : Configs]
NoErrand == [at |-> "idle", kind |-> "none", prev |-> "pending", copy |-> {}]

Causes == {"edited", "unrecorded", "unanswered", "overtaken", "unrestored", "discarded",
           "accepted"}

SnapTypeOK ==
    /\ machine \in Configs /\ reach \in BOOLEAN
    /\ status \in {"pending", "connected", "offline"}
    /\ current \in One(Configs) /\ pending \in One(Configs) /\ older \subseteq Configs
    /\ expect \in BOOLEAN /\ errand \in [Errands -> Errand] /\ events \in 0..MaxEvents
    /\ drift \subseteq Causes /\ lost \in One(Configs)
    /\ decided \subseteq {"unnoticed", "written", "underway"}
    /\ kept \subseteq Tags /\ between \in BOOLEAN

SnapInit ==
    /\ machine = {} /\ reach = FALSE /\ status = "pending"
    /\ current = {} /\ pending = {} /\ older = {}
    /\ expect = FALSE /\ errand = [t \in Errands |-> NoErrand] /\ events = 0
    /\ drift = {} /\ lost = {} /\ decided = {} /\ kept = {} /\ between = FALSE

-----------------------------------------------------------------------------

Event == events < MaxEvents /\ events' = events + 1

IsAt(t, place, kinds) == errand[t].at = place /\ errand[t].kind \in kinds
IsOver(t)  == errand' = [errand EXCEPT ![t] = NoErrand]
Holds(t) == errand[t].at = "store"

\* A goroutine starts, to fetch the file.
Fetching(kind, prev) == [NoErrand EXCEPT !.at = "fetch", !.kind = kind, !.prev = prev]

Drifts(why) == drift' = drift \cup why

\* Among ts, a sync has read the file and may write it.
Restoring(ts) == \E t \in ts : IsAt(t, "store", {"sync"}) \/ IsAt(t, "put", {"sync"})

\* A copy taken before the file changed is still to be stored.
Overtaken == IF \E t \in Errands : Holds(t) THEN {"overtaken"} ELSE {}

\* mutant: the agent's own entries are not merged
BaseOnly(base, has) == base

\* mergeAgentOnlyInboundsOutbounds.
Merge(base, has) == base \cup (has \cap Tags)

-----------------------------------------------------------------------------
(* The machine and the network (external), and the server's row *)

Disconnect ==
    /\ reach /\ Event
    /\ reach' = FALSE
    /\ UNCHANGED <<machine, status, rowVars, expect, errand, tellVars>>

\* MarkRemoteServerOfflineByID and MarkOfflineRemoteServers; the cleanup of an
\* older connection may come late.
GoesOffline ==
    /\ status = "connected"
    /\ IF reach THEN Event ELSE UNCHANGED events
    /\ status' = "offline"
    /\ UNCHANGED <<machine, reach, rowVars, expect, errand, tellVars>>

\* A heartbeat, or a report over HTTP of an agent that is not connected.
ComesOnline ==
    /\ status = "offline"
    /\ IF reach THEN UNCHANGED events ELSE Event
    /\ status' = "connected"
    /\ UNCHANGED <<machine, reach, rowVars, expect, errand, tellVars>>

\* Another machine, or a new installation, with a configuration that is empty.
Reinstall ==
    /\ machine # {} /\ Event
    /\ machine' = {} /\ reach' = FALSE
    /\ lost' = current
    /\ decided' = IF \E t \in Errands : errand[t] # NoErrand THEN {"underway"} ELSE {}
    /\ kept' = {}
    /\ Drifts(Overtaken)
    /\ UNCHANGED <<status, rowVars, expect, errand, between>>

\* Somebody edits the file on the machine, or the agent does by itself.
Edit(c) ==
    /\ c # machine /\ Event
    /\ machine' = c
    /\ kept' = c \cap Tags
    /\ between' = (between \/ Restoring(Errands))
    /\ Drifts({"edited"})
    /\ UNCHANGED <<reach, status, rowVars, expect, errand, lost, decided>>

\* mutant: the status is read after the heartbeat
StatusAfter == "connected"

\* handleAuth reads the row before its heartbeat makes it connected.
StatusBefore == status

\* handleAuth, up to xrayConfigSyncCallback; perhaps over a living connection.
Reconnect(t) ==
    /\ errand[t] = NoErrand
    /\ IF reach THEN Event ELSE UNCHANGED events
    /\ reach' = TRUE /\ status' = "connected"
    /\ errand' = [errand EXCEPT ![t] = Fetching("sync", StatusBefore)]
    /\ decided' = IF status # "offline" THEN decided \cup {"unnoticed"} ELSE decided
    /\ UNCHANGED <<machine, rowVars, expect, drift, lost, kept, between>>

-----------------------------------------------------------------------------
(* Writes of the panel *)

\* mutant: a write is not followed by a refresh
NoHook(t) == UNCHANGED errand

\* forwardToRemoteServer's deferred function, after a write that succeeded.
Hook(t) == /\ errand[t] = NoErrand
           /\ errand' = [errand EXCEPT ![t] = Fetching("refresh", "pending")]

\* Any command under xrayMutatingPathPrefixes that adds or takes off one thing,
\* of this panel or of one that shares the server.
MasterWrite(x, t) ==
    /\ reach /\ Event
    /\ machine' = IF x \in machine THEN machine \ {x} ELSE machine \cup {x}
    /\ kept' = IF x \in machine THEN kept \ {x} ELSE kept \cup ({x} \cap Tags)
    /\ between' = (between \/ Restoring(Errands))
    /\ decided' = decided \cup {"written"}
    /\ \/ Hook(t) /\ Drifts(Overtaken)
       \/ UNCHANGED errand /\ Drifts({"unanswered"})
    /\ UNCHANGED <<reach, status, rowVars, expect, lost>>

-----------------------------------------------------------------------------
(* refreshXraySnapshot and SyncXrayConfigOnReconnect *)

\* GET /api/child/xray/config, which may fail.
FetchFile(t) ==
    /\ errand[t].at = "fetch"
    /\ \/ /\ reach
          /\ errand' = [errand EXCEPT ![t].at = "store", ![t].copy = machine]
          /\ UNCHANGED drift
       \/ IsOver(t) /\ Drifts({"unrecorded"})
    /\ UNCHANGED <<machine, reach, status, rowVars, expect, events, lost, decided, kept, between>>

\* What a snapshot that has just been stored settles.
Settles(t) ==
    drift' = IF errand[t].copy = machine /\ \A u \in Errands \ {t} : ~Holds(u)
             THEN {} ELSE drift

\* UpsertCurrentXraySnapshot.
StoreCurrent(t) ==
    /\ Holds(t)
    /\ IsAt(t, "store", {"sync"}) => errand[t].prev # "offline"
    /\ current' = {errand[t].copy}
    /\ older' = older \cup (current \ current')
    /\ Settles(t)
    /\ IsOver(t)
    /\ UNCHANGED <<machine, reach, status, pending, expect, events, lost, decided, kept, between>>

WasOffline(t) == IsAt(t, "store", {"sync"}) /\ errand[t].prev = "offline"

\* The database does not store the copy: it is logged, and nobody tries again.
StoreFails(t) ==
    /\ Holds(t)
    /\ WasOffline(t) => ~expect
    /\ IsOver(t)
    /\ Drifts({"unrecorded"})
    /\ UNCHANGED <<machine, reach, status, rowVars, expect, events, lost, decided, kept, between>>

\* WritePendingXrayRecovery, which leaves an older one alone when the file is
\* what is current.
StorePending(t) ==
    /\ WasOffline(t) /\ ~expect
    /\ pending' = IF current = {errand[t].copy} THEN pending ELSE {errand[t].copy}
    /\ IF \E u \in Errands : IsAt(u, "restart", {"apply"}) \/ IsAt(u, "discard", {"apply"})
       THEN Drifts({"discarded"}) ELSE Settles(t)
    /\ IsOver(t)
    /\ UNCHANGED <<machine, reach, status, current, older, expect, events, lost, decided, kept,
                   between>>

\* consumeExpectRecovery: what is to be written is chosen, if the current
\* snapshot can be read and there is one.
TakeFlag(t) ==
    /\ WasOffline(t) /\ expect
    /\ expect' = FALSE
    /\ \/ IsOver(t) /\ Drifts({"unrestored"})
       \/ /\ current # {}
          /\ errand' = [errand EXCEPT ![t].at = "put",
                           ![t].copy = Merge(CHOOSE c \in current : TRUE, errand[t].copy)]
          /\ UNCHANGED drift
    /\ UNCHANGED <<machine, reach, status, rowVars, events, lost, decided, kept, between>>

-----------------------------------------------------------------------------
(* Writing a whole configuration: test-config, then the file *)

\* A restoration by an admin says what is to be there.
Meant(t) == IF errand[t].kind = "sync" THEN kept ELSE errand[t].copy \cap Tags

\* The test refuses it, or a call fails before the agent writes.
PutRefused(t) ==
    /\ errand[t].at = "put"
    /\ IsOver(t)
    /\ Drifts(IF errand[t].kind = "sync" THEN {"unrestored"} ELSE {})
    /\ UNCHANGED <<machine, reach, status, rowVars, expect, events, lost, decided, kept, between>>

\* The agent writes; u is the refresh.  A sync is over then.
Put(t, u) ==
    /\ errand[t].at = "put" /\ reach
    /\ machine' = errand[t].copy
    /\ kept' = Meant(t)
    /\ between' = (between \/ Restoring(Errands \ {t}))
    /\ decided' = decided \cup {"written"}
    /\ IF errand[t].kind = "sync"
       THEN u = t /\ errand' = [errand EXCEPT ![t] = Fetching("refresh", "pending")]
       ELSE /\ errand[u] = NoErrand
            /\ errand' = [errand EXCEPT ![t].at = "restart",
                                        ![u] = Fetching("refresh", "pending")]
    /\ Drifts(Overtaken)
    /\ UNCHANGED <<reach, status, rowVars, expect, events, lost>>

\* The agent writes and its answer is lost.
PutUnanswered(t) ==
    /\ errand[t].at = "put" /\ reach
    /\ machine' = errand[t].copy
    /\ kept' = Meant(t)
    /\ between' = (between \/ Restoring(Errands \ {t}))
    /\ IsOver(t)
    /\ Drifts({"unanswered"})
    /\ UNCHANGED <<reach, status, rowVars, expect, events, lost, decided>>

-----------------------------------------------------------------------------
(* XraySnapshotHandler *)

\* handleExpectRecovery.
ExpectRecovery ==
    /\ ~expect /\ Event
    /\ expect' = TRUE
    /\ UNCHANGED <<machine, reach, status, rowVars, errand, tellVars>>

Applies(t, kind, c) ==
    /\ errand[t] = NoErrand /\ Event
    /\ errand' = [errand EXCEPT ![t] = [NoErrand EXCEPT !.at = "put", !.kind = kind, !.copy = c]]
    /\ UNCHANGED <<machine, reach, status, rowVars, expect, tellVars>>

\* handleRecoveryApply.
RecoveryApply(t) == \E c \in current : Applies(t, "apply", c)

\* handleRestore.
Restore(t) == \E c \in current \cup pending \cup older : Applies(t, "restore", c)

\* restartXrayWithRecovery, which may fail.
RestartAfterPut(t) ==
    /\ errand[t].at = "restart"
    /\ \/ /\ errand[t].kind = "apply"
          /\ errand' = [errand EXCEPT ![t].at = "discard"]
       \/ IsOver(t)
    /\ UNCHANGED <<machine, reach, status, rowVars, expect, events, tellVars>>

\* DiscardPendingXrayRecovery, whose error is dropped.
Discard(t) ==
    /\ errand[t].at = "discard"
    /\ pending' = {} \/ UNCHANGED pending
    /\ IsOver(t)
    /\ UNCHANGED <<machine, reach, status, current, older, expect, events, tellVars>>

\* handleRecoveryAccept, AcceptPendingXrayRecovery.
Accept ==
    /\ pending # {}
    /\ current' = pending /\ pending' = {}
    /\ older' = older \cup current
    /\ lost' = {}
    /\ Drifts(IF pending = {machine} THEN {} ELSE {"accepted"})
    /\ UNCHANGED <<machine, reach, status, expect, errand, events, decided, kept, between>>

-----------------------------------------------------------------------------

\* stripDeprecatedRoutingRules.
Stripped(S) == {c \ Deprecated : c \in S}

\* The process ends; when it starts MigrateRemoveDeprecatedRulesFromSnapshots
\* runs, and drops a pending recovery that has become the current one.
MasterRestart ==
    /\ Event
    /\ reach' = FALSE /\ expect' = FALSE
    /\ errand' = [t \in Errands |-> NoErrand]
    /\ current' = Stripped(current)
    /\ pending' = Stripped(pending) \ current'
    /\ lost' = Stripped(lost)
    /\ UNCHANGED <<machine, status, older, drift, decided, kept, between>>

SnapNext ==
    \/ Disconnect \/ GoesOffline \/ ComesOnline \/ Reinstall
    \/ \E c \in Configs : Edit(c)
    \/ \E t \in Errands :
          \/ Reconnect(t) \/ FetchFile(t) \/ StoreCurrent(t) \/ StorePending(t) \/ StoreFails(t)
          \/ TakeFlag(t)
          \/ \E x \in Tags \cup Rules : MasterWrite(x, t)
          \/ PutRefused(t) \/ \E u \in Errands : Put(t, u)
          \/ PutUnanswered(t) \/ RecoveryApply(t) \/ Restore(t) \/ RestartAfterPut(t) \/ Discard(t)
    \/ ExpectRecovery \/ Accept \/ MasterRestart

SnapSpec == SnapInit /\ [][SnapNext]_snapVars

-----------------------------------------------------------------------------
(* Properties *)

AllQuiet == reach /\ \A t \in Errands : errand[t] = NoErrand

\* Once everything is quiet a snapshot shows what is in the file of a connected
\* agent, or there is a known reason: an edit behind the panel's back, a file
\* that could not be read or stored, a write without an answer, a copy that was older than
\* the file, a restoration that failed, a pending recovery discarded or accepted
\* late.  That the process ended is none: the connections after it compare
\* (the hook of forwardToRemoteServer, SyncXrayConfigOnReconnect).
SnapshotIsExplained ==
    AllQuiet => machine \in current \cup pending \/ drift # {}

\* The configuration of a machine that was replaced stays the current one until
\* the admin decides, unless the new machine is connected while the row does not
\* say offline, the panel writes to it, or something was already under way
\* (SyncXrayConfigOnReconnect: a server that was offline does not touch current).
LostConfigIsKept == lost # {} => current = lost \/ decided # {}

\* No restoration the panel starts by itself takes an inbound off the agent that
\* somebody added, unless it was added while the restoration was under way
\* (mergeAgentOnlyInboundsOutbounds).
SharedInboundStays == kept \subseteq machine \/ between
=============================================================================
