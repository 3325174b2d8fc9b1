# miaomiaowuX: the verification development

miaomiaowuX is a master that manages xray servers: an agent on every server
reports traffic and applies configuration, the master keeps the accounts, their
packages, their clients on the servers, the nodes it shows and the bills in one
SQLite database. This directory holds TLA+ models of the parts where concurrency
and failure decide whether the books are right and whether the panel shows what
the agents run, the TLC configurations that check them on small instances, and
machine-checked proofs of their safety.

## 1. Inventory

The master is one Go process. Its state is the database, a handful of
in-memory caches and sessions, and whatever the agents hold. Requests of the
admin, messages of the agents, events of its own bus and a dozen tickers run as
goroutines of their own; few of them share a lock, and none holds a lock of the
database across a call to an agent. An agent may be the same program run as a
child, which edits its own xray.

| Component | State | Operations | Talks to | What is hard |
|---|---|---|---|---|
| Traffic ledger (`internal/traffic`, `storage/traffic.go`) | `user_email_traffic` and `node_traffic` rows with `last_*` baselines; the restart detector's map | `ProcessRemoteMetrics`, `UpsertTrafficBatch`, `CheckAndUpdate` | reports from the WebSocket, the HTTP endpoint and the puller; `xray_boot_time` from heartbeats | cumulative counters restart at zero; restart is learnt through another channel; the detector is lost with the process and moves before the batch commits |
| Billing and cycles (same files, `traffic_attrib.go`) | weighted columns, `user_traffic`, cycle baselines | pricing within the batch, `ResetUserTrafficCycle`, `GetUserBillableTraffic` | enforcer, panels, snapshots | two tables must tell one story; attribution may be unavailable for one report |
| Traffic limit enforcer | `users.is_over_limit`, package columns | `CheckAll` on a ticker | billing, agents, notifications | decides on a list that ages while agents answer; partial failure |
| Packages, users | `users`, `user_inbound_configs` | assign, unassign, enable, disable, create, delete | agents | long series of remote calls interleaved with everybody else's |
| Inbound client reconciler, orphan cleaner, snapshots | `server_xray_config_snapshots` | daily runs, refresh | agents | act on a stale copy of what the agents have |
| Credentials of a user on an inbound | `user_inbound_configs` payloads, the inbound cache | `getOrCreateInboundCredential`, batch apply, the backfiller, the migrator | packages, agents | two creators of one credential, of which only some hold its lock |
| Server liveness, notifications | `remote_servers.status`, `last_heartbeat`, push failure counts, activity throttle | heartbeat, activity, offline marking, push to pull fallback, debounce | hub, puller, event bus | timeouts racing late messages |
| WebSocket hub and RPC | connection map, pending calls, streams | auth, replace, cleanup, call, stream, reply, timeout | agents, everyone above | fast reconnects, replies after a timeout, full channels, fallback to HTTP for what may have run already |
| Secure channel (`internal/securechan`) | send counter, replay window, sessions per token | seal, open, negotiate | RPC, federation | lost sessions, envelopes of an earlier session |
| Federation (`federation.go`, `server_share.go`) | shares, recorded inbounds, sessions of both panels | forwarded commands, scope, revocation | other masters, agents | revoking while a command runs; answers that look like a lost session |
| Routed outbounds, subaccounts | routed nodes, `user_subaccounts`; clients, outbounds and rules on the agent | create, delete, suspend, resume, members | packages, enforcer, agents | rules removed by index, whole lists written back, partial failure |
| Nodes and inbounds (`nodes.go`, `event/listeners.go`, `storage/nodes.go`) | `nodes` rows | requests on inbounds with their events, scans, relays, edits, deletions | agents, event bus | every event in a goroutine of its own, whole-row writes from old copies |
| Child client (`child_manage.go`) | xray's running configuration and `config.json` | edits of inbounds, outbounds, routing, system settings | local xray | two copies edited one after the other, the file without a lock |
| Remote management | none of its own | prepares the commands above and forwards them | RPC | long series of requests of which one fails |
| License (`license/manager.go`) | status, and its copy in `system_settings` | heartbeat, activation, grace period, callbacks | the license server | answers compared with a status another answer has changed; what ends without an answer is told to nobody |
| Limiter configuration push (`limiter_config_push.go`, `license_quota.go`) | none but the agents' | a full push after every change, revocation, authorization of servers | packages, enforcer, license, hub | concurrent full pushes overtake each other; a push is lost with its connection |
| Client reconcile planner | none | pure functions | not called by a loop yet | many small case distinctions |
| Sessions, brute-force guard | tokens, windows | login, revoke | storage | restarts and timeouts |
| Subscriptions, templates, certificates, probes, bot, backup, setup, update | files and tables of their own | requests | | mostly text generation and I/O |

What makes them correct:

* **ledger**: bytes are never counted twice, a restart is acted on once, and when
  nothing went wrong the row is exact; after any loss the baseline finds back to
  the counter;
* **billing**: the sum a panel shows and the sum a bill is computed from agree; a
  bill stays within its cycle and within the bytes at the dearest multiplier;
* **entitlement** (enforcer, packages, users, daily jobs): whoever is served is
  entitled to it, or the reason is one of those the code accepts; the master does
  not forget a client that is still on an agent; an expired package ends, and the
  over-limit flag follows the traffic;
* **credentials**: one client per user and inbound, and the one the subscription
  is written from is accepted;
* **liveness of servers**: a server that answers is shown online, one that is gone
  is marked offline and announced once; the connection map never keeps a dead
  connection;
* **calls**: a success was applied; a reply reaches the call that asked, or nobody;
  a command is run again only after a try that was lost; what an admin sees of a
  streamed command is the output of one run; every command ends;
* **secure channel**: an envelope is opened at most once, and one that is new and
  within the window is not refused;
* **federation**: what a revoked share leaves behind could not be known or reached;
* **routed outbounds**: a subscriber of a node the panel has is routed, and on the
  agent nothing of a node outlives its row;
* **nodes**: an inbound runs exactly if there is a node of it, one per family, and
  the node shows what runs;
* **snapshots**: the current snapshot, or the pending one, is what is in the file of
  a connected agent; the configuration of a machine that was replaced is kept until
  the admin decides; restoring one takes nothing off that was added since;
* **child**: the file is what runs, so that a restart changes nothing;
* **license and limiter**: once everything is quiet an agent limits whom the
  database says, and nobody without the license, unless for a known reason; an
  agent's xray runs in the end exactly if its server is within the quota.

Every hazard the list above stands for is in `PROJECT.json` under `hazards`, at
its line, with the properties that cover it or the reason why none does yet.

## 2. Modules

    EmailLedger ------ EmailLedgerProofs ------ MCEmailLedger
         |
      Billing -------- BillingProofs,  MCBilling
    Entitlement ------ EntitlementProofs ---- MCEntitlement
    ServerLiveness ------------+
    License -- LimiterPush ----+-- ServerProofs

    OnceChannel  <= SecureChannel ---+
    Call         <= RemoteCall ------+-- WireProofs
                    RemoteStream ----+
                    Federation ------+

    Credentials, ChildConfig, Snapshots --- ProvisioningProofs
    RoutedOutbound --- RoutedOutboundProofs
    Nodes ------------ NodesProofs

    MCWire          SecureChannel, RemoteCall, RemoteStream, Federation, ServerLiveness
    MCProvisioning  Credentials, RoutedOutbound, ChildConfig, Nodes, LimiterPush, Snapshots
    MCSettles       ServerLiveness, RemoteCall, RemoteStream
    MCEnforced      Entitlement, LimiterPush

`Billing` extends `EmailLedger` and composes with it: every step of `Billing` is
a step of the ledger or leaves it alone, plus what the same transaction does to
the priced columns and to `user_traffic`. `LimiterPush` extends `License` in the same
way: a step of the license may start a push, and a push reads the license. `<=` marks an abstract specification
and the module shown to implement it: `OnceChannel` (an envelope is opened at
most once) and `Call` (a command ends once, and a success was applied). The
others that call agents over RPC take `Call` as the contract of a call: applied or not,
and a failure says nothing about which. `Entitlement` sees traffic only as being
under the limit, over it, or without one, and servers only as reachable or not.

`MCWire`, `MCProvisioning`, `MCSettles` and `MCEnforced` put several independent
instances into one run: `part` says which of them a behaviour is of, the others stay in
their initial state, and no state is shared. The `MC` modules hold nothing but
constants of instances, `part` and conjunctions of type invariants; `CommandsEnd`
of `MCSettles` is the conjunction of `CallEnds` and `SelectEnds`, `LicenseIsObeyed` of
`MCEnforced` is `QuotaIsObeyed` of `LimiterPush`.

Many modules carry history variables that do not exist in the code. They record
why the panel and the agents may differ (`doubt`, `cause`, `excused`, `missed`,
`excuse`, `hurt`, `unsure`, `blame`, `why`, `drift`, `decided`), at the step of the code where it happens,
so that a property can say that nothing else makes them differ. In
`Nodes`, the longest list, each excuse was tried without: TLC then finds a
behaviour of the code that breaks the property.

### EmailLedger

One row of `user_email_traffic` per client (server and email), uplink only:
downlink goes through the same statements with the same flag and never mixes
with it. The chain of a report is three steps, because three different things
may happen in between:

| Action | Code |
|---|---|
| `Traffic`, `XrayRestart` | xray on the agent (external): counters grow, and are zeroed by a restart that also changes the boot time |
| `AddClient`, `RemoveClient` | `addUserToInbound`, `removeUserFromInbound`: a counter disappears, and starts from zero when the client returns |
| `Heartbeat` | `UpdateRemoteServerHeartbeatWithRestart`, which writes the boot time it carries, `NULL` included |
| `Send` | the agent reads its counters, pushed or pulled |
| `ReadBoot` | `handleTraffic`/`ServeHTTP`/`CollectFromRemoteServer` read the server row, and with it the boot time the report is judged with |
| `Commit`, `BatchFails` | `ProcessRemoteMetrics`: `CheckAndUpdate` moves the detector, then the batch commits or rolls back |
| `Lose`, `MasterRestart` | a report does not arrive; the process restarts, the detector is empty |

`Restarted`/`Remembered` are the answer and the effect of `CheckAndUpdate`;
`Delta` and `Upserted` the branch structure of `upsertUserEmailTrafficOn`.
`inc`, `seen`, `truth` and `doubt` do not exist in the code: they record what
really happened (how many bytes the processed readings witness, and which of four
hazards a row has met), so that the properties can compare the row with it.
`NewDoubt` names the hazards: the report was judged with a boot time that is not
its own (`staleBoot`), its batch rolled back (`batchFailed`), the first report
after a restart of the master followed an unnoticed restart of xray
(`coldStart`), the client was deleted and added again (`reAdded`).

### Billing

`price` is the priced half of the same rows (`weighted_*`, the cycle baselines and
`attributed_username`), `urow` the `user_traffic` row per server and account.
`CommitBatch` is the commit of the ledger together with pricing, attribution and
the sum per account; `Built` decides whether the attributor could be built, and if
not the whole report is written at weight 1 and to nobody, as
`aggregateAndUpsertUserTraffic` does. `ResetCycle` is `ResetUserTrafficCycle`.
`closed` and `torn` are history: what a row had billed when its cycle last
started, and whether the account changed its clients or was reset while its rows
were attributed to nobody.

### Entitlement

One package with one inbound on every server. The database is `user`, `quota`
(billable traffic against the effective limit), `rows` (`user_inbound_configs`)
and `snap` (the clients in the stored snapshots); the agents are `clients` and
`online`. A series of remote calls is a `Job`: the servers still to call, the
clients whose row is written and whose call is still to come, whether every call
so far succeeded, and whether the rows were dropped.

| Actions | Code |
|---|---|
| `Disable`, `Enable`, `Create`, `TakeAway(u, "delete")` | `users.go`: status, create and delete handlers |
| `Assign`, `TakeAway(u, "unassign")` | `packages.go`: `AssignAndProvision` (a renewal touches the database only), `PackageUnassignHandler` |
| `RemoveCall`, `ReserveCall`, `AddCall` with their `After...` | one `remove-client`, the row written before a client, the `add-client` or batch apply |
| `AdminDrops`, `AdminDone` | dropping the rows and closing the request; rows go whatever the agents answered |
| `EnforcerLists`, `EnforcerVisits`, `EnforcerDrops`, `EnforcerDone` | `CheckAll`: list once, decide per user (`Verdict`), act; an expired user keeps its package and rows unless every agent confirmed |
| `ReconcilerScans`, `ReconcilerSends` | `InboundClientReconciler.runOnce` |
| `CleanerStarts`, `CleanerVisits` | `OrphanXrayClientCleaner.runOnce` |
| `Refresh` | `refreshXraySnapshot` |
| `Expire`, `QuotaMoves`, `GoOffline`, `GoOnline`, `Drift` | the clock, traffic and limits, agents that leave, return or lose their clients |

`cause` is bookkeeping: why a client may be on an agent without its user being
entitled (`missed`, `retried`, `raced`, `uninvited`). `since` is the other half: who
was assigned a package since the enforcer read that it had expired (until the
enforcer is done with the account), and which accounts were created since the cleaner
read the names (until its run ends). `TakenForAReason` is about what happens to the
others: an account that is active, within its limit and whose package runs loses a
client or its package to nobody who was not told to take it.

### ServerLiveness

Whether a server is shown online, and what people are told of it. One server: two
servers share only the goroutines that visit them in turn. `row` is its row in
`remote_servers`, `throttled` the activity throttle, `hub` the entry of its token in
`RemoteWSHandler.conns`, `conn` one goroutine per WebSocket connection, `collector`
the round of `collectAll` and what it will do by the row it has listed, `sweep` whether
`CleanupStaleConnections` has closed a connection and not yet deleted its entry.

| Actions | Code |
|---|---|
| `AuthRead`, `AuthLoad`, `AuthSwap`, `AuthStore`, `AuthBeat`, `AuthReset` | `handleAuth`: read the row, look for an older connection, take it out and close it, store the new one, write the heartbeat, announce the return if the row that was read and the missing older connection say so, and reset the push failures |
| `WsHeartbeat`, `WsActivity` | `handleHeartbeat`; `handleTraffic` and `handleSpeed` through `UpdateRemoteServerLastActivity` and its throttle |
| `Break`, `CleanupLoad`, `CleanupDelete`, `CleanupMark` | the end of `handleConnection`: is the entry still mine, delete it by its token, mark the server offline |
| `SweepClose`, `SweepDelete` | `CleanupStaleConnections` |
| `HttpHeartbeat`, `HttpActivity` | `RemoteHeartbeat`, the HTTP traffic report, and the return they announce |
| `MarkOffline` | `MarkOfflineRemoteServers` |
| `Take`, `Update`, `Tell` | `TakeOfflineServersToNotify`, which selects and then updates with the same cutoff, and `OnServerOffline` |
| `List`, `Pass`, `Pull`, `Judge` | the rest of the round: the list it works on, the servers it passes over, a pull, `checkAndTriggerFallback` |
| `Count`, `Decide`, `FallBack` | the three statements of `IncrementRemoteServerPushFailCount` |
| `BeatAges`, `SinceRipens`, `ThrottleEnds` | time, as far as the code compares it: 90 seconds, five minutes, the notice tolerance, ten seconds |
| `AgentMoves`, `Accept`, `Restart` | the agent (external) comes, goes, or can be reached but reach nothing; the process restarts |

`outage` numbers the outages of the row, `told` records which were announced,
`unsaid` those whose notice died with the process; the code has none of them, but the
condition `offline_since <= cutoff` of the UPDATE tells the outage the SELECT saw
from one that began since, which is what comparing `outage` with `taken` says.

`owed` records the outages that were announced, or are about to be, and whose end
nobody has announced yet; `conn[c].ends` is the outage whose end a goroutine has
decided to announce. `NoticesPair` relates the two: what is owed is announced once the
outage is over, or about to be, and a connection announces the end of nothing people
were not told of. Its exceptions are written where they occur, and without any one of
them TLC finds a counterexample: `Silently` (a report over a connection, a pull, or a new
connection that finds an older one in the hub ends the outage without a word), the
UPDATE of the collector while a goroutine has read the row and not yet written it, the
UPDATE that meets an outage that is over, and a restart between the heartbeat and the
notice.

### Call, RemoteCall

`RemoteCall` is `ws_rpc.go` and `forwardToRemoteServer` of `remote_manage.go`, for
concurrent commands to one agent.

| Actions | Code |
|---|---|
| `Register`, `SkipSocket`, `SendCall`, `GiveUp`, `Receive` | `tryWSRPC` and `CallAgent`: register the reply channel, send, wait for the reply, the context or the timer |
| `RouteReply` | `routeRPCReply`: to the channel of its id, or dropped |
| `NoAddress`, `Ask`, `HearSuccess`, `Renegotiate`, `HearError`, `RequestFails` | the HTTP candidates: sealed with the pull session or with a key exchange, once more with a key exchange when the session is invalid, then the next address |
| `Run`, `Refuse`, `ForgetKey`, `Drop`, `Dial` | the agent and the network (external) |

`pending` and `box` are the map of reply channels and their contents, `key` and
`agentKey` the pull session on both sides. `runs`, `applied`, `excused`, `hit` and
`deaf` are history: how often the agent ran a command, which tries ended without
an answer of use, which calls met a failure, which reply found no waiter.
`Contract` maps a call to its verdict in `Call`.

### RemoteStream

One streamed command: `StartSocket`, `ShowFrame`, `TakeEnd`, `StreamTimeout`,
`WriteFails` are `CallAgentStream` under `tryWSRPCStream`, `RouteFrame` is
`routeRPCStreamData` and the end frame's `routeRPCReply` into the bounded channel,
`CandidateFails`, `CandidateAnswers`, `CopyLine`, `BodyEnds` are
`forwardStreamToRemote`, which runs the command again over HTTP when nothing was
shown yet. `Kill` is the agent or the connection ending unnoticed.

### OnceChannel, SecureChannel

`Encrypt`, `Decrypt`, `DecryptForeign` and `RefuseEnvelope` are `securechan.go` with
`replayWindow.Check` and its 64-bit bitmap, whose width is `WindowSize`. `Check`
moves the window before the cipher is tried, so an envelope of another session
that nobody can open moves it too (`DecryptForeign`).

### Federation

| Actions | Code |
|---|---|
| `Send`, `TakeSuccess`, `ResendWithKeyExchange`, `TakeError` | `doFederationRequest` of the consumer |
| `Unauthorized`, `Negotiate`, `OpenPayload`, `CheckScope`, `Forward`, `ForwardFails`, `Track`, `TrackFails` | the owner's handler: `authShare`, `negotiateManage`, `scopeFederationCommand`, `ForwardToAgent`, `trackFederationInbound`; each reads the share anew |
| `StartRevoke`, `RevokeOne`, `ClearRecords`, `Revoke` | `handleRevoke`: the recorded inbounds are read once, removed one by one, the record cleared, the share revoked |
| `OwnerForgets` | a restart or the life of a session |

### Credentials

One user on one inbound. `row` is the row of `user_inbound_configs`, `agent` the
clients on the inbound, `cache` the panel's copy of it.

| Actions | Code |
|---|---|
| `Collect`, `Fetch`, `Decide`, `SaveAndUnlock`, `SendAdd`, `AddFails`, `Record` | provisioning through a batch or a single add: what is collected without the lock, `getOrCreateInboundCredential` under `inboundCredLock`, the call, and the row saved again after a batch |
| `StartRemove`, `SendRemove`, `DropRow` | removing with the secret of the row that was read, then whatever row there is |
| `MigratorLists` ... `MigratorUpdates` | `CredentialEmailMigrator.migrateOne`, with its rollback |
| `FillerLists`, `FillerSaves` | `OrphanInboundConfigBackfiller.runOnce` |
| `Rebuild`, `CacheChanges` | the inbound made again on the agent; snapshots and invalidation |

### RoutedOutbound

A routed node is, on the agent, a client of the parent inbound, an outbound and a
rule. `job` is what each admin request or background job is at; every step is one
call or one statement, and each of them may fail. Creating and undoing
(`CreateStep`, `CreateRow` for the node, `OwnerRow` for its creator's subaccount),
deleting (`DeleteStep`, `DeleteRow`), suspending and resuming (`SuspendStep`,
`ResumeStep`, `Flag`), members of shared nodes (`Batch`, or `FallbackClient`,
`Upsert`, `GetRouting`, `SetRouting` for older agents) and their removal
(`LeaveRule`, `UnsubscribeStep`). `DeleteRow` deletes the row of the node alone: its
subaccounts stay in `subs`, and `Upsert` may add to them when the node is gone (there
is no foreign key behind them, see section 3), so that `SubscribersAreRouted` is about
the nodes the panel still has and `NothingIsLeft` about what the agent has. `holder` is `routingMutateLocks`; `dirty` remembers that a rule
was written outside of it while it was held. `ReadRules` and `RemoveAtIndex` are
the two calls of `removeRuleByMarktag`: the index may be stale by the second.

### ChildConfig

The child changes the running xray over gRPC (`AddLive`, `RemoveLive`; the call may
fail before or after it took effect, `LiveFails`, `AddLiveFails`, `RemoveLiveFails`),
then reads, edits and writes `config.json` (`ReadFile`, `Truncate`,
`Fill`, `FillFails`: `os.WriteFile` truncates before it fills). `Edited` is
`persistInbound`, `removeInboundFromConfig`, their outbound twins,
`updateXraySystemConfig`, `EnsureXrayConfig` and `manageRouting`, as far as items
and the gRPC inbound are concerned. `Replace` is `setXrayConfig` and
`saveXrayConfigFile`; `RestartXray`, `RestartAfterEdit` read the file back, `Crash`
ends the child.

### Nodes

One inbound of one server and the rows shown for it. A request calls the agent and
publishes an event; the bus gives every event a goroutine of its own, so that the
listener meets rows other requests have changed since.

| Actions | Code |
|---|---|
| `AskAdd`, `AskUpdate`, `AskRemove`, `UpdateRemoves`, `AgentAdds`, `AgentRemoves`, `CallFails` | `HandleInbounds`: an update removes the old inbound first |
| `Match`, `Claim`, `List`, `Create` | `handleAdded` and `tryClaimExternalNode` |
| `HandleRemoved`, `ListRelays`, `RewriteRelay`, `UpdateFamily` | `handleRemoved`, `handleUpdated` with `applyRelayNodesOnUpdate` |
| `AskSync`, `SyncInbounds`, `SyncNodes`, `SyncSkips` (with `Match`, `Claim`, `Create`) | `syncInboundsToNodes` |
| `RefreshHosts`, `RefreshOrig` | `RefreshNodesServerAddress`, `refreshRelayOrigServerAddress` |
| `AskDelete`, `AskClear`, `CheckSiblings`, `DeleteInbound`, `DeleteInboundFails`, `DropNode`, `DropAll` | deleting one node, several, all; the inbound goes with its last node |
| `AskEdit`, `WriteCopy` | setting or cancelling a relay, editing: the row is read, changed in memory and written whole |

A row is of one of five kinds, by which of `original_server` and `inbound_tag` are
set (`Nodes.tla` lists them). `blame` is emptied whenever a request comes in while
panel and agent agree, so that excuses do not outlive what they excused.

### Snapshots

What the panel remembers of the configuration file of an agent (`machine`): `current`,
`pending` and `older` are the rows of `server_xray_config_snapshots` by status,
`expect` the flag of `expectRecoveryFlags`, `errand` the goroutines and requests.

| Actions | Code |
|---|---|
| `Reconnect`, `FetchFile`, `StoreCurrent`, `StorePending`, `StoreFails`, `TakeFlag` | `handleAuth` and `SyncXrayConfigOnReconnect`: the status before the heartbeat decides whether the file becomes current, pending, or is overwritten with what is current and the agent's own inbounds (`mergeAgentOnlyInboundsOutbounds`) |
| `MasterWrite`, `Hook` | any command under `xrayMutatingPathPrefixes`, and the refresh the deferred function of `forwardToRemoteServer` starts |
| `Put`, `PutRefused`, `PutUnanswered`, `RestartAfterPut` | `applyConfigToAgent`, and the write of an automatic restoration |
| `ExpectRecovery`, `RecoveryApply`, `Restore`, `Accept`, `Discard` | `XraySnapshotHandler` |
| `MasterRestart` | the process, with `MigrateRemoveDeprecatedRulesFromSnapshots` when it starts |
| `Disconnect`, `GoesOffline`, `ComesOnline`, `Reinstall`, `Edit` | the machine and the network (external), and the status of the row |

The database may refuse any of these copies: `StoreFails` for what is current or
pending, `TakeFlag` when what is current cannot be read, `Discard`, whose error is
dropped.

`lost` is what was current when the machine was replaced, `kept` the tags somebody
added since and nobody took off.

### License, LimiterPush

`license` is the status of `license.Manager`, `saved` its copy in the database.
`Answer`, `Apply` and `Finish` are a heartbeat or an activation whose answer has come:
`parseResponse` reads what was valid before, changes the status under its lock, then
saves it and starts the callbacks that the comparison calls for (`Fired`); several
answers may be under way. `GraceEnds` is time, `VerdictChanges` the license server
(external), `LicenseRestarts` the start of the process.

A push is a goroutine, `push[p]`: its gate and the hosts it goes to, then one host
after the other.

| Actions | Code |
|---|---|
| `SetLimit`, `SetPackageLimit`, `Provision`, `Toggle`, `Withdraw` | the handlers of `users.go`, `user_node_limits.go` and `packages.go`, as far as the limiter is concerned: the database changes, then `go PushToAllServersFor...` |
| `Begin` | the gate of `PushToAllServersForUser`, `...ForPackage`, `PushToAllEmbeddedServers`; `authorizedServerIDs` |
| `Turn`, `Send`, `SendFails`, `Post` | `PushToServer` and a round of `RevokeAllEmbeddedServers`: build, look for the connection, `SendLimiterConfig`, which looks for it again, or `pushViaHTTP` |
| `SendFlag`, `Tick` | `ReconcileServerQuota`, `reconcileOne`, and the ticker of `main.go` |
| `RunCallback` | the three callbacks `main.go` registers |
| `Connect`, `Drop`, `Restart` | the end of `handleAuth`, the end of a connection, the end of the process |
| `Deliver` | the agent (external): a configuration replaces what it had |

`why` says for a host why its limiter may differ from the database once everything is
quiet: `overtaken`, `lost`, `forgotten` (the rows of the user were gone before the
push looked for them), `empty` (nothing was left to send, and nothing is sent then),
`unannounced` (the feature came or went in a way `parseResponse` does not compare),
`restarted`. It is emptied when a configuration that is right arrives last.

## 3. Runs

| Run | Checks | Shows |
|---|---|---|
| `EmailLedger_client` | `NeverOverbilled`, `LedgerExact`, `AnnouncedOnce`, `BaselineCatchesUp` | one client, every fault but the attributor's: no interleaving counts a byte twice unless a report was judged with a foreign boot time; a row that met no hazard is exact; one restart is acted on once; after any losses the baseline is the counter again, for good |
| `Billing_pair` | `PanelAndBillAgree`, `BillWithinCycle` | two emails of one account at two multipliers, with rollbacks, attributor outages and resets at any moment |
| `Entitlement_one` | `ServedForAReason`, `OrphansExplained`, `TakenForAReason` | one account, one agent that leaves or loses its clients, everybody at once: who is served without being entitled, whose client the panel has forgotten, and who loses what he is entitled to, each for a reason |
| `Entitlement_enforced` | `ExpiryEnforced`, `QuotaEnforced`, `LicenseIsObeyed` | the enforcer gets there in the end, through an outage and an admin who interferes; so does the authorization of a server, through drops, changes of the license and a restart |
| `Settles` | `AliveIsShown`, `GoneIsNotified`, `CommandsEnd` | a server that is there for good is shown so for good; one that has gone ends offline and notified; every command ends, and a streamed one stops waiting for the WebSocket |
| `Wire` | `WindowIsExact`, `RunsAreAccountedFor`, `RepliesReachTheirCaller`, `SessionLossFailsNoCall`, `ShowsOneRunInOrder`, `GapsWereDropped`, `LeftoverIsExplained`, `SharedRunsAccountedFor`, `RefinesOnceChannel`, `RefinesCall`, `OneNoticePerOutage`, `NotifiedIsTold`, `NoticesPair` | the replay window; two commands at once over the WebSocket and two addresses; a streamed command; a share with two commands and its revocation; each through lost and late messages, drops and lost sessions; two overlapping connections, HTTP reports, the round, the sweep, the cleanups and a restart on one row of `remote_servers` and one entry of the hub |
| `Provisioning` | `OneClientPerUser`, `RowIsServed`, `SubscribersAreRouted`, `NothingIsLeft`, `FileIsWhatRuns`, `PanelMatchesAgent`, `OneNodePerFamily`, `NodesShowTheirInbound`, `StaleLimitIsExplained`, `SnapshotIsExplained`, `LostConfigIsKept`, `SharedInboundStays` | what the panel records of an agent against what the agent has: a credential, two routed outbounds, the child's file, the nodes of an inbound, its limiter, the snapshots of its configuration, each under two who work at once |
| `EmailLedger_lost_batch` | `LostBatchLosesNothing` | **violated**, finding 1 |
| `Billing_closed_cycle` | `ClosedCycleStaysClosed` | **violated**, finding 2 |
| `ServerLiveness_pull` | `PulledIsShown` | **violated**, finding 3 |
| `RoutedOutbound_open_rule` | `NoOpenRule` | **violated**, finding 4 |
| `LimiterPush_removed` | `RemovedIsForgotten` | **violated**, finding 5 |

The types of `Wire`, `Provisioning`, `Billing_pair` and the entitlements, and
`HubHasNoGhost`, are theorems of section 5 and are not run again.

### Findings

Each is a sentence of the code's own comments, or of its README, that the code
does not keep.

1. *"A missed round loses no data"* (`UpsertTrafficBatch`). The detector has
   already consumed the restart when the batch rolls back; the retry is judged
   without the flag, and the bytes since the restart are lost.
2. *"Rows whose attribution failed need no reset"* (`ResetUserTrafficCycle`). They
   are skipped, the next report attributes them again, and their closed cycle is
   billed again.
3. *"A pull that succeeds is a heartbeat"* (`CollectFromRemoteServer`), *"automatic
   fallback"* (`README.md`). The failures that lead to the fallback are counted when
   the server has been silent for minutes, so it is offline by then, and
   `collectAll` passes over every server that is offline and to be pulled: the
   fallback never pulls. Without the line that passes over (`collector.go:219`) the
   same run finds no violation.
4. *An empty list of users matches everybody, so a rule is removed as a whole*
   (`user_routed_outbound.go:492`, on suspending). Unassigning a package
   (`packages.go:861`) takes the user out of the rules of his private nodes, of
   which he is the only user: the rule stays, with an empty list.
5. *The push after an expiry, or after deleting a user, clears the limiter's copy of
   it* (`traffic_limit_enforcer.go:126`, `users.go:540`). The push goes to the servers
   where the user has a row, and the rows are dropped before it looks: it finds none,
   and every agent keeps the user until somebody else's push.

Smaller divergences were seen on the way, most of them on the same models, and
have no run of their own. Of the ledger, the enforcer and the liveness of servers:

* a report is judged with the boot time the last heartbeat left in the database:
  read before a restart and handled after the heartbeat that announced it, it is
  counted whole a second time (`restart_detector.go:8` calls the boot time the
  authority; `doubt` names this case `staleBoot`);
* the enforcer acts on the list it read at the start of its round: a package
  renewed meanwhile is removed (`packages.go:1018`: nothing is taken off within the
  period). `TakenForAReason` excuses it by name (`since.renewed`), and without the
  excuse the run finds it in eleven steps;
* the reconciler does not read `is_active` and sends the client of a disabled
  account back to its agent (`inbound_client_reconciler.go:150`: account usable);
* the throttle of activities answers "connected" for ten seconds after a write
  although the end of a connection has marked the server offline in between
  (`traffic.go:10460` says this cannot be);
* the cleanup of an ended connection asks whether the entry is its own and then
  deletes it by its token: a connection that replaced it in between loses its entry
  (`remote_ws.go:844` says it is left alone);
* an outage that was announced may end without a word: a new connection that finds
  a dead one in the hub announces nothing, even if the collector has announced the
  outage meanwhile, and neither does a report over a connection that was only silent,
  or a pull (`remote_ws.go:1116` takes the first for what is no outage, `:1255` leaves the
  notice to `handleAuth`; `notify_scheduler.go:22`: a real outage and its end are both
  sent). So may one whose notice goes out while a handler has read the row and not
  written it yet, and a notice may go out of an outage that has just ended;
* the heartbeat over HTTP announces every return (`agent_connect.go:292`), also of an
  outage nobody was told of, on which the other two ways stay silent
  (`traffic.go:1093`, `remote_ws.go:1128`);
* the detector meets servers for the first time whose rows already have baselines,
  after every restart of the master (`CheckAndUpdate` says `last_* = 0` then);
* `total_uplink` is not the history of a row but grows only on announced restarts
  (`ListUserEmailTraffic`);
* the sum of an account's counters falls when one of its clients is removed
  (`aggregateAndUpsertUserTraffic` calls it cumulative);
* one report written during an attributor outage takes the whole row off the bill
  until the next one, not one period's bytes;
* a user without a limit is passed over before its flag is read: cut off while it
  had a limit, it stays cut off when the limit is lifted
  (`traffic_limit_enforcer.go:186`; `user_traffic_limit.go:18` calls 0 explicitly
  unlimited);
* `traffic.go:822` shows total plus uplink as the total of an account; the two
  overlap after a restart;
* the upgrade window is looked at by `handleAuth` only; `remote_ws.go:299` says by
  the cleanup too.

Of calls, sessions and shares:

* a call or a stream over a WebSocket is not woken when the connection ends; it
  waits for its timer (`ws_rpc.go:16` and `remote_manage.go:933` name the end of the
  connection as what ends it);
* the end frame of a stream is dropped like any other when the channel is full;
  the handler then waits until its deadline;
* an error whose text contains "decrypt" or "412" is taken for a lost session and
  the command is run again (`isSessionInvalidErr`), in federation also one that
  came from the agent;
* 502 errors of the federation are answered in the clear, although
  `remote_manage.go:1457` says that errors are encrypted;
* revoking a share clears its record even if the agent refused a removal
  (`server_share.go:141`): nobody remembers the inbound then.

Of credentials and routed outbounds:

* "never twice" (`packages.go:1345`, `:1391`) holds for those who take the lock: two
  package updates at once can remove after the other added, and the backfiller
  takes no lock and can bring a removed row back from an old snapshot;
* `SaveUserInboundConfig` does nothing when there is a row, so a credential of
  another protocol goes to the agent and not into the row;
* the migrator's remove and add leave the user without a client in between;
* the mutations of one server are not all serialised (`routed_outbound.go:25`):
  creating, deleting, suspending and resuming write rules without
  `routingMutateLocks`, and a member's GET and SET writes an older list over theirs;
* `DeleteRoutedNode` says that the subaccounts go by a foreign key
  (`storage/nodes.go:1415`; also `routed_outbound.go:348`,
  `user_routed_outbound.go:573`), and there is none: `user_subaccounts` references
  users only (`storage/traffic.go:2850`), and foreign keys are off, as the other
  deletion says, which deletes them by hand (`storage/nodes.go:674`). So the
  subaccounts of a deleted node stay, active, until their user is deleted
  (`storage/traffic.go:5165`), and `UpsertUserSubaccount` records them for a node that
  is gone by then. Nobody is served by them: taking a member out skips a node that is
  gone, ids are given out once (`storage/traffic.go:1430`), and what they cost is an
  email the orphan cleaner keeps for ever (`orphan_xray_client_cleaner.go:23`).
  The model leaves them where the code does; it has no run of its own, for it takes
  one deletion and no interleaving;
* `removeRuleByMarktag` removes by an index read earlier, and may hit the rule of
  another node;
* resuming twice appends a second rule, of which deleting removes the first only; a
  second creation under the same label rolls back the client of the first.

Of the child:

* `persistInbound` appends without removing an entry of the same tag: xray does not
  start from such a file;
* reading, editing and writing `config.json` is not locked, and `os.WriteFile`
  truncates first: a concurrent edit is lost, or reads an empty file;
* an add whose pre-removal succeeded and which then fails has lost the running
  inbound, the file keeps it; a removal of what does not run leaves it in the file;
* `saveNginxConfigFile` restores from a backup name it computes anew
  (`child_manage.go:1374`).

Of snapshots:

* accepting a pending recovery makes it current although the file may have changed
  since it was taken (`xray_snapshot_handler.go:203` says the agent's configuration
  is the pending one);
* an automatic restoration writes the file and does not restart xray, although
  `xray_snapshot_handler.go:292` says that a written file needs a restart to run;
* a machine that comes back empty and connects before its row says offline has its
  default configuration made current at once, and so has one that connects a second
  time while the decision is pending;
* a restoration that began before an inbound was added takes it off again: the
  merge is of what was read (`between`).

Of nodes:

* an update that found one relayed node ends there (`handleUpdated`): a sibling
  that is not relayed keeps the old configuration, although the comment
  (`listeners.go:566`) leaves it to the ordinary update;
* `refreshRelayOrigServerAddress` (`storage/nodes.go:878`) and
  `applyRelayNodesOnUpdate` write the v4 address into `relay_orig_server` of v6 nodes
  too, and the former also into a node whose relay was cancelled since it was
  listed: cancelling the relay then restores the wrong address, which is what the
  refresh is said to repair (`:862`, and `:843` on v6 nodes);
* `handleAdded` on a tag that has nodes leaves their configuration as it was, and a
  row of the server without a tag keeps it from creating or binding one;
* `UpdateNodeInboundTag` gives a tag to a row without a server, which blocks later
  scans and is never claimed, and binds an imported row without its content;
* a claim whose UPDATE matched no row counts as a claim; the whole-row `UpdateNode`
  of an older copy undoes one;
* two deletions of sibling nodes each leave the inbound to the other; an update
  whose second call fails leaves nodes without an inbound; a removal of the inbound
  leaves its `user_inbound_configs`, which only deleting a node clears.

Of the license and its pushes:

* a configuration without users is not sent (`limiter_config_push.go:313`), so the
  last user of an inbound is not taken off its limiter;
* a grace period that ends takes the limiter away without any callback
  (`license/manager.go:497` lists expiry among what is told); `main.go:491` repairs the
  authorization within five minutes, and nothing the limiter, until the feature has
  been there and gone again;
* an upgrade while the license stays valid is no recovery (`:488`), and pushes no
  limits; an activation that has overtaken a heartbeat may make either see no change;
* `SendLimiterConfig` returns no error when the connection is gone by the time it
  looks, so the fallback to HTTP that `limiter_config_push.go:317` asks for is not taken;
* a status that was confirmed does not run out when the license server cannot be
  reached: the 24 hours of `:197` begin to matter only after an answer that it is
  bound elsewhere.

### Bounds

Every bound is a constant. `Faults`, `Actors`, `Troubles` choose which failures and
which goroutines an instance has; `MaxRaw` bounds the bytes between two zeroings of a
counter, `MaxEpoch` the boots of xray, `MaxInc` the zeroings, `MaxOutages`,
`MaxTrouble`, `MaxFaults`, `MaxFailures`, `MaxMishaps` how often something goes wrong.

* `MaxRaw = 2` distinguishes a counter that grew from one that shrank or stayed,
  on both sides of a restart; `MaxEpoch = 2` is one restart, the least at which
  two boot times differ; `MaxInc = 2` in `EmailLedger_client` lets a client be
  re-added or meet a restart, `MaxInc = 3` in the violated run more than one. The
  proofs of section 5 remove these bounds for the safety of the ledger.
* In `Billing_pair` two clients are the least for which a sum is not a counter;
  `MaxRaw = 1` is enough because what can go wrong is which terms are added, and
  `Weights = {1, 2}` because an error of price needs two prices. Removing clients
  is left to `EmailLedger_client`: here clients come, at any moment.
* `Entitlement` has one account: accounts meet only in the lists of the jobs,
  which `listed` and `cleaner.known` keep as sets, and no step reads one account
  to change another. The run has one server, and one outage (or one lost answer) for a
  call to fail and be retried. A series that fails on one server and goes on to a
  second is therefore not in the run; the module has it, with the servers still to
  call in a set and whether all calls succeeded, and the proofs of section 5 hold
  for any accounts, servers and outages.
* `Wire` has two connections of the server, the least with which one replaces
  another, each used once; a third would find what the second left. `MaxTrouble`
  bounds how often a reachable agent falls silent, the network changes or the
  process restarts. `Threshold` is 1, since a count only delays the fallback,
  and 3, as in the code, in `ServerLiveness_pull`. One connection is enough for the
  liveness of `Settles`, with two troubles: the agent goes and comes back, or goes
  twice. The proofs of section 5 remove these bounds for the safety.
* `Wire`: a window of 3 and 7 envelopes meet a number that is inside, at the edge,
  just behind, and shifted out whole. Two calls are what it takes to negotiate two
  sessions at once; two addresses give four tries over HTTP after the WebSocket;
  two connections let a reply come after its connection was replaced, two keys let
  a session be lost and another be made. A channel of 2 overflows under 4 frames
  and an end frame, and drains in between. One share, one tag and two commands with
  two sessions and one fault let an add, a removal and a revocation meet. The
  proofs remove the bounds of the channel, of the federation and, for what they
  state, of the calls.
* `Settles` has two calls and one address, and the stream of `Wire`.
* `Provisioning`: two of each who work at once, for what goes wrong here is one
  acting on what another has changed. One protocol and two secrets: the row, the
  agent's client and the generated one can differ in pairs. Two marks, one of them
  private, two rules and two ids: an index can be stale, and a mark used again; one
  failed call, and nothing new starts once a mark is in `hurt`. One item of the
  child, two entries of it, one mishap. One tag and one rule, which newer versions
  take out, for a snapshot, two goroutines and three events: an inbound that was
  added, a machine that was replaced and a restart of the process are three. Two
  versions of an inbound, two rows (both families, or one of them with its relay or
  with a row that is nobody's yet), and two requests between two moments at which panel
  and agent agree: from each of those two more may come, so that a series of
  requests of any length is covered as long as at most two of them overlap or
  follow each other before agreement.
* Limiter and license: one server is enough for a push to overtake another, and to
  be lost; one user and one limit besides none; two pushes at once, which follow one
  another without end; two answers at once, whose overlapping costs one of
  `MaxMoves`, as does everything that happens to the license, the database or a
  connection. With `MaxMoves = 3` each cause of `why` is needed: with
  one of them left out of the model TLC finds `StaleLimitIsExplained` violated. Two
  messages on a connection let one be overtaken there. In `Entitlement_enforced`
  nothing but `MaxMoves` ends the trouble; authorization is then the ticker's.
* Symmetry is used for interchangeable clients, connections, calls, workers and
  versions, in runs whose properties are invariants or step-wise refinements, and
  never with liveness.

Deadlock is checked in the runs of the ledger, billing, entitlement and in
`ServerLiveness_pull`, where traffic, heartbeats, limits, rounds and ticks always go
on. `Wire`, `Provisioning`, `Settles` and `RoutedOutbound_open_rule` may come to rest: their
commands are over, or one of the bounds is used up.

### Fairness

`EmailLedger!FairSpec` asks strong fairness of `Send`, `ReadBoot` and `Commit`:
`Collector.Start` and the agents' reporting loops run on tickers for as long as
the process lives, and each report is an attempt independent of the last; strong
because losses, rollbacks and restarts disable them in between. It is not assumed
that failures stop; the bound on zeroings and bytes makes the counter settle.

`Entitlement!FairSpec` asks weak fairness of every step of the enforcer
(`TrafficLimitEnforcer.Start` is a ticker, each call to an agent ends by a
timeout) and of the return of an agent. Nothing is assumed of the admin, the
daily jobs or the snapshots.

`ServerLiveness!FairSpec` asks weak fairness of the collector's round (a ticker, and
every database call and pull has a timeout), of the handlers (a goroutine that has
begun runs on), of heartbeats of an agent that can reach the master (one every 30
seconds), of the read deadline of a connection whose agent is gone, and of time.
Nothing is assumed of activities, of the sweep, or of the agent's reconnecting.

`Settles` asks the same of its server part, weak fairness of the steps of each
caller (the select of `CallAgent` and the HTTP client have timeouts, and `GiveUp`
and `RequestFails` are those) and of the select of a stream (`StreamTimeout` is its
deadline). Nothing is assumed of the agent or of the network, and nothing of the
body of a stream over HTTP, which has no deadline.

`LimiterPush!FairLimiterSpec` asks weak fairness of the steps of a push (a goroutine
runs on, its HTTP client has a timeout), of the ticker of `main.go:494`, and of the
delivery of what is on a connection, which a drop ends. Nothing is assumed of the
license server, of the callbacks or of an agent's return.

## 4. Simplifications

* One report of a server is under way at a time. An agent waits for the answer
  before it reports again; a request that timed out on the agent may still run on
  the master, which is listed as a hazard without a property.
* In `Entitlement` an agent that can be reached does what it is told, and the master
  may never hear of it (`Answers`); an agent that cannot be reached does nothing. A
  batch that fails and its per-item fallback are one call with one outcome.
* `QuotaEnforced` excludes users without a limit: section 3 says what
  becomes of their flag.
* A package is renewed or taken, never exchanged for another one.
* In `ServerLiveness` a statement on the row is one step, and so are the SELECT and
  the UPDATE of `MarkRemoteServerOfflineByID`, whose UPDATE repeats the condition;
  the heartbeat of the HTTP handler and its reset of the push failures are one
  step; `handleAuth` resets them twice in a row, here once. A connection is served
  from `handleAuth` on; earlier it touches nothing shared.
* The collector's rounds are at most minutes apart, so a round meets a heartbeat
  older than 90 seconds before it is older than five minutes (`BeatAges`). The
  notice tolerance is positive. The agent keeps its address, so that no second
  connection is refused as a conflict, and its token. Pulls are answered within a
  step. The silence of a single connection is not recorded: `SweepClose` may meet
  any connection that is done with `handleAuth`.
* A report over HTTP reads and writes the row in one step in `ServerLiveness`; what
  may happen between the two is shown by the handlers of the WebSocket, where they are
  steps of their own. A notice goes out when it is handed to the notifier: that an
  event is not repeated within five minutes, that a notice of a server that connects
  for the first time goes out as well, the upgrade window and the poller of federated
  servers are left out.
* Private routed outbounds, notifications and the servers' own limits are left out
  of the enforcer.
* In `RemoteCall` an agent applies a command or answers that it failed; what it
  does besides is not looked at. An unreadable answer is one for which the text of
  the error says so. A restart of the agent and the end of the life of its session
  are one step.
* In `RemoteStream` a frame is its number; `forwardUpgradeStream` shares the steps of
  `forwardStreamToRemote`, and its check of the version afterwards is left out.
* In `SecureChannel` the cipher opens exactly what its session sealed, and the
  64-bit counter does not wrap.
* In `Federation` every command outside the inbounds is one action, and forwarding
  is the contract of `Call`, in one step.
* In `Credentials` the agent adds a client unless one has the secret and removes by
  secret. The migrator and the backfiller run to their end once.
* In `RoutedOutbound` the outbound tag is the marktag, and the creator and one member
  stand for the users of a node. Deleting a routed node through the list of nodes
  (`DeleteNode`) and deleting a user, both of which delete subaccounts by hand, and
  filling in the creators' subaccounts when the panel starts are left out.
* In `ChildConfig` a request is on one item or on the system settings; the content
  of an item, nginx and certificates are left out. A reader sees a file before or
  after a write, or truncated.
* In `Snapshots` there is one server of this panel; a configuration is the set of its
  tagged entries and rules, texts of one content count as equal, and a new machine's
  is empty. What xray runs is not looked at (`ChildConfig` does), nor are the
  retention of older snapshots and what the admin reads of them.
* In `Nodes` there is one inbound of one server, and all nodes belong to the owner of
  the system. Addresses are IP literals, one per family, that nobody changes
  (`handleUpdateServer` and `handleRestoreServer` are left out); a relay listens on
  the inbound's port. At most one imported row is there at the start, and importing
  during the run is left out, as are routed nodes, names and forced overrides, and
  forwarding tunnels. Ids are used again only when nobody remembers them. A batch
  deletion looks for siblings once, at any time before its call, which has the
  outcomes of looking node by node. `RefreshHosts` joins an UPDATE and the listing
  after it.
* In `License` a key is configured, and the panel starts with a license just
  confirmed; the error of an answer is one that is repaired by binding again, or a
  revocation. An answer is judged when it arrives, and the grace period does not end
  while one is: requests last seconds. Of the features only the limiter, which comes
  with `embedded`, matters.
* In `LimiterPush` every server is embedded and has one inbound, whose limiter is a
  table from users to a limit: subaccounts, device limits and rules are left out. What
  a push sends is built in one step, and a refused limit and its gate are one step
  with the write. A quota instance pushes authorizations only, a limiter instance
  limits only: the two share the connection and no state. Agents without a WebSocket
  (`agent_connect.go:323`) are met only as those a push finds disconnected.

## 5. Proofs

`EmailLedgerProofs` proves, for every set of servers and clients, every
combination of faults and all bounds, from `LedgerAssumption` alone (a client lives
on a server, the bounds are natural numbers):

| Theorem | States |
|---|---|
| `LedgerInvariant` | `Spec => []LedgerInv` |
| `LedgerTypeCorrect` | `Spec => []TypeOK`; in particular no counter goes below zero |
| `NoOverbilling` | `Spec => []NeverOverbilled` |
| `ExactLedger` | `Spec => []LedgerExact` |
| `RestartsAnnouncedOnce` | `Spec => AnnouncedOnce` |

`NeverOverbilled` is not inductive: whether the next delta is covered depends on
what the baseline, the reading on its way and the detector know of each other.
`LedgerInv` adds what is needed, in five parts:

* `TypeOK`;
* `BootOrder`: no boot time the master holds anywhere (database, detector, report)
  is ahead of the agent's;
* `ReadingOrder`: the reading last processed is not ahead of the one on its way, and
  that not ahead of the counter, zeroings first and bytes second;
* `Covered`: what a row counted, plus what its baseline still hides from the next
  report, is within what was witnessed;
* `Exact`: for a row without hazards, equality, the baseline, and the agreement of
  the detector with the boot time of the last reading.

`TypeStep`, `BootStep`, `ReadingStep`, `CoveredStep` and `ExactStep` each keep one
part, with one step per action. `CommitOnClient`, `FailOnClient` and
`BatchOnServer` say once what a batch does to one client and one server, so that
those proofs need not open `Commit`.

`BillingProofs` extends them, for every set of accounts and every set of multipliers;
`BillingAssumption` asks that clients and multipliers are finitely many, that a client
belongs to an account, and that a multiplier is a positive number:

| Theorem | States |
|---|---|
| `BillInvariant`, `BillTypeCorrect` | `BillSpec => []BillInv`, `[]BillTypeOK` |
| `PanelAgreesWithBill` | `BillSpec => []PanelAndBillAgree` |
| `BillsStayWithinCycle` | `BillSpec => []BillWithinCycle` |

`BillInv` is `LedgerInv` (a step of the bills is a step of the ledger, so its proofs
are cited) and three parts. `PriceInv`: a row never written is empty, one that was
written is its account's or nobody's, and what it billed is within the dearest
multiplier of what it counted. `CycleInv`: what was closed is the baseline of the row.
`RosterInv`, of an account that stayed as it is and met no hazard: either none of its
rows was written, or those of the clients that are there and of no others; a report
under way is of all of them; the sum it will be compared with is the sum of the
baselines of the rows; and the sum shown is the sum of what they moved.

A batch compares the *sum* of the counters with the last sum, and every counter with
its own baseline, and clamps both differences at zero. That the two agree
(`RosterOfBatch`) needs that no counter is below its baseline unless the restart flag
is up, for every client of the account at once. `NeverLower` takes that from `Exact` and
`ReadingOrder` of the ledger. The laws of finite sums the proof needs (a sum is of what is in the set,
sums add up term by term, zeros can be left out) are lemmas too. The library gives
sums no theorem and its induction rules are of no use to the provers, but one of its
facts is enough: strict inclusion is well-founded on the finite subsets of a set, so
whatever fails for some subset fails for one for whose proper subsets it holds
(`SmallestSubset`).

`ServerProofs` is about what a panel knows of its servers and what it tells them.
First `ServerLiveness`, for any number of connections, any threshold and any amount of
trouble, from `LivenessAssumption` (the absent connection is none, the bounds are
numbers):

| Theorem | States |
|---|---|
| `LivenessInvariant` | `Spec => []LivenessInv` |
| `LivenessTypeCorrect` | `Spec => []TypeOK` |
| `OutagesAnnouncedOnce` | `Spec => []OneNoticePerOutage` |
| `NoticesNotSwallowed` | `Spec => []NotifiedIsTold` |
| `NoticesArePaired` | `Spec => []NoticesPair` |
| `NoGhosts` | `Spec => []HubHasNoGhost` |

`OneNoticePerOutage` needs to know why the collector cannot be holding an outage
that was announced: `NoticeInv` says that every outage announced or in its hands is
the row's own or an earlier one, that a row still in an announced outage is marked,
and that one in the hands of the collector is ripe before the UPDATE and marked
after it. `HubHasNoGhost` needs where the goroutine of an entry may be (`HubInv`).
`NoticesPair` needs `PairInv`: nothing is owed of an outage still to come, an outage
that is owed and not over is marked, and a goroutine that has read the row and not
written it yet has decided to announce the end of just that outage; this is what fails
when the UPDATE comes between the two, so nothing is owed then. `TypeStep`,
`NoticeStep`, `HubStep` and `PairStep` each keep one part; `NoticesOfSameOutage`,
`NoticesWhenHeard` and `NoticesWhenOffline`, and `PairsOfSameOutage`, `PairsWhenHeard`
and `PairsWhenOffline`, say once what the three kinds of writes to the row do to it.

Then `LimiterPush` with `License`, for any users, servers, limits, plans, goroutines and
requests, from `LicenseAssumption` and `LimiterAssumption` (what the constants are, and
that 0, no limit, is a limit):

| Theorem | States |
|---|---|
| `LimiterTypeCorrect` | `LimiterSpec => []LimiterTypeOK` |
| `LimiterInvariant` | `LimiterSpec => []LimiterInv`, if `Announced` |
| `StaleLimits` | `LimiterSpec => []StaleLimitIsExplained`, if `Announced` |

`Announced` asks that the instance pushes limits and that the callbacks `SetOnRecover` and
`SetOnFeatureLost` are registered, as `main.go:475` and `main.go:486` do. Without the
second the property is false, as its mutant shows, which tells a loss to nobody.
The property is about quiet moments; `LimitFor` says of every moment that what a
host has when it has read its connection to the end is right (`EndsRight`), or that a
push has a table for it or is going to build one (`WillServe`), or that the callback about
the feature is due or will be (`ToBeTold`), or that a cause is noted, or that it is
away while the feature is there, since it is told when it comes back. A step of a push
passes the duty on: the gate lets through whoever has somewhere to go, a skipped host is
noted as left empty or was not going to be served, a sent table is right or noted as
overtaken. `ChangeIsPushed` says which changes concern which hosts, and `OldestIsRead` that
reading in order keeps the end.

`WireProofs` is about the connection between a panel and an agent. First its secure
channel, for every width of the window and any number of envelopes, from
`ChannelAssumption` (the width is positive):

| Theorem | States |
|---|---|
| `ChannelInvariant` | `ChannelSpec => []ChannelInv` |
| `WindowExact` | `ChannelSpec => []WindowIsExact` |
| `SessionOpensOnce` | `ChannelSpec => RefinesOnceChannel` |

`ChannelInv` says that the window ends at the newest number let through and that a
bit inside it is set exactly when its number was let through. That is what makes
`Decrypt` a step of `OnceChannel`: `Fresh` then means not opened before.

Then commands, for any calls, addresses, connections, sessions and frames, from `CallAssumption` and `StreamAssumption` (the bounds are positive, or numbers):

| Theorem | States |
|---|---|
| `CallsTypeCorrect` | `CallSpec => []TypeInv`: types, at most two tries per address, and what is under way over HTTP belongs to a try that was made |
| `CallsInOnePlace` | a call over the WebSocket is on its way out, on its way back or in its channel, never in two of them |
| `RepliesAreHeard` | `CallSpec => []RepliesReachTheirCaller` |
| `ResultsAreTrue` | an answer "ok", wherever it is, stands for a command that was applied |
| `SessionsFailNothing` | `CallSpec => []SessionLossFailsNoCall` |
| `TriesAreCharged` | `CallSpec => [](TypeInv /\ AccountInv)` |
| `RunsAreExcused` | `CallSpec => []RunsAreAccountedFor` |
| `CallsKeepTheContract` | `CallSpec => RefinesCall` |
| `StreamInvariant`, `StreamTypeCorrect` | `StreamSpec => []StreamInv`, `[]StreamTypeOK` |
| `OneRunIsShown` | `StreamSpec => []ShowsOneRunInOrder` |
| `GapsAreDrops` | `StreamSpec => []GapsWereDropped` |

`RepliesReachTheirCaller` is not inductive: that a channel of capacity one has room
for the reply needs that no second reply of the call is anywhere, which
`SocketInv` says. `RefinesCall` needs `ResultInv`, that a success on its way is of a
command applied; with it each action maps to a step of `Call` or to none.
`RunsAreAccountedFor` counts runs; its invariant `AccountInv` counts the requests
still on their way with them (`Copies`), since the agent may run a request long
after the panel has given the try up, and charges a try when it is sent.

`StreamInv` takes what was shown, what waits in the channel and what is on the
socket as one sequence: of one run, ascending, and without a hole but for frames
that were dropped. Giving the WebSocket up empties the channel, and what is shown
over HTTP begins again only if nothing was shown, so that the sequence of the path
that is left is never mixed with the next.

Last, commands under a share (`Federation`), for any shares, rights, tags and commands
and any number of sessions and faults, from `FederationAssumption` (the rights are of
shares, there may be a session):

| Theorem | States |
|---|---|
| `FedTypeCorrect` | `FedSpec => []TypesOK` |
| `SharedRunsAccounted` | `FedSpec => []SharedRunsAccountedFor` |
| `LeftoversAreExplained` | `FedSpec => []LeftoverIsExplained` |

The second needs `SharedAccountInv`: a command that is not at the agent yet, or that was
refused, has not been run since its last useless answer. The third needs
`LeftInv`: every inbound is on record while no revocation runs, on the list of the
revocation that does, missed, or of an add that `Track` still has to write; and a
share is revoked only when its revocation is over.

`EntitlementProofs`, for any users, servers and number of outages, from
`EntitlementAssumption` (outages are counted):

| Theorem | States |
|---|---|
| `EntitlementTypeCorrect` | `Spec => []TypeOK` |
| `OrphansAreExplained` | `Spec => []OrphansExplained` |
| `NobodyServedByAccident` | `Spec => []ServedForAReason` |
| `TakenOnlyForAReason` | `Spec => TakenForAReason` |

Types need `About`: the job of the admin or of the enforcer is about an account
whenever it is about something (`EntTypeInv`). Neither reason is inductive: while a
series of removals runs, its user is excused as a whole (`BeingRemoved`), and the
excuse ends with the series. `Swept` says what the series leaves behind at every
moment: on a server it is done with, the client is gone or has a reason of its own,
and that reason is more than "tried again" unless the series is an expiry of which a
call failed, which keeps its rows. `RemoveSweeps` shows that a call establishes it,
`StaysSwept` and `OtherSwept` that nobody else's step undoes it, `SweptOut` and
`DropReasons` that it is what is needed when the series ends or drops the rows.

`TakenForAReason` speaks of steps, and its proof needs to know what the jobs
have read and what became of it since (`TakenInv`): a package that runs although the
enforcer holds its account for expired is in `since.renewed`, and the enforcer is done
with an account before it lists it again (`HeldInv`); an account whose name the cleaner
does not have is in `since.created` (`KnownInv`); an account whose clients the admin's
request to disable it removes is disabled (`DisabledInv`); an account that is gone has no
package. Removing a client, visiting a server and ending a visit then each follow from
one of these (`AdminTakesClients`, `EnforcerTakesClients`, `CleanerTakesClients`,
`PackagesTakenStep`).

`ProvisioningProofs`, for any number of workers, secrets, items, requests, tags and
goroutines. `CredentialAssumption` asks that there is a protocol and that what stands
for nothing is none; `ChildAssumption` the same of items; `SnapshotAssumption` that
tags are no rules:

| Theorem | States |
|---|---|
| `CredentialInvariant`, `CredentialsTypeCorrect` | `CredSpec => []CredInv`, `[]CredTypeOK` |
| `ProvisioningMakesOneClient` | `CredSpec => []OneClientPerUser` |
| `RowsAreServed` | `CredSpec => []RowIsServed` |
| `ChildInvariant`, `ChildTypeCorrect` | `ChildSpec => []ChildInv`, `[]ChildTypeOK` |
| `RestartsChangeNothing` | `ChildSpec => []FileIsWhatRuns` |
| `SnapshotsInvariant`, `SnapshotsTypeCorrect` | `SnapSpec => []SnapInv`, `[]SnapTypeOK` |
| `RestorationsKeepInbounds` | `SnapSpec => []SharedInboundStays` |
| `LostConfigsAwaitDecision` | `SnapSpec => []LostConfigIsKept` |
| `SnapshotsAreExplained` | `SnapSpec => []SnapshotIsExplained` |

`OneClientPerUser` holds of quiet moments only; `CalmInv` says of every moment that,
while nobody raced, all clients and everyone at work have one secret, the row's if
there is one, that who is about to save holds the lock and sees no row, and that a
client older than the row was seen by all. `ItemInv` says of an item that is not in
doubt that one request at most is on it, and which of the two copies it has changed.
`KeptInv` needs that a restoration under way has read what is to be kept; `LostInv`
that nothing under way can change `current`; `TellInv` that what the machine has is
shown, or is held, or will be fetched.

`RoutedOutboundProofs`, for any marks, admins and background jobs, from
`RoutedAssumption` (there is a mark, private ones are marks, nobody is called `Free`,
the bounds are numbers):

| Theorem | States |
|---|---|
| `RoutedInvariant`, `RoutedTypeCorrect` | `RoutedSpec => []RoutedInv`, `[]RoutedTypeOK` |
| `SubscribersAreServed` | `RoutedSpec => []SubscribersAreRouted` |
| `NothingOutlivesItsRow` | `RoutedSpec => []NothingIsLeft` |

Both properties are about a mark nobody is at work on and no failed call or statement
went over, the first about a node that has its row. Nothing is assumed of the
subaccounts of other nodes: an id is given out once (`RoutedTypeOK`), so none of them
is of the node a later creation makes. `MarksInv` looks at one mark
at a time, until it is in `hurt`: one task at most is on it, it has one row and one
rule at most, and `Works` says how far each of the seven tasks has come: which of the
client, the outbound, the rule and the row are there at each of its steps, and for
whose client and flag the node is still in the making (`Stands`). `LockInv` is needed
for the members' GET and SET: whoever is between them holds the lock, and has the
rules as they are unless they were written without it, in which case the marks that
differ are hurt. The steps write lists of rules: the lemmas about `RemoveAt`, `Append`
and the map over rules say what they do to the users of one mark (`Serves`), and the
rest of the proof does not look at lists.

`NodesProofs`, for any number of requests at once, any contents of the inbound and any
number of rows, from `NodesAssumption` (the bounds are numbers, no content is called
`gone`):

| Theorem | States |
|---|---|
| `NodesTypeCorrect` | `NodesSpec => []NodesTypeOK` |
| `NodesInvariant` | `NodesSpec => []NodesInv` |
| `FamiliesStayDistinct` | `NodesSpec => []OneNodePerFamily` |
| `PanelAndAgentAgree` | `NodesSpec => []PanelMatchesAgent` |
| `NodesShowContent` | `NodesSpec => []NodesShowTheirInbound` |

The three properties look at moments at which nobody works, and excuse what a reason in
`blame` explains. `NodesInv` speaks of every moment. Each of its parts is excused by the
reasons of the property it serves and by no others, so that no reason explains more than
it does in the property:

* `NodesTyped`: types, and what a task knows at each of its steps (`TaskOK`); a copy of a
  row has its family, whatever else has changed;
* `KindInv`: a row that was bound when a task read it is still bound or gone;
* `FamilyInv`: no two nodes of one family, and none of a family that an add which has
  listed them is going to create;
* `DeletionInv`: a deletion that takes the inbound has all its nodes (`TakesAll`); while
  the nodes of a removed inbound go, nothing brings it back (`RemovedIsGone`); deletions
  that leave the inbound leave one and the same node of it (`OneIsLeft`);
* `StepInv`: where panel and agent differ, there is a task that makes a node
  (`Creates`), or one that takes the nodes off or brings the inbound back (`Removes`);
  and what an update is about to bring back has a node, or will;
* `ContentInv`: a node has its own address or the relay's, and the content of the
  inbound or a task that brings it (`WillShow`); an update that writes by family has met
  no relay, one that rewrites has all of them (`Fits`).

`OneIsLeft` is what two deletions at once can break: each spares the other's node. It
does not follow from looking at one deletion at a time, since three can each leave
siblings that the other two take between them; `CheckSiblings` therefore blames
siblings that all deletions under way take together, as the proof needs and as the code
can do. An add of both families knows the node it has made itself: for the second
it is not one that another made in between.

There is a lemma for each kind of step that says what it does to the rows and its task
(`ClaimStep`, `CreateStep`, `SkipStep`, `DropStep`, `CallSteps`, `ListenerSteps`,
`ScanSteps`, `NodeSteps`), and one for each part that keeps it (`KindKept`,
`FamilyKept`, `DeletionKept`, `StepKept`, `ContentKept`). A request is either made when
all agree, and the parts hold because nobody works, or it changes nothing that they
speak of (`RequestsKeep`).

Model-checked only is liveness (`BaselineCatchesUp`, `ExpiryEnforced`, `QuotaEnforced`, `AliveIsShown`,
`GoneIsNotified`, `CommandsEnd`, `LicenseIsObeyed`), which is out of the prover's reach:
it knows neither fairness nor ENABLED. Every safety property of every passing run has a
theorem.

## 6. What could come next

1. `EmailLedger` with two reports of one server at a time (`traffic.go:1021`), the one
   hazard of `PROJECT.json` without a property: the lemmas on a batch in `EmailLedgerProofs`
   and `BillingProofs` take the report under way for the only one of its server.
2. `ServerLiveness` further: a token that changes under a connection, the second agent
   with the same token, the upgrade window, notices that are not repeated.
3. `Entitlement` with several servers, packages exchanged for one another, and
   `Credentials` and `RoutedOutbound` as what its calls do.
4. The reconcile planner as operators against a reference definition; sessions,
   chains and forwarding tunnels.
5. More action properties like `TakenForAReason`, where a step may never do something
   (a restoration over a later write), and their proofs from the invariants of
   section 5.

`Provisioning`, `Wire` and `Entitlement_one` are near the size that still finishes in
minutes: what is added to them should replace something weaker.

## 7. Not modelled

Text generation (subscriptions, templates, xray configurations), I/O (backup,
update, deployment), cryptography, protocols of third parties (certificates, ACME,
DNS, Telegram), measurements that no decision reads (probes, speed). Much of the
largest files of the handlers is of these kinds: they validate a request, build
JSON and call what is modelled here. Each component is listed with its reason in
`PROJECT.json`.
