---------------------------- MODULE Entitlement ----------------------------
(***************************************************************************)
(* Who may use which node. An account is served by an agent when xray     *)
(* there has a client for it; the master keeps a row per client           *)
(* (user_inbound_configs) and moves both from five places that know       *)
(* nothing of each other: the handlers of the admin's requests, the       *)
(* traffic limit enforcer, the daily reconciler, the daily cleaner and    *)
(* the snapshots of the agents' configuration the last two read. Every    *)
(* call to an agent takes time and may fail, and no handler holds a lock. *)
(*                                                                        *)
(* One package is modelled, with one inbound on every server.             *)
(***************************************************************************)
EXTENDS Integers, FiniteSets

CONSTANTS
    Users,          \* accounts with the role user
    Servers,        \* remote servers
    Actors,         \* bound: who takes part in an instance
    MaxOutages      \* bound: how often an agent goes away, loses its clients
                    \* or does what it is told without the master knowing

ActorKinds == {"enforcer", "admin", "reconciler", "cleaner", "snapshots",
               "drift"}

ASSUME EntitlementAssumption ==
    /\ Actors \subseteq ActorKinds
    /\ MaxOutages \in Nat

VARIABLES
    \* --- the master's database ---
    user,       \* the users table
    quota,      \* GetUserBillableTraffic against the effective limit
    rows,       \* user_inbound_configs
    snap,       \* server_xray_config_snapshots.current: the clients in it
    \* --- the agents ---
    clients,    \* the clients xray has
    online,     \* agents the master can reach
    outages,    \* (bound) how often something like that happened
    \* --- requests and jobs under way in the master ---
    admin,      \* the request of the admin
    enforcer,   \* TrafficLimitEnforcer.CheckAll
    listed,     \* the users CheckAll still has to visit
    late,       \* those among its list that had expired when it read it
    reconciler, \* InboundClientReconciler.runOnce: clients still to send
    cleaner,    \* OrphanXrayClientCleaner.runOnce
    \* --- for the properties only ---
    since,      \* accounts that changed since a job read its list of them
    cause       \* why a client may be served without being entitled to

vars == <<user, quota, rows, snap, clients, online, outages, admin, enforcer,
          listed, late, since, reconciler, cleaner, cause>>
jobVars == <<admin, enforcer, listed, late, since, reconciler, cleaner>>

----------------------------------------------------------------------------

Bindings == Users \X Servers

Account == [status: {"active", "disabled", "gone"},
            package: BOOLEAN, expired: BOOLEAN, over: BOOLEAN]

Fresh == [status |-> "active", package |-> FALSE, expired |-> FALSE,
          over |-> FALSE]
Gone == [Fresh EXCEPT !.status = "gone"]

\* RemovePackageFromUser.
Bare(account) == [account EXCEPT !.package = FALSE, !.expired = FALSE]

Quota == {"under", "over", "unlimited"}

\* A series of calls to agents about one user: calls still to make, clients
\* whose row is written and whose call is still to make, whether no call
\* failed, and whether the rows of the user were dropped afterwards.
Job == [op: {"none", "disable", "unassign", "delete", "expiry", "cutoff",
             "enable", "assign", "restore"},
        who: Users \cup {"nobody"}, todo: SUBSET Servers,
        hold: SUBSET Servers, ok: BOOLEAN, dropped: BOOLEAN]

NoJob == [op |-> "none", who |-> "nobody", todo |-> {}, hold |-> {},
          ok |-> TRUE, dropped |-> FALSE]

Removing == {"disable", "unassign", "delete", "expiry", "cutoff"}
Adding   == {"enable", "assign", "restore"}

Sweep == [running: BOOLEAN, known: SUBSET Users, left: SUBSET Servers]
NoSweep == [running |-> FALSE, known |-> {}, left |-> {}]

\* mutant: the rows are looked up in the snapshots
RowsInSnapshot(u) == {s \in Servers : <<u, s>> \in rows \cap snap}

\* mutant: the rows themselves, not their servers
WholeRows(u) == {b \in rows : b[1] = u}

\* GetUserInboundConfigs.
RowsOf(u) == {s \in Servers : <<u, s>> \in rows}

Begin(op, u, calls) ==
    [op |-> op, who |-> u, todo |-> calls, hold |-> {}, ok |-> TRUE,
     dropped |-> FALSE]

\* What the enforcer, the handlers and the expiry date together mean an
\* account to be: an expired package is served until the enforcer meets it.
Entitled(u) == /\ user[u].status = "active"
               /\ user[u].package
               /\ ~user[u].over

\* The admin is taking the package or the account of user u away.
AdminTakes(u) == admin.op \in {"unassign", "delete"} /\ admin.who = u

\* Someone is taking user u off the agents.
BeingRemoved(u) ==
    \E job \in {admin, enforcer} : job.op \in Removing /\ job.who = u

----------------------------------------------------------------------------
(* The bookkeeping of why a client is served:                             *)
(*   missed     an agent did not confirm a removal                        *)
(*   retried    the same, and the enforcer keeps the row to try again     *)
(*   raced      it was added while somebody was removing the user, or     *)
(*              after somebody had dropped its row                        *)
(*   uninvited  it was added to a user that was not entitled              *)

Causes == {"missed", "retried", "raced", "uninvited"}

Unexplained == [b \in Bindings |-> {}]

\* Accounts assigned a package since the enforcer read that their package had
\* expired, and accounts created since the cleaner read the names.
Since == [renewed: SUBSET Users, created: SUBSET Users]
NothingSince == [renewed |-> {}, created |-> {}]

\* The enforcer holds user u, or is about to, for expired.
HeldExpired(u) == u \in late \/ (enforcer.op = "expiry" /\ enforcer.who = u)

Mark(b, why) == cause' = [cause EXCEPT ![b] = @ \cup why]
Clear(b) == cause' = [cause EXCEPT ![b] = {}]

WhyAdded(b) == {why \in {"raced", "uninvited"} :
                   \/ why = "raced" /\ (BeingRemoved(b[1]) \/ b \notin rows')
                   \/ why = "uninvited" /\ ~Entitled(b[1])}

----------------------------------------------------------------------------
(* The calls of a job, one server at a time. An agent that can be reached *)
(* does what it is told; the master may time out and never know.          *)

Answers(s) ==
    {answered \in BOOLEAN :
        IF answered THEN s \in online
                    ELSE s \in online => outages < MaxOutages}

Spend(s, answered) ==
    outages' = IF s \in online /\ ~answered THEN outages + 1 ELSE outages

\* remove-client for a row that was read when the job began.
RemoveCall(job, s, answered) ==
    /\ job.op \in Removing
    /\ s \in job.todo
    /\ Spend(s, answered)
    /\ IF s \in online
       THEN /\ clients' = clients \ {<<job.who, s>>}
            /\ Clear(<<job.who, s>>)
       ELSE /\ Mark(<<job.who, s>>,
                    {IF job.op = "expiry" THEN "retried" ELSE "missed"})
            /\ UNCHANGED clients
    /\ UNCHANGED rows

\* The loop goes on to the next server, and remembers every failure.
AfterRemove(job, s, answered) ==
    [job EXCEPT !.todo = @ \ {s}, !.ok = @ /\ answered]

\* addUserToInbound up to getOrCreateInboundCredential: nothing happens when
\* the agent does not answer; otherwise the row is there before the client.
\* Binding a package reads the snapshot instead of the agent, and leaves a
\* client alone that has both its row and its place in the snapshot.
ReserveCall(job, s, answered) ==
    /\ job.op \in Adding
    /\ s \in job.todo
    /\ job.op = "assign" => answered = (s \in online)
    /\ Spend(s, answered)
    /\ rows' = IF job.op = "assign" \/ answered
               THEN rows \cup {<<job.who, s>>} ELSE rows
    /\ UNCHANGED <<clients, cause>>

AfterReserve(job, s, answered) ==
    [job EXCEPT !.todo = @ \ {s},
                !.hold = IF \/ job.op # "assign" /\ ~answered
                            \/ job.op = "assign" /\ <<job.who, s>> \in rows \cap snap
                         THEN @ ELSE @ \cup {s}]

\* add-client; a batch-apply that succeeds writes the row once more.
AddCall(job, s, answered) ==
    /\ job.op \in Adding
    /\ s \in job.hold
    /\ Spend(s, answered)
    /\ IF s \in online
       THEN /\ clients' = clients \cup {<<job.who, s>>}
            /\ rows' = IF job.op = "assign" /\ answered
                       THEN rows \cup {<<job.who, s>>} ELSE rows
            /\ Mark(<<job.who, s>>, WhyAdded(<<job.who, s>>))
       ELSE UNCHANGED <<clients, rows, cause>>

AfterAdd(job, s) == [job EXCEPT !.hold = @ \ {s}]

\* Every call was made.
Called(job) == job.op # "none" /\ job.todo = {} /\ job.hold = {}

\* mutant: an expired user loses its rows whatever the agents answered
DropsAnyway(job) ==
    /\ Called(job) /\ ~job.dropped
    /\ job.op \in {"unassign", "delete", "expiry"}

\* Now the rows are dropped: always when an admin takes a package or an
\* account away, when no call failed if the package expired.
Drops(job) ==
    /\ Called(job) /\ ~job.dropped
    /\ \/ job.op \in {"unassign", "delete"}
       \/ job.op = "expiry" /\ job.ok

\* Nothing is left but the account itself.
Closes(job) == Called(job) /\ ~Drops(job)

Without(u) == {b \in rows : b[1] # u}

----------------------------------------------------------------------------
(* The admin's requests, one at a time.                                   *)

Request(u) == "admin" \in Actors /\ admin = NoJob /\ user[u].status # "gone"

\* NewUserStatusHandler, disabling: the flag first, then the agents.
Disable(u) ==
    /\ Request(u)
    /\ user' = [user EXCEPT ![u].status = "disabled"]
    /\ admin' = Begin("disable", u, RowsOf(u))
    /\ UNCHANGED <<quota, rows, snap, clients, online, outages, enforcer,
                   listed, late, since, reconciler, cleaner, cause>>

\* NewUserStatusHandler, enabling: every row gets its client back.
Enable(u) ==
    /\ Request(u)
    /\ user' = [user EXCEPT ![u].status = "active"]
    /\ admin' = Begin("enable", u, RowsOf(u))
    /\ UNCHANGED <<quota, rows, snap, clients, online, outages, enforcer,
                   listed, late, since, reconciler, cleaner, cause>>

\* AssignAndProvision: the package a user already has is renewed in the
\* database only, a package the user does not have is provisioned.
Assign(u) ==
    /\ Request(u)
    /\ user' = [user EXCEPT ![u].package = TRUE, ![u].expired = FALSE]
    /\ admin' = IF user[u].package THEN NoJob ELSE Begin("assign", u, Servers)
    /\ since' = IF HeldExpired(u) THEN [since EXCEPT !.renewed = @ \cup {u}]
                ELSE since
    /\ UNCHANGED <<quota, rows, snap, clients, online, outages, enforcer,
                   listed, late, reconciler, cleaner, cause>>

\* PackageUnassignHandler and unbindUserPackage; NewUserDeleteHandler.
TakeAway(u, op) ==
    /\ Request(u)
    /\ admin' = Begin(op, u, RowsOf(u))
    /\ UNCHANGED <<user, quota, rows, snap, clients, online, outages, enforcer,
                   listed, late, since, reconciler, cleaner, cause>>

\* A user is created under a name that is free.
Create(u) ==
    /\ "admin" \in Actors /\ admin = NoJob
    /\ user[u].status = "gone"
    /\ user' = [user EXCEPT ![u] = Fresh]
    /\ since' = IF cleaner.running THEN [since EXCEPT !.created = @ \cup {u}]
                ELSE since
    /\ UNCHANGED <<quota, rows, snap, clients, online, outages, admin,
                   enforcer, listed, late, reconciler, cleaner, cause>>

AdminRemoves(s) ==
    \E answered \in Answers(s) :
        /\ RemoveCall(admin, s, answered)
        /\ admin' = AfterRemove(admin, s, answered)
        /\ UNCHANGED <<user, quota, snap, online, enforcer, listed, late,
                       since, reconciler, cleaner>>

AdminReserves(s) ==
    \E answered \in Answers(s) :
        /\ ReserveCall(admin, s, answered)
        /\ admin' = AfterReserve(admin, s, answered)
        /\ UNCHANGED <<user, quota, snap, online, enforcer, listed, late,
                       since, reconciler, cleaner>>

AdminAdds(s) ==
    \E answered \in Answers(s) :
        /\ AddCall(admin, s, answered)
        /\ admin' = AfterAdd(admin, s)
        /\ UNCHANGED <<user, quota, snap, online, enforcer, listed, late,
                       since, reconciler, cleaner>>

\* The rows go first, whatever the agents answered.
AdminDrops ==
    /\ Drops(admin)
    /\ rows' = Without(admin.who)
    /\ admin' = [admin EXCEPT !.dropped = TRUE]
    /\ UNCHANGED <<user, quota, snap, clients, online, outages, enforcer,
                   listed, late, since, reconciler, cleaner, cause>>

\* The end of a request. Deleting the account drops its rows once more.
AdminDone ==
    LET u == admin.who
    IN  /\ Closes(admin)
        /\ rows' = IF admin.op = "delete" THEN Without(u) ELSE rows
        /\ user' = CASE admin.op = "unassign" -> [user EXCEPT ![u] = Bare(@)]
                     [] admin.op = "delete" -> [user EXCEPT ![u] = Gone]
                     [] OTHER -> user
        /\ admin' = NoJob
        /\ UNCHANGED <<quota, snap, clients, online, outages, enforcer, listed,
                       late, since, reconciler, cleaner, cause>>

----------------------------------------------------------------------------
(* The traffic limit enforcer.                                            *)

\* CheckAll reads its list, expiry dates included, once.
EnforcerLists ==
    /\ "enforcer" \in Actors
    /\ enforcer = NoJob /\ listed = {}
    /\ listed' = {u \in Users : user[u].package}
    /\ late' = {u \in Users : user[u].package /\ user[u].expired}
    /\ listed' # {}
    /\ UNCHANGED <<user, quota, rows, snap, clients, online, outages, admin,
                   enforcer, since, reconciler, cleaner, cause>>

\* mutant: users without a limit are passed over before anything else
UnlimitedFirst(u, due) ==
    IF quota[u] = "unlimited" THEN "none"
    ELSE CASE u \in late                               -> "expiry"
           [] u \notin late /\ due /\ user[u].over     -> "restore"
           [] u \notin late /\ ~due /\ quota[u] = "over"
                            /\ ~user[u].over           -> "cutoff"
           [] u \notin late /\ ~due /\ quota[u] = "under"
                            /\ user[u].over            -> "restore"
           [] OTHER                                    -> "none"

\* mutant: only the monthly reset lifts a cutoff
NeverLifted(u, due) ==
    CASE u \in late                                    -> "expiry"
      [] u \notin late /\ due /\ user[u].over          -> "restore"
      [] u \notin late /\ ~due /\ quota[u] = "over"
                       /\ ~user[u].over                -> "cutoff"
      [] OTHER                                         -> "none"

\* What CheckAll decides about a user it visits; due: the monthly reset.
Verdict(u, due) ==
    CASE u \in late                                    -> "expiry"
      [] u \notin late /\ due /\ user[u].over          -> "restore"
      [] u \notin late /\ ~due /\ quota[u] = "over"
                       /\ ~user[u].over                -> "cutoff"
      [] u \notin late /\ ~due /\ quota[u] = "under"
                       /\ user[u].over                 -> "restore"
      [] OTHER                                         -> "none"

\* CheckAll visits a user: the rows are read and the calls begin.
EnforcerVisits(u) ==
    /\ enforcer = NoJob
    /\ u \in listed
    /\ listed' = listed \ {u}
    /\ late' = late \ {u}
    /\ \E due \in BOOLEAN :
          /\ quota' = IF due /\ u \notin late /\ quota[u] = "over"
                      THEN [quota EXCEPT ![u] = "under"] ELSE quota
          /\ enforcer' = IF Verdict(u, due) = "none" THEN NoJob
                         ELSE Begin(Verdict(u, due), u, RowsOf(u))
    /\ UNCHANGED <<user, rows, snap, clients, online, outages, admin,
                   since, reconciler, cleaner, cause>>

EnforcerRemoves(s) ==
    \E answered \in Answers(s) :
        /\ RemoveCall(enforcer, s, answered)
        /\ enforcer' = AfterRemove(enforcer, s, answered)
        /\ UNCHANGED <<user, quota, snap, online, admin, listed, late,
                       since, reconciler, cleaner>>

EnforcerReserves(s) ==
    \E answered \in Answers(s) :
        /\ ReserveCall(enforcer, s, answered)
        /\ enforcer' = AfterReserve(enforcer, s, answered)
        /\ UNCHANGED <<user, quota, snap, online, admin, listed, late,
                       since, reconciler, cleaner>>

EnforcerAdds(s) ==
    \E answered \in Answers(s) :
        /\ AddCall(enforcer, s, answered)
        /\ enforcer' = AfterAdd(enforcer, s)
        /\ UNCHANGED <<user, quota, snap, online, admin, listed, late,
                       since, reconciler, cleaner>>

EnforcerDrops ==
    /\ Drops(enforcer)
    /\ rows' = Without(enforcer.who)
    /\ enforcer' = [enforcer EXCEPT !.dropped = TRUE]
    /\ UNCHANGED <<user, quota, snap, clients, online, outages, admin, listed,
                   late, since, reconciler, cleaner, cause>>

\* The end of a visit: an expired user keeps its package unless every agent
\* confirmed, and being over the limit is recorded either way. The account
\* may be gone by now.
EnforcerDone ==
    LET u    == enforcer.who
        over == enforcer.op = "cutoff"
    IN  /\ Closes(enforcer)
        /\ user' = CASE user[u].status = "gone" -> user
                     [] user[u].status # "gone" /\ enforcer.op = "expiry" ->
                          IF enforcer.dropped
                          THEN [user EXCEPT ![u] = Bare(@)] ELSE user
                     [] OTHER -> [user EXCEPT ![u].over = over]
        /\ enforcer' = NoJob
        /\ since' = [since EXCEPT !.renewed = @ \ {u}]
        /\ UNCHANGED <<quota, rows, snap, clients, online, outages, admin,
                       listed, late, reconciler, cleaner, cause>>

----------------------------------------------------------------------------
(* The daily jobs and the snapshots they read.                            *)

\* buildEligibleUsers: a package that has not expired, and not over the limit.
Eligible(u) == user[u].package /\ ~user[u].expired /\ ~user[u].over

\* findMissingInboundClients.
Missing == {b \in rows \ snap : Eligible(b[1])}

ReconcilerScans ==
    /\ "reconciler" \in Actors
    /\ reconciler = {} /\ Missing # {}
    /\ reconciler' = Missing
    /\ UNCHANGED <<user, quota, rows, snap, clients, online, outages, admin,
                   enforcer, listed, late, since, cleaner, cause>>

\* applyInboundBatchOrFallback for one binding: the agent adds the client, and
\* the row is written again when it says so.
ReconcilerSends(b) ==
    \E answered \in Answers(b[2]) :
        /\ b \in reconciler
        /\ reconciler' = reconciler \ {b}
        /\ Spend(b[2], answered)
        /\ IF b[2] \in online
           THEN /\ clients' = clients \cup {b}
                /\ rows' = IF answered THEN rows \cup {b} ELSE rows
                /\ Mark(b, WhyAdded(b))
           ELSE UNCHANGED <<clients, rows, cause>>
        /\ UNCHANGED <<user, quota, snap, online, admin, enforcer, listed,
                       late, since, cleaner>>

\* mutant: only the names of active users are read
CleanerStartsActive ==
    /\ "cleaner" \in Actors
    /\ ~cleaner.running
    /\ cleaner' = [running |-> TRUE, left |-> Servers,
                   known |-> {u \in Users : user[u].status = "active"}]
    /\ UNCHANGED <<user, quota, rows, snap, clients, online, outages, admin,
                   enforcer, listed, late, since, reconciler, cause>>

\* runOnce of the cleaner reads the names of all users once.
CleanerStarts ==
    /\ "cleaner" \in Actors
    /\ ~cleaner.running
    /\ cleaner' = [running |-> TRUE, left |-> Servers,
                   known |-> {u \in Users : user[u].status # "gone"}]
    /\ UNCHANGED <<user, quota, rows, snap, clients, online, outages, admin,
                   enforcer, listed, late, since, reconciler, cause>>

\* And removes, server after server, the clients of the snapshot whose name
\* is not among them.
CleanerVisits(s) ==
    LET orphans == {b \in snap : b[2] = s /\ b[1] \notin cleaner.known}
    IN  /\ cleaner.running /\ s \in cleaner.left
        /\ cleaner' = IF cleaner.left = {s} THEN NoSweep
                      ELSE [cleaner EXCEPT !.left = @ \ {s}]
        /\ since' = IF cleaner.left = {s} THEN [since EXCEPT !.created = {}]
                    ELSE since
        /\ IF s \in online
           THEN /\ clients' = clients \ orphans
                /\ cause' = [b \in Bindings |->
                               IF b \in orphans THEN {} ELSE cause[b]]
           ELSE UNCHANGED <<clients, cause>>
        /\ UNCHANGED <<user, quota, rows, snap, online, outages, admin,
                       enforcer, listed, late, reconciler>>

\* refreshXraySnapshot, after a write to the agent or on a poll.
Refresh(s) ==
    /\ "snapshots" \in Actors
    /\ s \in online
    /\ snap' = {b \in snap : b[2] # s} \cup {b \in clients : b[2] = s}
    /\ UNCHANGED <<user, quota, rows, clients, online, outages, cause>>
    /\ UNCHANGED jobVars

----------------------------------------------------------------------------
(* The world.                                                             *)

\* The end date of a package passes.
Expire(u) ==
    /\ user[u].package /\ ~user[u].expired
    /\ user' = [user EXCEPT ![u].expired = TRUE]
    /\ UNCHANGED <<quota, rows, snap, clients, online, outages, cause>>
    /\ UNCHANGED jobVars

\* Traffic, a reset or another limit moves a user across the limit.
QuotaMoves(u) ==
    /\ user[u].status # "gone"
    /\ \E q \in Quota \ {quota[u]} : quota' = [quota EXCEPT ![u] = q]
    /\ UNCHANGED <<user, rows, snap, clients, online, outages, cause>>
    /\ UNCHANGED jobVars

GoOffline(s) ==
    /\ s \in online
    /\ outages < MaxOutages
    /\ outages' = outages + 1
    /\ online' = online \ {s}
    /\ UNCHANGED <<user, quota, rows, snap, clients, cause>>
    /\ UNCHANGED jobVars

GoOnline(s) ==
    /\ s \notin online
    /\ online' = online \cup {s}
    /\ UNCHANGED <<user, quota, rows, snap, clients, outages, cause>>
    /\ UNCHANGED jobVars

\* An inbound is rebuilt or an agent reinstalled: its clients are gone.
Drift(s) ==
    /\ "drift" \in Actors
    /\ outages < MaxOutages
    /\ outages' = outages + 1
    /\ clients' = {b \in clients : b[2] # s}
    /\ cause' = [b \in Bindings |-> IF b[2] = s THEN {} ELSE cause[b]]
    /\ UNCHANGED <<user, quota, rows, snap, online>>
    /\ UNCHANGED jobVars

----------------------------------------------------------------------------

Init ==
    /\ user = [u \in Users |-> Fresh]
    /\ quota = [u \in Users |-> "under"]
    /\ rows = {} /\ snap = {} /\ clients = {}
    /\ online = Servers /\ outages = 0
    /\ admin = NoJob /\ enforcer = NoJob
    /\ listed = {} /\ late = {} /\ since = NothingSince
    /\ reconciler = {} /\ cleaner = NoSweep
    /\ cause = Unexplained

AdminNext ==
    \/ \E u \in Users :
          \/ Disable(u) \/ Enable(u) \/ Assign(u) \/ Create(u)
          \/ TakeAway(u, "unassign") \/ TakeAway(u, "delete")
    \/ \E s \in Servers : AdminRemoves(s) \/ AdminReserves(s) \/ AdminAdds(s)
    \/ AdminDrops \/ AdminDone

EnforcerNext ==
    \/ EnforcerLists
    \/ \E u \in Users : EnforcerVisits(u)
    \/ \E s \in Servers :
          EnforcerRemoves(s) \/ EnforcerReserves(s) \/ EnforcerAdds(s)
    \/ EnforcerDrops \/ EnforcerDone

DailyNext ==
    \/ ReconcilerScans
    \/ \E b \in reconciler : ReconcilerSends(b)
    \/ CleanerStarts
    \/ \E s \in Servers : CleanerVisits(s) \/ Refresh(s)

WorldNext ==
    \/ \E u \in Users : Expire(u) \/ QuotaMoves(u)
    \/ \E s \in Servers : GoOffline(s) \/ GoOnline(s) \/ Drift(s)

Next == AdminNext \/ EnforcerNext \/ DailyNext \/ WorldNext

Spec == Init /\ [][Next]_vars

\* CheckAll runs on a ticker and every call it makes ends by a timeout; an
\* agent that went away reconnects. Nothing is promised of the other jobs or
\* of the admin.
FairSpec ==
    /\ Spec
    /\ WF_vars(EnforcerNext)
    /\ \A s \in Servers : WF_vars(GoOnline(s))

----------------------------------------------------------------------------
(* Properties.                                                            *)

\* Every variable has its type.
TypeOK ==
    /\ user \in [Users -> Account]
    /\ quota \in [Users -> Quota]
    /\ rows \in SUBSET Bindings /\ snap \in SUBSET Bindings
    /\ clients \in SUBSET Bindings /\ reconciler \in SUBSET Bindings
    /\ online \in SUBSET Servers /\ outages \in Nat
    /\ admin \in Job /\ enforcer \in Job
    /\ listed \in SUBSET Users /\ late \in SUBSET listed
    /\ cleaner \in Sweep /\ since \in Since
    /\ cause \in [Bindings -> SUBSET Causes]

\* Nobody is served by accident: a client of a user that is not entitled is
\* about to be removed, or an agent failed to confirm its removal, or it was
\* added after the removal began or although the user was not entitled.
ServedForAReason ==
    \A b \in clients :
        \/ Entitled(b[1]) \/ BeingRemoved(b[1])
        \/ cause[b] # {}

\* The master forgets a client it could not remove only when an admin takes
\* the package or the account away, or when two of its parts raced; the
\* enforcer by itself never leaves a client without its row.
OrphansExplained ==
    \A b \in clients \ rows : cause[b] \ {"retried"} # {}

\* Nobody who is entitled, and whose package runs, loses anything by accident.
\* A client of such an account goes only when an admin takes its package or the
\* account away, when the enforcer found it over its limit, when what the
\* enforcer or the cleaner read is older than the package or the account, or
\* when the agent loses it; the package goes only for the first of these
\* reasons, or with a list the enforcer read before it was renewed.
ClientsTaken ==
    \A b \in clients \ clients' :
        Entitled(b[1]) /\ ~user[b[1]].expired =>
            \/ AdminTakes(b[1])
            \/ enforcer.op = "cutoff" /\ enforcer.who = b[1]
            \/ b[1] \in since.renewed \cup since.created
            \/ UNCHANGED jobVars

PackagesTaken ==
    \A u \in Users :
        user[u].package /\ ~user[u].expired /\ ~user'[u].package =>
            AdminTakes(u) \/ u \in since.renewed

TakenForAReason == [][ClientsTaken /\ PackagesTaken]_vars

\* Every package that expired is taken away in the end, whoever answers late,
\* unless it is renewed: a removal an agent did not confirm is tried again.
ExpiryEnforced ==
    \A u \in Users :
        user[u].package /\ user[u].expired
            ~> ~user[u].package \/ ~user[u].expired

\* The flag of a user with a limit follows its traffic in the end, both ways.
QuotaEnforced ==
    \A u \in Users :
        user[u].package /\ quota[u] # "unlimited"
                        /\ user[u].over # (quota[u] = "over")
            ~> \/ ~user[u].package \/ quota[u] = "unlimited"
               \/ user[u].over = (quota[u] = "over")
=============================================================================
