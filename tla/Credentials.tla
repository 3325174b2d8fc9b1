----------------------------- MODULE Credentials -----------------------------
(***************************************************************************)
(* The credential of one user on one inbound: the row the subscriptions    *)
(* are written from (user_inbound_configs), the clients the agent has, and *)
(* the copy of the inbound the panel remembers (InboundCache, the current  *)
(* snapshot).  handler/packages.go, inbound_batch_apply.go,                *)
(* credential_email_migrator.go and orphan_inbound_config_backfiller.go.   *)
(* The agent is external: it adds a client unless one has the secret, and  *)
(* removes clients by their secret.                                        *)
(***************************************************************************)
EXTENDS Naturals, FiniteSets

CONSTANTS Workers,     \* goroutines that provision or remove the user
          Protocols,   \* protocols the inbound may have
          MaxSecrets,  \* bound: secrets generated
          MaxRows,     \* bound: rows inserted
          Troubles,    \* what may go wrong in this instance
          Endings      \* bound: excuses after which nothing more starts

AllTroubles == {"rebuild", "failedCall", "migrate", "backfill", "cacheMiss"}

NoProto == "none"
Nobody  == "nobody"

ASSUME CredentialAssumption ==
    /\ Protocols # {} /\ NoProto \notin Protocols /\ Nobody \notin Workers
    /\ Troubles \subseteq AllTroubles
    /\ MaxSecrets \in Nat \ {0} /\ MaxRows \in Nat \ {0}

VARIABLES
  row,      \* the row: [id, proto, secret, mail], or NoRow
  agent,    \* the inbound on the agent: [proto, clients]
  cache,    \* the inbound as the panel remembers it; NoInbound on a miss
  worker,   \* per worker: [pc, how, seen: the inbound it read, cred]
  lock,     \* inboundCredLock of this user and inbound
  migrator, \* CredentialEmailMigrator: [pc, old]
  filler,   \* OrphanInboundConfigBackfiller: [pc, found]
  secrets,  \* how many secrets were generated
  rows,     \* how many rows were inserted
  excuse    \* history: "race", a row dropped or backfilled while others were at
            \* work, "rebuild", "failure"

credVars == <<row, agent, cache, worker, lock, migrator, filler, secrets, rows,
              excuse>>

\* "new" is username__tag, "old" what was written before that.
Mails     == {"new", "old"}
Client    == [secret : 1..MaxSecrets, mail : Mails]
NoRow     == [id |-> 0, proto |-> NoProto, secret |-> 0, mail |-> "new"]
NoInbound == [proto |-> NoProto, clients |-> {}]
NoCred    == [secret |-> 0, mail |-> "new", proto |-> NoProto]
Resting   == [pc |-> "idle", how |-> "batch", seen |-> NoInbound, cred |-> NoCred]

HasRow == row # NoRow
Secrets(clients) == {c.secret : c \in clients}
CredOf(r) == [secret |-> r.secret, mail |-> r.mail, proto |-> r.proto]
AsClient(cred) == [secret |-> cred.secret, mail |-> cred.mail]

\* extractClientByEmail knows the new form only.
ByEmail(inbound) == {c \in inbound.clients : c.mail = "new"}

\* Every protocol of the inbound, a legacy row with its client, or a client
\* nobody wrote a row for.
CredInit ==
    /\ \E p \in Protocols :
          \/ /\ row = NoRow /\ secrets = 0 /\ rows = 0
             /\ agent = [proto |-> p, clients |-> {}]
          \/ /\ "migrate" \in Troubles
             /\ row = [id |-> 1, proto |-> p, secret |-> 1, mail |-> "old"]
             /\ secrets = 1 /\ rows = 1
             /\ agent = [proto |-> p, clients |-> {[secret |-> 1, mail |-> "old"]}]
          \/ /\ "backfill" \in Troubles
             /\ row = NoRow /\ secrets = 1 /\ rows = 0
             /\ agent = [proto |-> p, clients |-> {[secret |-> 1, mail |-> "new"]}]
    /\ cache = agent
    /\ worker = [w \in Workers |-> Resting]
    /\ lock = Nobody
    /\ migrator = [pc |-> "due", old |-> NoRow]
    /\ filler = [pc |-> "due", found |-> NoCred]
    /\ excuse = {}

-----------------------------------------------------------------------------
(* Writing the row *)

\* SaveUserInboundConfig: ON CONFLICT DO NOTHING, the first row stays.
Saved(cred) == IF HasRow THEN row
               ELSE [id |-> rows + 1, proto |-> cred.proto, secret |-> cred.secret,
                     mail |-> cred.mail]

Save(cred) == /\ rows < MaxRows
              /\ row' = Saved(cred)
              /\ rows' = IF HasRow THEN rows ELSE rows + 1

Step(w, pc)  == worker' = [worker EXCEPT ![w].pc = pc]
With(w, pc, cred) == worker' = [worker EXCEPT ![w].pc = pc, ![w].cred = cred]
Rest(w)      == worker' = [worker EXCEPT ![w] = Resting]

\* Others are between reading the row and the end of their work.
OthersAtWork(w) == \/ \E v \in Workers \ {w} : worker[v].pc # "idle"
                   \/ migrator.pc \in {"remove", "add", "update"} \/ filler.pc = "save"
MayStart        == excuse \cap Endings = {}
Raced(overlap)  == excuse' = IF overlap THEN excuse \cup {"race"} ELSE excuse

-----------------------------------------------------------------------------
(* Provisioning *)

\* collectInboundClientAddItem: from the cache and the row, without the lock.
\* On a miss the worker asks the agent itself.
Collect(w) ==
    /\ worker[w].pc = "idle" /\ MayStart
    /\ IF cache = NoInbound
       THEN worker' = [worker EXCEPT ![w].pc = "fetch", ![w].how = "single"]
       ELSE IF HasRow /\ row.proto = cache.proto
       THEN IF ByEmail(cache) # {} THEN UNCHANGED worker
            ELSE With(w, "send", CredOf(row))
       ELSE worker' = [worker EXCEPT ![w].pc = "lock", ![w].seen = cache]
    /\ Raced(\E v \in Workers \ {w} : worker[v].pc \in {"remove", "drop"})
    /\ UNCHANGED <<row, agent, cache, lock, migrator, filler, secrets, rows>>

\* addUserToInbound reads the inbound from the agent; without it, an error.
Fetch(w) ==
    /\ worker[w].pc = "fetch"
    /\ \/ /\ agent # NoInbound
          /\ worker' = [worker EXCEPT ![w].pc = "lock", ![w].seen = agent]
          /\ UNCHANGED excuse
       \/ /\ agent = NoInbound \/ "failedCall" \in Troubles
          /\ Rest(w)
          /\ excuse' = excuse \cup {"failure"}
    /\ UNCHANGED <<row, agent, cache, lock, migrator, filler, secrets, rows>>

\* mutant: the row is not read again under the lock
DecideAnew(w) ==
    LET inbound == worker[w].seen IN
    /\ worker[w].pc = "lock" /\ lock = Nobody
    /\ lock' = w
    /\ secrets < MaxSecrets
    /\ secrets' = secrets + 1
    /\ With(w, "save", [secret |-> secrets + 1, mail |-> "new",
                        proto |-> inbound.proto])
    /\ UNCHANGED <<row, agent, cache, migrator, filler, rows, excuse>>

\* getOrCreateInboundCredential, under the lock of user, server and inbound:
\* the row if it has the protocol, else the agent's client of that email, else
\* a new secret.
Decide(w) ==
    LET inbound == worker[w].seen IN
    /\ worker[w].pc = "lock" /\ lock = Nobody
    /\ IF HasRow /\ row.proto = inbound.proto
       THEN With(w, "send", CredOf(row)) /\ UNCHANGED <<lock, secrets>>
       ELSE /\ lock' = w
            /\ IF ByEmail(inbound) # {}
               THEN /\ \E c \in ByEmail(inbound) :
                          With(w, "save", [secret |-> c.secret, mail |-> c.mail,
                                           proto |-> inbound.proto])
                    /\ UNCHANGED secrets
               ELSE /\ secrets < MaxSecrets
                    /\ secrets' = secrets + 1
                    /\ With(w, "save", [secret |-> secrets + 1, mail |-> "new",
                                        proto |-> inbound.proto])
    /\ UNCHANGED <<row, agent, cache, migrator, filler, rows, excuse>>

\* The row is written before the lock is left; the credential goes out whether
\* or not the row took it.
SaveAndUnlock(w) ==
    /\ worker[w].pc = "save" /\ lock = w
    /\ Save(worker[w].cred)
    /\ lock' = Nobody
    /\ Step(w, "send")
    /\ UNCHANGED <<agent, cache, migrator, filler, secrets, excuse>>

\* batch-apply or add-client: one with the same secret is left as it is.
Added(clients, cred) == IF cred.secret \in Secrets(clients) THEN clients
                        ELSE clients \cup {AsClient(cred)}

SendAdd(w) ==
    /\ worker[w].pc = "send" /\ agent.proto = worker[w].cred.proto
    /\ agent' = [agent EXCEPT !.clients = Added(@, worker[w].cred)]
    /\ IF worker[w].how = "batch" THEN Step(w, "record") ELSE Rest(w)
    /\ UNCHANGED <<row, cache, lock, migrator, filler, secrets, rows, excuse>>

\* An error, after the agent has applied it or without: a batch falls back to
\* a single add, which decides again.
AddFails(w) ==
    /\ worker[w].pc = "send"
    /\ \/ agent.proto # worker[w].cred.proto /\ UNCHANGED agent
       \/ "failedCall" \in Troubles /\ agent.proto = worker[w].cred.proto
          /\ agent' \in {agent, [agent EXCEPT !.clients = Added(@, worker[w].cred)]}
    /\ IF worker[w].how = "batch"
       THEN worker' = [worker EXCEPT ![w] = [Resting EXCEPT !.pc = "fetch",
                                                            !.how = "single"]]
            /\ UNCHANGED excuse
       ELSE Rest(w) /\ excuse' = excuse \cup {"failure"}
    /\ UNCHANGED <<row, cache, lock, migrator, filler, secrets, rows>>

\* applyInboundClientsBatchToAgent saves every item once more.
Record(w) ==
    /\ worker[w].pc = "record"
    /\ Save(worker[w].cred)
    /\ Rest(w)
    /\ UNCHANGED <<agent, cache, lock, migrator, filler, secrets, excuse>>

-----------------------------------------------------------------------------
(* Removing *)

\* syncInboundUsersAfterNodeChange and the enforcer: remove-client with the
\* secret of the row that was read, then the row, if the agent confirmed.
StartRemove(w) ==
    /\ worker[w].pc = "idle" /\ HasRow /\ MayStart
    /\ With(w, "remove", CredOf(row))
    /\ Raced(OthersAtWork(w))
    /\ UNCHANGED <<row, agent, cache, lock, migrator, filler, secrets, rows>>

Without(clients, secret) == {c \in clients : c.secret # secret}

SendRemove(w) ==
    /\ worker[w].pc = "remove"
    /\ \/ /\ agent' = [agent EXCEPT !.clients = Without(@, worker[w].cred.secret)]
          /\ Step(w, "drop")
          /\ UNCHANGED excuse
       \/ /\ "failedCall" \in Troubles
          /\ agent' \in {agent, [agent EXCEPT !.clients =
                                   Without(@, worker[w].cred.secret)]}
          /\ Rest(w)
          /\ excuse' = excuse \cup {"failure"}
    /\ UNCHANGED <<row, cache, lock, migrator, filler, secrets, rows>>

\* DeleteUserInboundConfig by user, server and tag, whichever row that is now.
DropRow(w) ==
    /\ worker[w].pc = "drop"
    /\ row' = NoRow
    /\ Rest(w)
    /\ UNCHANGED <<agent, cache, lock, migrator, filler, secrets, rows, excuse>>

-----------------------------------------------------------------------------
(* The agent and the copy of it *)

\* The inbound is deleted and made again, with any protocol and no clients.
Rebuild ==
    /\ "rebuild" \in Troubles
    /\ \E p \in Protocols \cup {NoProto} : agent' = [proto |-> p, clients |-> {}]
    /\ excuse' = excuse \cup {"rebuild"}
    /\ UNCHANGED <<row, cache, worker, lock, migrator, filler, secrets, rows>>

\* SyncFromConfig after a snapshot was stored; Invalidate, or a new process.
Refresh == cache' = agent
Forget  == "cacheMiss" \in Troubles /\ cache' = NoInbound

CacheChanges == /\ Refresh \/ Forget
                /\ UNCHANGED <<row, agent, worker, lock, migrator, filler, secrets,
                               rows, excuse>>

-----------------------------------------------------------------------------
(* CredentialEmailMigrator.migrateOne: remove the old form, add the new *)

NewForm(r) == [CredOf(r) EXCEPT !.mail = "new"]

MigratorLists ==
    /\ "migrate" \in Troubles /\ migrator.pc = "due" /\ row.mail = "old" /\ MayStart
    /\ migrator' = [pc |-> "remove", old |-> row]
    /\ Raced(\E w \in Workers : worker[w].pc \in {"remove", "drop"})
    /\ UNCHANGED <<row, agent, cache, worker, lock, filler, secrets, rows>>

\* An agent without the inbound: only the row is rewritten.
MigratorRemoves ==
    /\ migrator.pc = "remove"
    /\ \/ /\ agent # NoInbound
          /\ agent' = [agent EXCEPT !.clients = Without(@, migrator.old.secret)]
          /\ migrator' = [migrator EXCEPT !.pc = "add"]
          /\ UNCHANGED excuse
       \/ agent = NoInbound /\ migrator' = [migrator EXCEPT !.pc = "update"]
          /\ UNCHANGED <<agent, excuse>>
       \/ /\ "failedCall" \in Troubles
          /\ agent' \in {agent, [agent EXCEPT !.clients =
                                   Without(@, migrator.old.secret)]}
          /\ migrator' = [migrator EXCEPT !.pc = "due"]
          /\ excuse' = excuse \cup {"failure"}
    /\ UNCHANGED <<row, cache, worker, lock, filler, secrets, rows>>

\* mutant: a failed add is not rolled back
MigratorAddsOnly ==
    /\ migrator.pc = "add"
    /\ \/ /\ agent.proto = migrator.old.proto
          /\ agent' = [agent EXCEPT !.clients = Added(@, NewForm(migrator.old))]
          /\ migrator' = [migrator EXCEPT !.pc = "update"]
       \/ UNCHANGED agent /\ migrator' = [migrator EXCEPT !.pc = "due"]
    /\ UNCHANGED <<row, cache, worker, lock, filler, secrets, rows, excuse>>

\* A failed add is rolled back with the old form; that may fail as well.
MigratorAdds ==
    /\ migrator.pc = "add"
    /\ \/ /\ agent.proto = migrator.old.proto
          /\ agent' = [agent EXCEPT !.clients = Added(@, NewForm(migrator.old))]
          /\ migrator' = [migrator EXCEPT !.pc = "update"]
          /\ UNCHANGED excuse
       \/ /\ "failedCall" \in Troubles \/ agent.proto # migrator.old.proto
          /\ \/ /\ agent.proto = migrator.old.proto
                /\ agent' = [agent EXCEPT !.clients = Added(@, CredOf(migrator.old))]
                /\ UNCHANGED excuse
             \/ UNCHANGED agent /\ excuse' = excuse \cup {"failure"}
          /\ migrator' = [migrator EXCEPT !.pc = "due"]
    /\ UNCHANGED <<row, cache, worker, lock, filler, secrets, rows>>

\* UpdateUserInboundCredentialJSONByID: a row made since then has another id.
MigratorUpdates ==
    /\ migrator.pc = "update"
    /\ row' = IF row.id = migrator.old.id THEN [row EXCEPT !.mail = "new"] ELSE row
    /\ migrator' = [migrator EXCEPT !.pc = "done"]
    /\ UNCHANGED <<agent, cache, worker, lock, filler, secrets, rows, excuse>>

-----------------------------------------------------------------------------
(* OrphanInboundConfigBackfiller.runOnce: a row for a client of the snapshot *)

FillerLists ==
    /\ "backfill" \in Troubles /\ filler.pc = "due" /\ ~HasRow /\ MayStart
    /\ \E c \in cache.clients :
          filler' = [pc |-> "save", found |-> [secret |-> c.secret, mail |-> c.mail,
                                               proto |-> cache.proto]]
    /\ Raced(cache # agent \/ \E w \in Workers : worker[w].pc # "idle")
    /\ UNCHANGED <<row, agent, cache, worker, lock, migrator, secrets, rows>>

FillerSaves ==
    /\ filler.pc = "save"
    /\ Save(filler.found)
    /\ filler' = [filler EXCEPT !.pc = "done"]
    /\ Raced(\E w \in Workers : worker[w].pc # "idle")
    /\ UNCHANGED <<agent, cache, worker, lock, migrator, secrets>>

-----------------------------------------------------------------------------
CredNext ==
    \/ \E w \in Workers :
          \/ Collect(w) \/ Fetch(w) \/ Decide(w) \/ SaveAndUnlock(w) \/ SendAdd(w)
          \/ AddFails(w) \/ Record(w) \/ StartRemove(w) \/ SendRemove(w) \/ DropRow(w)
    \/ Rebuild \/ CacheChanges
    \/ MigratorLists \/ MigratorRemoves \/ MigratorAdds \/ MigratorUpdates
    \/ FillerLists \/ FillerSaves

CredSpec == CredInit /\ [][CredNext]_credVars

-----------------------------------------------------------------------------
(* Properties *)

\* Type invariant of the credential.
CredTypeOK ==
    /\ HasRow => row \in [id : 1..MaxRows, proto : Protocols,
                          secret : 1..MaxSecrets, mail : Mails]
    /\ agent \in [proto : Protocols \cup {NoProto}, clients : SUBSET Client]
    /\ cache \in [proto : Protocols \cup {NoProto}, clients : SUBSET Client]
    /\ lock \in Workers \cup {Nobody}
    /\ excuse \subseteq {"race", "rebuild", "failure"}

\* However many goroutines provision a user at the same time, and through
\* whichever path, the inbound gets one client of the user
\* (getOrCreateInboundCredential): unless a row was dropped or backfilled under
\* them or the inbound was made again.
OneClientPerUser ==
    excuse \cap {"race", "rebuild"} = {} => Cardinality(agent.clients) <= 1

Quiet == /\ \A w \in Workers : worker[w].pc = "idle"
         /\ migrator.pc \in {"due", "done"}

\* The secret a subscription is written from is one the agent accepts, once
\* everyone is done and no call failed.
RowIsServed ==
    Quiet /\ HasRow /\ excuse = {} => row.secret \in Secrets(agent.clients)
=============================================================================
