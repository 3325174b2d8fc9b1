--------------------------- MODULE RoutedOutbound ---------------------------
(***************************************************************************)
(* Routed outbounds: a node of the panel that is, on the agent, a client   *)
(* of the parent inbound, an outbound and a routing rule that sends the    *)
(* client to the outbound.  handler/routed_outbound.go (shared nodes, to   *)
(* which packages subscribe members), handler/user_routed_outbound.go (the *)
(* private nodes of a user, suspended and resumed with him).  Every step   *)
(* below is one call to the agent or one statement on the tables; the      *)
(* agent is external, and its rules are a list.                            *)
(***************************************************************************)
EXTENDS Naturals, SequencesExt

CONSTANTS Marks,        \* marktag, which is also the outbound tag
          PrivateMarks, \* those of nodes with routed_owner = 'user'
          Admins,       \* requests and background jobs that run at a time
          MaxIds,       \* bound: rows inserted
          MaxRules,     \* bound: rules the agent has
          MaxFailures,  \* bound: calls and statements that fail
          MaxHurt       \* bound: marks in hurt after which no task starts

Free == "free"

ASSUME RoutedAssumption == /\ Marks # {} /\ PrivateMarks \subseteq Marks /\ Free \notin Admins
                           /\ MaxIds \in Nat /\ MaxRules \in Nat /\ MaxFailures \in Nat
                           /\ MaxHurt \in Nat

VARIABLES
  rules,    \* agent: sequence of [mark, users]
  outs,     \* agent: outbounds
  clients,  \* agent: <<mark, who>>, a client of the parent inbound
  routed,   \* nodes of type routed: function from the ids in use to marks
  subs,     \* user_subaccounts: <<id, who>> -> is_active, also of deleted nodes
  ids,      \* ids given out
  job,      \* what each admin is at: [task, pc, id, mark, who, seen]
  holder,   \* routingMutateLocks of this server
  dirty,    \* history: a rule was written without the lock while it was held
  failures, \* calls and statements that failed
  hurt      \* history: marks that a failed call, a step on the same mark, or a
            \* write of somebody else's copy of the rules went over

routedVars == <<rules, outs, clients, routed, subs, ids, job, holder, dirty,
                failures, hurt>>

\* The creator has the placeholder client; a member has a package.
Emails == {"creator", "member"}
NoJob  == [task |-> "none", pc |-> "idle", id |-> 0, mark |-> CHOOSE m \in Marks : TRUE,
           who |-> "creator", seen |-> <<>>]
Rule(m, who) == [mark |-> m, users |-> {who}]

RoutedInit ==
    /\ rules = <<>> /\ outs = {} /\ clients = {}
    /\ routed = <<>> /\ subs = <<>> /\ ids = 0
    /\ job = [a \in Admins |-> NoJob]
    /\ holder = Free /\ dirty = FALSE /\ failures = 0 /\ hurt = {}

-----------------------------------------------------------------------------
(* Calls *)

Positions(rs, m) == {i \in DOMAIN rs : rs[i].mark = m}
HasRule(rs, m)   == Positions(rs, m) # {}
First(rs, m)     == CHOOSE i \in Positions(rs, m) : \A j \in Positions(rs, m) : i <= j
Define(f, key, value) == [k \in DOMAIN f \cup {key} |-> IF k = key THEN value ELSE f[k]]
Undefine(f, keys)     == [k \in DOMAIN f \ keys |-> f[k]]

Goto(a, pc) == job' = [job EXCEPT ![a].pc = pc]
Done(a)     == job' = [job EXCEPT ![a] = NoJob]

\* A call is answered, or fails after it was applied, or before.
Answered(applied) ==
    /\ applied
    /\ UNCHANGED <<failures, hurt>>
Failed(a, applied, unapplied) ==
    /\ failures < MaxFailures
    /\ failures' = failures + 1
    /\ hurt' = hurt \cup {job[a].mark}
    /\ applied \/ unapplied

\* A call whose error is only logged, or makes the handler go elsewhere.
Calls(a, applied, unapplied, next, onError) ==
    \/ Answered(applied) /\ Goto(a, next)
    \/ Failed(a, applied, unapplied) /\ Goto(a, onError)

OthersOn(a, m) == \E b \in Admins \ {a} : job[b].task # "none" /\ job[b].mark = m
Start(a, task, pc, id, m, who) ==
    /\ job[a] = NoJob
    /\ Cardinality(hurt) < MaxHurt
    /\ job' = [job EXCEPT ![a] = [task |-> task, pc |-> pc, id |-> id, mark |-> m,
                                  who |-> who, seen |-> <<>>]]
    /\ hurt' = IF OthersOn(a, m) THEN hurt \cup {m} ELSE hurt
    /\ UNCHANGED <<rules, outs, clients, routed, subs, ids, holder, dirty, failures>>

\* Writing a rule outside routingMutateLocks.
Unlocked == dirty' = (dirty \/ holder # Free)

-----------------------------------------------------------------------------
(* The steps of the agent the handlers are made of *)

\* peekInboundClientByEmail, addClientToInbound: idempotent by email here.
PutClient(a, next, onError) ==
    /\ Calls(a, clients' = clients \cup {<<job[a].mark, job[a].who>>},
             UNCHANGED clients, next, onError)
    /\ UNCHANGED <<rules, outs, routed, subs, ids, holder, dirty>>

TakeClients(a, who, next) ==
    /\ Calls(a, clients' = clients \ ({job[a].mark} \X who), UNCHANGED clients,
             next, next)
    /\ UNCHANGED <<rules, outs, routed, subs, ids, holder, dirty>>

PutOutbound(a, next, onError) ==
    /\ IF job[a].mark \in outs
       THEN Goto(a, onError) /\ UNCHANGED <<outs, failures, hurt>>
       ELSE Calls(a, outs' = outs \cup {job[a].mark}, UNCHANGED outs, next, onError)
    /\ UNCHANGED <<rules, clients, routed, subs, ids, holder, dirty>>

TakeOutbound(a, next) ==
    /\ Calls(a, outs' = outs \ {job[a].mark}, UNCHANGED outs, next, next)
    /\ UNCHANGED <<rules, clients, routed, subs, ids, holder, dirty>>

\* add_rule appends, whether or not there is such a rule.
PutRule(a, next, onError) ==
    LET j == job[a]
        added == rules' = Append(rules, Rule(j.mark, j.who)) IN
    /\ Len(rules) < MaxRules
    /\ \/ /\ ~HasRule(rules, j.mark)
          /\ Calls(a, added, UNCHANGED rules, next, onError)
       \/ /\ HasRule(rules, j.mark)
          /\ added /\ hurt' = hurt \cup {j.mark} /\ UNCHANGED failures
          /\ Goto(a, next)
    /\ Unlocked
    /\ UNCHANGED <<outs, clients, routed, subs, ids, holder>>

\* removeRuleByMarktag: read the rules, then remove the one at that index.
ReadRules(a, next, none) ==
    /\ \/ /\ HasRule(rules, job[a].mark)
          /\ job' = [job EXCEPT ![a].pc = next, ![a].seen = rules]
          /\ UNCHANGED <<failures, hurt>>
       \/ /\ ~HasRule(rules, job[a].mark)
          /\ Goto(a, none) /\ UNCHANGED <<failures, hurt>>
       \/ Failed(a, TRUE, TRUE) /\ Goto(a, none)
    /\ UNCHANGED <<rules, outs, clients, routed, subs, ids, holder, dirty>>

RemoveAtIndex(a, next) ==
    LET i == First(job[a].seen, job[a].mark) IN
    /\ \/ /\ i \in DOMAIN rules
          /\ rules' = RemoveAt(rules, i)
          /\ hurt' = IF rules[i].mark = job[a].mark THEN hurt
                     ELSE hurt \cup {rules[i].mark, job[a].mark}
          /\ UNCHANGED failures
       \/ /\ i \notin DOMAIN rules
          /\ hurt' = hurt \cup {job[a].mark}
          /\ UNCHANGED <<rules, failures>>
       \/ Failed(a, FALSE, UNCHANGED rules)
    /\ Unlocked
    /\ job' = [job EXCEPT ![a].pc = next, ![a].seen = <<>>]
    /\ UNCHANGED <<outs, clients, routed, subs, ids, holder>>

-----------------------------------------------------------------------------
(* RoutedOutboundHandler.create, UserRoutedOutboundHandler.create *)

StartCreate(a, m) ==
    /\ \A i \in DOMAIN routed : routed[i] # m
    /\ Start(a, "create", "client", 0, m, "creator")

\* Errors undo what was done; the errors of undoing are ignored.
CreateStep(a) ==
    /\ job[a].task = "create"
    /\ \/ job[a].pc = "client" /\ PutClient(a, "outbound", "stop")
       \/ job[a].pc = "outbound" /\ PutOutbound(a, "rule", "undoClient")
       \/ job[a].pc = "rule" /\ PutRule(a, "row", "undoOutbound")
       \/ job[a].pc = "undoOutbound" /\ TakeOutbound(a, "undoClient")
       \/ job[a].pc = "undoClient" /\ TakeClients(a, {"creator"}, "stop")

\* CreateRoutedNode: an id never given out before; what is left of the request is to
\* record its owner.  If it fails, what is on the agent stays.
CreateRow(a) ==
    /\ job[a].task = "create" /\ job[a].pc = "row" /\ ids < MaxIds
    /\ \/ /\ Answered(/\ ids' = ids + 1
                      /\ routed' = Define(routed, ids', job[a].mark))
          /\ job' = [job EXCEPT ![a].task = "record", ![a].pc = "owner", ![a].id = ids']
       \/ Failed(a, FALSE, UNCHANGED <<ids, routed>>) /\ Done(a)
    /\ UNCHANGED <<rules, outs, clients, subs, holder, dirty>>

\* UpsertUserSubaccount for the creator; a failure is only logged.
OwnerRow(a) ==
    /\ job[a].task = "record" /\ job[a].pc = "owner"
    /\ \/ Answered(subs' = Define(subs, <<job[a].id, "creator">>, TRUE))
       \/ Failed(a, FALSE, UNCHANGED subs)
    /\ Done(a)
    /\ UNCHANGED <<rules, outs, clients, routed, ids, holder, dirty>>

-----------------------------------------------------------------------------
(* Deleting; the delete of a user is a delete of each of his nodes *)

StartDelete(a, i) ==
    i \in DOMAIN routed /\ Start(a, "delete", "read", i, routed[i], "creator")

\* Who has a client as the tables say: the subaccounts, and the placeholder that a
\* shared node keeps in its own row.
Subscribers(a) == {e \in Emails : <<job[a].id, e>> \in DOMAIN subs}
Placeholder(m) == IF m \in PrivateMarks THEN {} ELSE {"creator"}

\* mutant: the clients of the members stay
DeleteStepOwn(a) ==
    /\ job[a].task = "delete"
    /\ \/ job[a].pc = "read" /\ ReadRules(a, "remove", "outbound")
       \/ job[a].pc = "remove" /\ RemoveAtIndex(a, "outbound")
       \/ job[a].pc = "outbound" /\ TakeOutbound(a, "clients")
       \/ job[a].pc = "clients" /\ TakeClients(a, {"creator"}, "row")

DeleteStep(a) ==
    /\ job[a].task = "delete"
    /\ \/ job[a].pc = "read" /\ ReadRules(a, "remove", "outbound")
       \/ job[a].pc = "remove" /\ RemoveAtIndex(a, "outbound")
       \/ job[a].pc = "outbound" /\ TakeOutbound(a, "clients")
       \/ job[a].pc = "clients"
          /\ TakeClients(a, Placeholder(job[a].mark) \cup Subscribers(a), "row")

\* DeleteRoutedNode: the row of the node alone.  Its comment says that the
\* subaccounts go by a foreign key, but the table has none and SQLite's are off:
\* they stay as they are.
DeleteRow(a) ==
    /\ job[a].task = "delete" /\ job[a].pc = "row"
    /\ \/ Answered(routed' = Undefine(routed, {job[a].id}))
       \/ Failed(a, FALSE, UNCHANGED routed)
    /\ Done(a)
    /\ UNCHANGED <<rules, outs, clients, subs, ids, holder, dirty>>

-----------------------------------------------------------------------------
(* suspendUserPrivateRouted, resumeUserPrivateRouted *)

Private(i) == i \in DOMAIN routed /\ routed[i] \in PrivateMarks

StartSuspend(a, i) == Private(i) /\ Start(a, "suspend", "read", i, routed[i], "creator")
StartResume(a, i)  == /\ Private(i) /\ <<i, "creator">> \in DOMAIN subs
                      /\ Start(a, "resume", "client", i, routed[i], "creator")

SuspendStep(a) ==
    /\ job[a].task = "suspend"
    /\ \/ job[a].pc = "read" /\ ReadRules(a, "remove", "client")
       \/ job[a].pc = "remove" /\ RemoveAtIndex(a, "client")
       \/ job[a].pc = "client" /\ TakeClients(a, {"creator"} \cap Subscribers(a), "flag")

ResumeStep(a) ==
    /\ job[a].task = "resume"
    /\ \/ job[a].pc = "client" /\ PutClient(a, "rule", "stop")
       \/ job[a].pc = "rule" /\ PutRule(a, "flag", "undoClient")
       \/ job[a].pc = "undoClient" /\ TakeClients(a, {"creator"}, "stop")

\* SetSubaccountActive, if there is a subaccount; nobody looks at its error.
Flag(a, active) ==
    LET key == <<job[a].id, job[a].who>> IN
    /\ job[a].pc = "flag"
    /\ \/ Answered(subs' = IF key \in DOMAIN subs THEN [subs EXCEPT ![key] = active] ELSE subs)
       \/ key \in DOMAIN subs /\ Failed(a, FALSE, UNCHANGED subs)
    /\ Done(a)
    /\ UNCHANGED <<rules, outs, clients, routed, ids, holder, dirty>>

-----------------------------------------------------------------------------
(* Members of a shared node: applyRoutedBatchToAgent, or prepare and set *)

StartSubscribe(a, i) ==
    /\ i \in DOMAIN routed /\ ~Private(i)
    /\ \E pc \in {"batch", "client"} : Start(a, "subscribe", pc, i, routed[i], "member")

\* mutant: the list of users is written anew
OnlyUser(rs, m, who) ==
    IF HasRule(rs, m) THEN [rs EXCEPT ![First(rs, m)].users = {who}] ELSE rs

WithUser(rs, m, who) ==
    IF HasRule(rs, m) THEN [rs EXCEPT ![First(rs, m)].users = @ \cup {who}] ELSE rs

\* One call under the lock; an item without a rule is not recorded.
Batch(a) ==
    LET j == job[a] IN
    /\ j.task = "subscribe" /\ j.pc = "batch" /\ holder = Free
    /\ \/ Answered(/\ clients' = clients \cup {<<j.mark, j.who>>}
                   /\ rules' = WithUser(rules, j.mark, j.who))
          /\ Goto(a, IF HasRule(rules, j.mark) THEN "upsert" ELSE "stop")
       \/ Failed(a, /\ clients' = clients \cup {<<j.mark, j.who>>}
                    /\ rules' = WithUser(rules, j.mark, j.who),
                 UNCHANGED <<rules, clients>>)
          /\ Goto(a, "stop")
    /\ UNCHANGED <<outs, routed, subs, ids, holder, dirty>>

\* An old agent: the client, the row, then GET and SET under the lock.
FallbackClient(a) ==
    job[a].task = "subscribe" /\ job[a].pc = "client" /\ PutClient(a, "upsertThenSet", "stop")

\* UpsertUserSubaccount: active, also for a node that is gone by now.
Upsert(a) ==
    /\ job[a].task = "subscribe" /\ job[a].pc \in {"upsert", "upsertThenSet"}
    /\ \/ /\ Answered(subs' = Define(subs, <<job[a].id, job[a].who>>, TRUE))
          /\ Goto(a, IF job[a].pc = "upsert" THEN "stop" ELSE "get")
       \/ Failed(a, FALSE, UNCHANGED subs) /\ Goto(a, "stop")
    /\ UNCHANGED <<rules, outs, clients, routed, ids, holder, dirty>>

\* applyRoutingAdditionsBatch, mutateRoutingRuleUserByOutboundTag.
GetRouting(a) ==
    /\ job[a].task = "subscribe" /\ job[a].pc = "get" /\ holder = Free
    /\ holder' = a
    /\ job' = [job EXCEPT ![a].pc = "set", ![a].seen = rules]
    /\ UNCHANGED <<rules, outs, clients, routed, subs, ids, dirty, failures, hurt>>

\* Marks whose rules two lists do not agree on.
Users(rs, m)   == {rs[i].users : i \in Positions(rs, m)}
Several(rs, m) == \E i, j \in Positions(rs, m) : i # j
Differ(rs, qs) == {m \in Marks : \/ Users(rs, m) # Users(qs, m)
                                 \/ Several(rs, m) # Several(qs, m)}

SetRouting(a) ==
    LET j == job[a] IN
    /\ j.task = "subscribe" /\ j.pc = "set" /\ holder = a
    /\ \/ /\ rules' = WithUser(j.seen, j.mark, j.who)
          /\ hurt' = (IF dirty THEN hurt \cup Differ(rules, j.seen) ELSE hurt)
                     \cup (IF HasRule(j.seen, j.mark) THEN {} ELSE {j.mark})
          /\ UNCHANGED failures
       \/ Failed(a, FALSE, UNCHANGED rules)
    /\ holder' = Free /\ dirty' = FALSE
    /\ Done(a)
    /\ UNCHANGED <<outs, clients, routed, subs, ids>>

\* removeUserFromRoutedNode, for each active subaccount of a user who loses a
\* package, private nodes included; an error for a node that is gone.
StartUnsubscribe(a, i) ==
    i \in DOMAIN routed /\ \E who \in Emails :
       /\ <<i, who>> \in DOMAIN subs /\ subs[<<i, who>>]
       /\ Start(a, "unsubscribe", "rule", i, routed[i], who)

LeaveRule(a) ==
    LET j == job[a]
        left == rules' = IF HasRule(rules, j.mark)
                         THEN [rules EXCEPT ![First(rules, j.mark)].users = @ \ {j.who}]
                         ELSE rules IN
    /\ j.task = "unsubscribe" /\ j.pc = "rule"
    /\ Calls(a, left, UNCHANGED rules, "client", "client")
    /\ Unlocked
    /\ UNCHANGED <<outs, clients, routed, subs, ids, holder>>

UnsubscribeStep(a) ==
    /\ job[a].task = "unsubscribe" /\ job[a].pc = "client"
    /\ TakeClients(a, {job[a].who}, "flag")

Stop(a) == /\ job[a].pc = "stop" /\ Done(a)
           /\ UNCHANGED <<rules, outs, clients, routed, subs, ids, holder, dirty,
                          failures, hurt>>

-----------------------------------------------------------------------------
RoutedNext ==
    \E a \in Admins :
       \/ \E m \in Marks : StartCreate(a, m)
       \/ \E i \in 1..ids : \/ StartDelete(a, i) \/ StartSuspend(a, i) \/ StartResume(a, i)
                            \/ StartSubscribe(a, i) \/ StartUnsubscribe(a, i)
       \/ CreateStep(a) \/ CreateRow(a) \/ OwnerRow(a) \/ DeleteStep(a) \/ DeleteRow(a)
       \/ SuspendStep(a) \/ ResumeStep(a)
       \/ job[a].task \in {"suspend", "unsubscribe"} /\ Flag(a, FALSE)
       \/ job[a].task = "resume" /\ Flag(a, TRUE)
       \/ Batch(a) \/ FallbackClient(a) \/ Upsert(a) \/ GetRouting(a) \/ SetRouting(a)
       \/ LeaveRule(a) \/ UnsubscribeStep(a) \/ Stop(a)

RoutedSpec == RoutedInit /\ [][RoutedNext]_routedVars

-----------------------------------------------------------------------------
(* Properties *)

\* Type invariant of the routed outbounds.
RoutedTypeOK ==
    /\ \A i \in DOMAIN rules : rules[i] \in [mark : Marks, users : SUBSET Emails]
    /\ outs \subseteq Marks /\ clients \subseteq Marks \X Emails
    /\ DOMAIN routed \subseteq 1..ids /\ DOMAIN subs \subseteq (1..ids) \X Emails
    /\ subs \in [DOMAIN subs -> BOOLEAN]
    /\ holder \in Admins \cup {Free} /\ hurt \subseteq Marks
    /\ failures \in 0..MaxFailures

QuietOn(m) == \A a \in Admins : job[a].task = "none" \/ job[a].mark # m

\* Whoever the panel says may use a routed node that it still has (the active
\* subaccounts of a deleted one stay in the table and are nobody's) has his client
\* on the agent, in the rule of the node, which leads to an outbound that is there;
\* unless a call or a statement failed, two tasks met on the node, or a rule was
\* removed by an index or overwritten by a copy that had gone stale.
SubscribersAreRouted ==
    \A key \in {k \in DOMAIN subs : k[1] \in DOMAIN routed} :
       LET m == routed[key[1]] IN
       subs[key] /\ QuietOn(m) /\ m \notin hurt =>
          /\ m \in outs /\ <<m, key[2]>> \in clients
          /\ \E i \in DOMAIN rules : rules[i].mark = m /\ key[2] \in rules[i].users

\* On the agent nothing of a node outlives its row: no rule to an outbound that was
\* removed, no outbound or client of a node the panel has not (the same exceptions).
NothingIsLeft ==
    \A m \in Marks \ hurt :
       QuietOn(m) /\ (\A i \in DOMAIN routed : routed[i] # m) =>
          ~HasRule(rules, m) /\ m \notin outs /\ clients \cap ({m} \X Emails) = {}

\* The comment of suspendUserPrivateRouted: a rule whose list of users became empty
\* would match every user of the inbound, so the rule is removed as a whole.
NoOpenRule == \A i \in DOMAIN rules : rules[i].users # {}
=============================================================================
