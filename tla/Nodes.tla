------------------------------- MODULE Nodes --------------------------------
(***************************************************************************)
(* The nodes a panel shows for one inbound of one server.  A request on    *)
(* the inbound (handler/remote_manage.go, HandleInbounds) calls the agent  *)
(* and publishes an event; a listener (event/listeners.go) changes the     *)
(* rows later, each event in a goroutine of its own.  A scan of the server *)
(* synchronises inbounds into nodes, and handler/nodes.go edits and        *)
(* deletes nodes, the inbound with the last of them.  No lock is shared.   *)
(*                                                                         *)
(* The agent is external.  The server's addresses stay as they are, IP     *)
(* literals and one of each family; a relay has the inbound's port; every  *)
(* node belongs to the system's owner.                                     *)
(***************************************************************************)
EXTENDS Integers, FiniteSets

CONSTANTS Tasks,        \* requests, and the events they publish, under way at once
          Versions,     \* contents the inbound may have
          MaxNodes,     \* bound: rows of the inbound
          MaxAsks       \* bound: requests between two moments all agree

ASSUME NodesAssumption == /\ MaxNodes \in Nat /\ MaxAsks \in Nat \ {0}
                          /\ "gone" \notin Versions

VARIABLES
  inbound,   \* what the agent runs: a version, or Gone
  node,      \* row per id: [kind, family, host, orig, cfg]
  task,      \* per task: [kind, pc, v, relay, families, ids, copy]
  asks,      \* requests since panel and agent last agreed
  blame      \* history: why panel and agent may differ since they last agreed

nodeVars == <<inbound, node, task, asks, blame>>

Gone     == "gone"
Ids      == 1..MaxNodes

\* kind: "none" no such row; else which of original_server and inbound_tag are
\* set: both in a "bound" row, neither in an "external" one that was imported
\* before the server was known, only the server in an "untagged" one created by
\* hand since, only the tag in a "tagged" one.  host is the address in the clash
\* configuration, orig the relay_orig_server column, "" with no relay.
Families == {"v4", "v6"}
OwnHost(family) == IF family = "v6" THEN "own6" ELSE "own"
NoNode == [kind |-> "none", family |-> "v4", host |-> "own", orig |-> "", cfg |-> Gone]
Unbound(kind) == [NoNode EXCEPT !.kind = kind]
Bound(family, v) == [kind |-> "bound", family |-> family, host |-> OwnHost(family),
                     orig |-> "", cfg |-> v]

BehindRelay(r) == [r EXCEPT !.host = "relay", !.orig = IF r.orig = "" THEN r.host ELSE @]

RowsOf(rows, kind) == {n \in Ids : rows[n].kind = kind}
BoundIds    == RowsOf(node, "bound")
\* Rows of no server that point at the inbound's address.
PointsHere(kind) == {n \in RowsOf(node, kind) : node[n].host = "own"}
ExternalIds == PointsHere("external")
Relayed(r)  == r.orig # ""

Deletions == {"delete", "clear"}
Edits     == {"setRelay", "cancelRelay", "edit"}
Kinds     == {"idle", "add", "update", "remove", "sync"} \cup Deletions \cup Edits
NoCopy    == [n \in {} |-> NoNode]
NoTask    == [kind |-> "idle", pc |-> "", v |-> Gone, relay |-> FALSE,
              families |-> {}, ids |-> {}, copy |-> NoCopy]
Refreshing == [NoTask EXCEPT !.kind = "sync", !.pc = "refresh"]

Others(w)     == {x \in Tasks \ {w} : task[x].kind # "idle"}
Busy(w, k, p) == \E x \in Others(w) : task[x].kind \in k /\ task[x].pc \in p
\* An update has listed the relays and not yet written all rows.
MidUpdate(w)  == Busy(w, {"update"}, {"v4", "v6", "rewrite"})
\* A deletion knows its nodes, or has looked for siblings of them.
MidDeletion(w) == Busy(w, Deletions, {"call", "drop"}) \/ Busy(w, {"clear"}, {"check"})
Moves(w, pc)  == task' = [task EXCEPT ![w].pc = pc]
Finishes(w)   == task' = [task EXCEPT ![w] = NoTask]
At(w, k, pc)  == task[w].kind = k /\ task[w].pc = pc
Because(r)    == blame' = blame \cup {r}
BecauseIf(cond, r) == blame' = IF cond THEN blame \cup {r} ELSE blame

-----------------------------------------------------------------------------
(* What the panel owes its users *)

NobodyWorks == \A w \in Tasks : task[w].kind = "idle"
InStep      == BoundIds = {} <=> inbound = Gone
Distinct    == \A n, m \in BoundIds : n # m => node[n].family # node[m].family
Shown(r)    == /\ r.cfg = inbound
               /\ r.host = IF Relayed(r) THEN "relay" ELSE OwnHost(r.family)
\* Cancelling a relay will restore the right address.
Restores(r) == r.orig \in {"", OwnHost(r.family)}
Agreed      == /\ NobodyWorks /\ InStep /\ Distinct
               /\ \A n \in BoundIds : Shown(node[n]) /\ Restores(node[n])

\* The inbound and its nodes agree, or the agent was never scanned.
NodesInit ==
    /\ inbound \in {Gone} \cup Versions
    /\ node \in [Ids -> {NoNode, Unbound("external"), Unbound("untagged")} \cup
                        IF inbound = Gone THEN {}
                        ELSE {Bound(f, inbound) : f \in Families} \cup
                             {BehindRelay(Bound(f, inbound)) : f \in Families}]
    /\ Distinct
    /\ \A n, m \in Ids : n < m /\ node[n].kind = "none" => node[m].kind = "none"
    /\ \E n \in Ids : node[n].kind = "none"      \* room for one more
    /\ \A n, m \in Ids : {node[n].kind, node[m].kind} \subseteq {"external", "untagged"}
                          => n = m
    /\ task = [w \in Tasks |-> NoTask]
    /\ asks = 0
    /\ blame = IF InStep THEN {} ELSE {"unscanned"}

\* A request comes in; what was explained while all agreed is forgotten.
MayAsk(w)    == task[w].kind = "idle" /\ (asks < MaxAsks \/ Agreed)
Starts(w, t) == /\ task' = [task EXCEPT ![w] = t]
                /\ IF Agreed THEN blame' = {} /\ asks' = 1
                   ELSE blame' = blame /\ asks' = asks + 1
                /\ UNCHANGED <<inbound, node>>

-----------------------------------------------------------------------------
(* HandleInbounds *)

AskAdd(w) == \E v \in Versions, relay \in BOOLEAN,
                f \in {{"v4"}, {"v6"}, Families} :
    /\ relay => f = {"v4"}      \* a relay has one address: ip_version is ignored
    /\ Starts(w, [NoTask EXCEPT !.kind = "add", !.pc = "call", !.v = v,
                              !.relay = relay, !.families = f])

AskUpdate(w) == \E v \in Versions, relay \in BOOLEAN :
    /\ inbound # Gone           \* fetchRemoteInboundByTag finds it
    /\ Starts(w, [NoTask EXCEPT !.kind = "update", !.pc = "remove", !.v = v,
                              !.relay = relay])

AskRemove(w) == Starts(w, [NoTask EXCEPT !.kind = "remove", !.pc = "call"])

\* An update takes the old inbound off first.  The agent answers an error when
\* there is none any more, or cannot be asked, and the update ends there.
UpdateRemoves(w) ==
    /\ At(w, "update", "remove")
    /\ IF inbound # Gone THEN Moves(w, "call") ELSE Finishes(w)
    /\ inbound' = Gone
    /\ UNCHANGED <<node, asks, blame>>

\* The agent has the inbound, in place of one of the same tag, and the event
\* is published: Added after an add, Updated after an update.
AgentAdds(w) ==
    /\ task[w].kind \in {"add", "update"} /\ task[w].pc = "call"
    /\ inbound' = task[w].v
    /\ Moves(w, IF task[w].kind = "add" THEN "match" ELSE "relays")
    /\ BecauseIf(Busy(w, Deletions \cup {"remove"}, {"call", "check", "drop", "removed"}),
                 "readded")
    /\ UNCHANGED <<node, asks>>

\* The inbound is gone and nobody deletes its nodes: no event was published.
\* Removing one that does not run is an error.
AgentRemoves(w) ==
    /\ At(w, "remove", "call")
    /\ IF inbound # Gone THEN Moves(w, "removed") ELSE Finishes(w)
    /\ inbound' = Gone
    /\ BecauseIf(Busy(w, {"update"}, {"call"}), "crossed")
    /\ UNCHANGED <<node, asks>>

\* The call of a request fails.  The agent did nothing, or did it and the
\* answer was lost, or an add removed what had the tag and then failed; the
\* request ends with an error, and publishes nothing.
CallFails(w) ==
    /\ task[w].kind \in {"add", "update", "remove"} /\ task[w].pc \in {"call", "remove"}
    /\ inbound' \in {inbound, Gone} \cup
                    IF task[w].kind # "remove" /\ task[w].pc = "call"
                    THEN {task[w].v} ELSE {}
    /\ BecauseIf(inbound' # inbound \/ At(w, "update", "call"), "lost")
    /\ Finishes(w)
    /\ UNCHANGED <<node, asks>>

-----------------------------------------------------------------------------
(* The listener *)

\* tryClaimExternalNode and tryClaimExternalNodeForSync list the nodes that
\* point at this inbound and belong to no server yet.
Match(w) ==
    /\ task[w].kind \in {"add", "sync"} /\ task[w].pc = "match"
    /\ IF ExternalIds = {}
       THEN Moves(w, IF task[w].kind = "add" THEN "list" ELSE "create")
       ELSE \E n \in ExternalIds :
               task' = [task EXCEPT ![w].pc = "claim",
                           ![w].ids = IF task[w].kind = "add" THEN {n} ELSE ExternalIds]
    /\ UNCHANGED <<inbound, node, asks, blame>>

\* Nodes that keep what the inbound was before an add of the same tag.
Outdated(w) == task[w].kind = "add" /\ \E n \in BoundIds : node[n].cfg # task[w].v

\* ClaimExternalNode, whose WHERE repeats that the node is external; that no
\* row matched is not noticed.  A claimed node keeps its family and its relay.
Claim(w) ==
    LET rest(n) == task[w].ids \ {n} IN
    /\ task[w].pc = "claim"
    /\ \E n \in task[w].ids :
         /\ node' = IF node[n].kind = "external"
                    THEN [node EXCEPT ![n].kind = "bound", ![n].host = "own",
                                      ![n].cfg = task[w].v]
                    ELSE node
         /\ task' = [task EXCEPT ![w] =
               IF rest(n) # {} THEN [@ EXCEPT !.ids = rest(n)]
               ELSE IF task[w].kind = "add" THEN NoTask
               ELSE [@ EXCEPT !.pc = "create", !.ids = {}, !.families = {}]]
         /\ blame' = blame
               \cup (IF inbound # task[w].v THEN {"late"} ELSE {})
               \cup (IF node[n].kind # "external" THEN {"vanished"} ELSE {})
               \cup (IF Relayed(node[n]) THEN {"relayedMeanwhile"} ELSE {})
               \cup (IF MidDeletion(w) THEN {"outlived"} ELSE {})
               \cup (IF Outdated(w) THEN {"kept"} ELSE {})
               \cup {"claimed"}
    /\ UNCHANGED <<inbound, asks>>

\* handleAdded lists the nodes and leaves out those it finds by address and
\* port: a node of this inbound behind another address is not found, and one
\* of the server with no tag yet is.
HostOf(w, f)  == IF task[w].relay THEN "relay" ELSE OwnHost(f)
ExistsAt(w, f) == \E n \in BoundIds \cup RowsOf(node, "untagged") :
                     node[n].host = HostOf(w, f)

\* mutant: the listing is not looked at
CreatesAll(w) == task[w].families
ToCreate(w)   == {f \in task[w].families : ~ExistsAt(w, f)}

List(w) ==
    /\ At(w, "add", "list")
    /\ task' = [task EXCEPT ![w] = IF ToCreate(w) = {} THEN NoTask
                   ELSE [@ EXCEPT !.pc = "create", !.families = ToCreate(w),
                                  !.ids = BoundIds]]
    /\ blame' = blame
          \cup (IF Outdated(w) THEN {"kept"} ELSE {})
          \cup (IF \E n \in BoundIds : node[n].host # OwnHost(node[n].family)
                   \/ task[w].relay
                THEN {"hidden"} ELSE {})
          \cup (IF RowsOf(node, "untagged") # {} THEN {"untagged"} ELSE {})
    /\ UNCHANGED <<inbound, node, asks>>

\* Ids are not used again, or only when nobody remembers them.
FreeId(n) == /\ node[n].kind = "none"
             /\ \A w \in Tasks : n \notin task[w].ids \cup DOMAIN task[w].copy

\* One CreateNode.  A synchronisation creates the v4 node, then ends with the
\* server's addresses.
Create(w) ==
    /\ task[w].kind \in {"add", "sync"} /\ task[w].pc = "create"
    /\ \E n \in Ids, f \in task[w].families :
         LET fresh == Bound(f, task[w].v)
             rest  == task[w].families \ {f} IN
         /\ FreeId(n) /\ \A m \in Ids : m < n => ~FreeId(m)
         /\ node' = [node EXCEPT ![n] =
                IF task[w].relay THEN BehindRelay(fresh) ELSE fresh]
         /\ task' = [task EXCEPT ![w] =
               IF rest # {}
               THEN [@ EXCEPT !.families = rest, !.ids = task[w].ids \cup {n}]
               ELSE IF task[w].kind = "add" THEN NoTask ELSE Refreshing]
         /\ blame' = blame
               \cup (IF inbound # task[w].v THEN {"late"} ELSE {})
               \cup (IF ~(BoundIds \subseteq task[w].ids) THEN {"raced"} ELSE {})
               \cup (IF task[w].relay /\ MidUpdate(w)
                     THEN {"relayedMeanwhile"} ELSE {})
               \cup (IF MidDeletion(w) THEN {"outlived"} ELSE {})
    /\ UNCHANGED <<inbound, asks>>

\* handleRemoved: every node of the server and tag.
HandleRemoved(w) ==
    /\ At(w, "remove", "removed")
    /\ node' = [n \in Ids |-> IF n \in BoundIds THEN NoNode ELSE node[n]]
    /\ Finishes(w)
    /\ UNCHANGED <<inbound, asks, blame>>

\* applyRelayNodesOnUpdate lists the nodes; those behind a relay, or all of
\* them if the update names one, are rewritten whole from this copy.
\* mutant: a relay already there is not looked at
OnlyNewRelays(w)  == IF task[w].relay THEN BoundIds ELSE {}
RelaysToWrite(w)  == IF task[w].relay THEN BoundIds
                     ELSE {n \in BoundIds : Relayed(node[n])}

ListRelays(w) ==
    /\ At(w, "update", "relays")
    /\ task' = [task EXCEPT ![w] =
          IF RelaysToWrite(w) = {} THEN [@ EXCEPT !.pc = "v4"]
          ELSE [@ EXCEPT !.pc = "rewrite", !.ids = RelaysToWrite(w),
                         !.copy = [n \in RelaysToWrite(w) |-> node[n]]]]
    /\ BecauseIf(RelaysToWrite(w) \notin {{}, BoundIds}, "sibling")
    /\ UNCHANGED <<inbound, node, asks>>

\* UpdateNode finds the row by its id, and writes every column but the family.
\* relay_orig_server becomes the v4 address whatever the family.  Once one row
\* was written the update ends: other nodes of the tag stay as they are.
RewriteRelay(w) ==
    /\ At(w, "update", "rewrite")
    /\ \E n \in task[w].ids :
         LET rest    == task[w].ids \ {n}
             written == node[n].kind # "none"
             some    == written \/ task[w].families # {} IN
         /\ node' = IF written
                    THEN [node EXCEPT ![n] = [task[w].copy[n] EXCEPT
                                !.host = IF task[w].relay THEN "relay" ELSE @,
                                !.orig = "own", !.cfg = task[w].v]]
                    ELSE node
         /\ task' = [task EXCEPT ![w] =
               IF rest # {}
               THEN [@ EXCEPT !.ids = rest, !.copy = [i \in rest |-> task[w].copy[i]],
                              !.families = IF some THEN Families ELSE {}]
               ELSE IF some THEN NoTask
               ELSE [NoTask EXCEPT !.kind = "update", !.pc = "v4", !.v = task[w].v]]
         /\ blame' = blame
               \cup (IF inbound # task[w].v THEN {"late"} ELSE {})
               \cup (IF task[w].copy[n].family = "v6" THEN {"origV4"} ELSE {})
               \cup (IF task[w].relay /\ MidUpdate(w) THEN {"relayedMeanwhile"} ELSE {})
               \cup (IF node[n].host # task[w].copy[n].host THEN {"copied"} ELSE {})
    /\ UNCHANGED <<inbound, asks>>

\* UpdateNodeByInboundTag, once per family: the configuration with the
\* server's own address, whether a node is behind a relay by now or not.
UpdateFamily(w, f) ==
    /\ At(w, "update", f)
    /\ node' = [n \in Ids |->
                  IF n \in BoundIds /\ node[n].family = f
                  THEN [node[n] EXCEPT !.host = OwnHost(f), !.cfg = task[w].v]
                  ELSE node[n]]
    /\ IF f = "v4" THEN Moves(w, "v6") ELSE Finishes(w)
    /\ BecauseIf(inbound # task[w].v, "late")
    /\ UNCHANGED <<inbound, asks>>

-----------------------------------------------------------------------------
(* syncInboundsToNodes *)

AskSync(w) == Starts(w, [NoTask EXCEPT !.kind = "sync", !.pc = "inbounds"])

\* The agent's inbounds, as far as this one is among them.
SyncInbounds(w) ==
    /\ At(w, "sync", "inbounds")
    /\ task' = [task EXCEPT ![w] = IF inbound = Gone THEN Refreshing
                                   ELSE [@ EXCEPT !.pc = "nodes", !.v = inbound]]
    /\ blame' = IF inbound = Gone THEN blame ELSE blame \ {"unscanned"}
    /\ UNCHANGED <<inbound, node, asks>>

\* existingByTag and existingByFingerprint: with a node already there, no other
\* is created (families = {}), only external ones are claimed.  One found by
\* its address and port alone is remembered.
WithTag         == BoundIds \cup PointsHere("tagged")
WithFingerprint == RowsOf(node, "untagged") \cup ExternalIds

SyncNodes(w) ==
    /\ At(w, "sync", "nodes")
    /\ \E found \in IF WithTag # {} \/ WithFingerprint = {} THEN {NoCopy}
                     ELSE {[i \in {n} |-> node[n]] : n \in WithFingerprint} :
          task' = [task EXCEPT ![w].pc = "match", ![w].ids = BoundIds, ![w].copy = found,
                      ![w].families = IF WithTag \cup WithFingerprint = {}
                                      THEN {"v4"} ELSE {}]
    /\ UNCHANGED <<inbound, node, asks, blame>>

\* Nothing is to be created.  UpdateNodeInboundTag gives the node that was
\* found the tag, whatever has become of it: no server, no new content.
Tagged(kind) == CASE kind = "external" -> "tagged"
                  [] kind = "untagged" -> "bound"
                  [] OTHER             -> kind

SyncSkips(w) ==
    LET found == DOMAIN task[w].copy
        binds == \E n \in found : node[n].kind = "untagged" IN
    /\ At(w, "sync", "create") /\ task[w].families = {}
    /\ node' = [n \in Ids |-> IF n \in found THEN [node[n] EXCEPT !.kind = Tagged(@)]
                              ELSE node[n]]
    /\ task' = [task EXCEPT ![w] = Refreshing]
    /\ blame' = blame
          \cup (IF BoundIds \cup found = {} THEN {"vanished"} ELSE {})
          \cup (IF \E n \in found : node'[n].kind = "none" THEN {"vanished"} ELSE {})
          \cup (IF RowsOf(node', "tagged") # {} THEN {"tagged"} ELSE {})
          \cup (IF binds THEN {"imported"} ELSE {})
          \cup (IF binds /\ inbound # task[w].v THEN {"late"} ELSE {})
          \cup (IF binds /\ BoundIds # {} THEN {"raced"} ELSE {})
          \cup (IF binds /\ MidDeletion(w) THEN {"outlived"} ELSE {})
    /\ UNCHANGED <<inbound, asks>>

\* RefreshNodesServerAddress gives the v4 nodes with no relay the server's
\* address, and lists the relayed ones whose relay_orig_server is another ...
RefreshHosts(w) ==
    LET others == {n \in BoundIds \cup RowsOf(node, "untagged") :
                      node[n].orig \notin {"", "own"}} IN
    /\ At(w, "sync", "refresh")
    /\ node' = [n \in Ids |->
                  IF /\ node[n].kind \in {"bound", "untagged"}
                     /\ node[n].family = "v4" /\ ~Relayed(node[n])
                  THEN [node[n] EXCEPT !.host = "own"] ELSE node[n]]
    /\ task' = [task EXCEPT ![w] = IF others = {} THEN NoTask
                                   ELSE [@ EXCEPT !.pc = "origs", !.ids = others]]
    /\ BecauseIf(others # {}, "origV4")
    /\ UNCHANGED <<inbound, asks>>

\* ... to write the v4 address there, be the node a v6 one, or one whose relay
\* was cancelled meanwhile.
RefreshOrig(w) ==
    /\ At(w, "sync", "origs")
    /\ \E n \in task[w].ids :
         /\ node' = IF node[n].kind = "none" THEN node
                    ELSE [node EXCEPT ![n].orig = "own"]
         /\ task' = [task EXCEPT ![w] = IF task[w].ids = {n} THEN NoTask
                                        ELSE [@ EXCEPT !.ids = task[w].ids \ {n}]]
    /\ UNCHANGED <<inbound, asks, blame>>

-----------------------------------------------------------------------------
(* nodes.go *)

Present == {n \in Ids : node[n].kind # "none"}

\* handleDelete of one node, handleBatchDelete of several: the rows are read.
\* An external node has no inbound to look after.
AskDelete(w) == \E ids \in SUBSET Present \ {{}} :
    Starts(w, [NoTask EXCEPT !.kind = "delete", !.ids = ids,
                           !.pc = IF ids \cap BoundIds = {} THEN "drop" ELSE "check"])

\* handleClearAll: all there are, and whatever is there in the end.
AskClear(w) ==
    Starts(w, [NoTask EXCEPT !.kind = "clear", !.ids = Present,
                             !.pc = IF BoundIds = {} THEN "drop" ELSE "check"])

Deleting(w, pc) == task[w].kind \in Deletions /\ task[w].pc = pc

\* HasOtherNodesOnInbound: with a node outside the batch the inbound stays.
DeletedBy(x) == IF task[x].kind \in Deletions THEN task[x].ids ELSE {}

\* mutant: a sibling is not looked for
NoSiblings(w) == {}
Siblings(w)   == BoundIds \ task[w].ids

CheckSiblings(w) ==
    /\ Deleting(w, "check")
    /\ Moves(w, IF Siblings(w) = {} THEN "call" ELSE "drop")
    /\ BecauseIf(/\ Siblings(w) # {}
                 /\ \/ Siblings(w) \subseteq UNION {DeletedBy(x) : x \in Others(w)}
                    \/ \E x \in Others(w) : task[x].kind = "remove",
                 "siblings")
    /\ UNCHANGED <<inbound, node, asks>>

\* deleteRemoteInbound: an error is logged and the node deleted all the same.
DeleteInbound(w) ==
    /\ Deleting(w, "call")
    /\ inbound' = Gone
    /\ Moves(w, "drop")
    /\ BecauseIf(Busy(w, {"update"}, {"call"}), "crossed")
    /\ UNCHANGED <<node, asks>>

DeleteInboundFails(w) ==
    /\ Deleting(w, "call")
    /\ Moves(w, "drop")
    /\ Because("lost")
    /\ UNCHANGED <<inbound, node, asks>>

\* One row of the batch, or all rows of the user at once.
DropNode(w) ==
    /\ At(w, "delete", "drop")
    /\ \E n \in task[w].ids :
         /\ node' = [node EXCEPT ![n] = NoNode]
         /\ task' = [task EXCEPT ![w] = IF task[w].ids = {n} THEN NoTask
                                        ELSE [@ EXCEPT !.ids = task[w].ids \ {n}]]
    /\ UNCHANGED <<inbound, asks, blame>>

DropAll(w) ==
    /\ At(w, "clear", "drop")
    /\ node' = [n \in Ids |-> NoNode]
    /\ Finishes(w)
    /\ UNCHANGED <<inbound, asks, blame>>

\* handleSetRelay, handleCancelRelay and handleUpdate read the row ...
AskEdit(w) == \E k \in Edits, n \in Present :
    /\ k = "cancelRelay" => Relayed(node[n])
    /\ Starts(w, [NoTask EXCEPT !.kind = k, !.pc = "write", !.ids = {n},
                              !.copy = [i \in {n} |-> node[n]]])

\* ... change their copy of it (applyRelayToNode, cancelRelayOnNode) ...
EditedNode(k, r) ==
    CASE k = "setRelay"    -> BehindRelay(r)
      [] k = "cancelRelay" -> [r EXCEPT !.host = r.orig, !.orig = ""]
      [] k = "edit"        -> r

\* ... and write all of it: original_server and inbound_tag too.
WriteCopy(w) ==
    /\ task[w].kind \in Edits /\ task[w].pc = "write"
    /\ \E n \in task[w].ids :
         /\ node' = IF node[n].kind = "none" THEN node
                    ELSE [node EXCEPT ![n] = EditedNode(task[w].kind, task[w].copy[n])]
         /\ blame' = blame
               \cup (IF node[n] \notin {NoNode, task[w].copy[n]} THEN {"copied"} ELSE {})
               \cup (IF MidUpdate(w)
                     THEN {"relayedMeanwhile"} ELSE {})
    /\ Finishes(w)
    /\ UNCHANGED <<inbound, asks>>

-----------------------------------------------------------------------------
NodesNext ==
    \E w \in Tasks :
       \/ /\ MayAsk(w)
          /\ \/ AskAdd(w) \/ AskUpdate(w) \/ AskRemove(w) \/ AskSync(w)
             \/ AskDelete(w) \/ AskClear(w) \/ AskEdit(w)
       \/ UpdateRemoves(w) \/ AgentAdds(w) \/ AgentRemoves(w) \/ CallFails(w)
       \/ Match(w) \/ Claim(w) \/ List(w) \/ Create(w)
       \/ HandleRemoved(w) \/ ListRelays(w) \/ RewriteRelay(w)
       \/ \E f \in Families : UpdateFamily(w, f)
       \/ SyncInbounds(w) \/ SyncNodes(w) \/ SyncSkips(w)
       \/ RefreshHosts(w) \/ RefreshOrig(w)
       \/ CheckSiblings(w) \/ DeleteInbound(w) \/ DeleteInboundFails(w)
       \/ DropNode(w) \/ DropAll(w) \/ WriteCopy(w)

NodesSpec == NodesInit /\ [][NodesNext]_nodeVars

-----------------------------------------------------------------------------
(* Properties *)

Row == [kind : {"none", "external", "untagged", "tagged", "bound"}, family : Families,
        host : {"own", "own6", "relay"}, orig : {"", "own", "own6", "relay"},
        cfg : {Gone} \cup Versions]

\* Type invariant of the nodes and the tasks on them.
NodesTypeOK ==
    /\ inbound \in {Gone} \cup Versions
    /\ node \in [Ids -> Row]
    /\ \A w \in Tasks : /\ task[w].kind \in Kinds /\ task[w].v \in {Gone} \cup Versions
                        /\ task[w].ids \subseteq Ids /\ task[w].families \subseteq Families
                        /\ DOMAIN task[w].copy \subseteq Ids
                        /\ task[w].copy \in [DOMAIN task[w].copy -> Row]
    /\ asks \in 0..MaxAsks

Explained(reasons) == ~NobodyWorks \/ blame \cap reasons # {}

\* When nobody is at work, the inbound runs exactly if the panel has a node of
\* it.  It may not, if the agent was never scanned, an event or a listing was
\* older than what it met ("late"), a call failed after or before it took
\* effect, the inbound came back while it was being removed, a deletion took
\* nodes that others were taking for siblings that stay, a row was bound or written
\* from an older copy after a deletion had looked, a node found or claimed had
\* gone, a row with only a tag or only a server stood for the inbound's node,
\* or a deletion met an update that had taken the inbound off (HandleInbounds,
\* the listener, syncInboundsToNodes, cleanupRemoteInboundForNode).
PanelMatchesAgent ==
    InStep \/ Explained({"late", "lost", "readded", "siblings", "vanished",
                         "crossed", "outlived", "copied", "unscanned", "untagged",
                         "tagged"})

\* At most one node per inbound and family, unless several imported nodes were
\* claimed, two creators listed before either created, one of the nodes had
\* another address than the listing looked for, or a whole row was written from
\* an older copy (handleAdded's nodeWithHostProtoPortExists, the sync's
\* fingerprints, UpdateNode).
OneNodePerFamily == Distinct \/ Explained({"claimed", "raced", "hidden", "copied"})

\* When nobody is at work, a node shows the inbound's content under its own
\* address, or the relay's, unless its content came late or was lost, a whole
\* row was written from an older copy, a relay was set in the middle of an
\* update, an inbound was added over one that runs, an update found a relay
\* beside another node, a v6 node's relay_orig_server became the v4 address, or
\* a node got the tag and kept its imported content (handleUpdated,
\* applyRelayNodesOnUpdate, UpdateNode, UpdateNodeInboundTag,
\* refreshRelayOrigServerAddress).
NodesShowTheirInbound ==
    \/ \A n \in BoundIds : inbound # Gone => Shown(node[n])
    \/ Explained({"late", "lost", "copied", "relayedMeanwhile", "kept", "sibling",
                  "origV4", "imported"})
=============================================================================
