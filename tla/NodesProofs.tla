---------------------------- MODULE NodesProofs ----------------------------
(***************************************************************************)
(* The nodes of an inbound, for any number of requests, rows and versions. *)
(***************************************************************************)
EXTENDS Nodes, TLAPS

-----------------------------------------------------------------------------
(* The inductive invariant *)

Copies   == UNION {[S -> Row] : S \in SUBSET Ids}
NodePcs  == {"", "call", "match", "claim", "list", "create", "remove", "relays", "rewrite",
             "v4", "v6", "removed", "inbounds", "nodes", "refresh", "origs", "check",
             "drop", "write"}
TaskType == [kind : Kinds, pc : NodePcs, v : {Gone} \cup Versions, relay : BOOLEAN,
             families : SUBSET Families, ids : SUBSET Ids, copy : Copies]

\* A row of no server or no tag has the v4 address; one that was deleted is empty.
RowOK(r) == /\ r.kind # "bound" => r.family = "v4"
            /\ r.kind = "none" => r = NoNode

\* A copy of a row that may be gone, or changed in all but its family.
CopyOf(r, row) == /\ r.kind # "none" /\ RowOK(r)
                  /\ row.kind # "none" => row.family = r.family

\* What a task t knows at each of its steps, with these rows.
TaskOK(t, rows) ==
    /\ t.kind \in {"add", "update"} => t.v \in Versions
    /\ t.kind = "add" /\ t.pc \in {"call", "match", "list"} => t.families # {}
    /\ t.kind = "update" /\ t.pc = "rewrite" =>
          \A n \in t.ids : n \in DOMAIN t.copy /\ t.copy[n].kind = "bound"
    /\ t.kind = "sync" =>
          /\ t.pc \in {"nodes", "match", "claim", "create"} => t.v \in Versions
          /\ t.pc \in {"match", "create"} /\ t.families # {} => t.ids = {}
          /\ t.families \subseteq {"v4"} /\ ~t.relay
          /\ \A n, m \in DOMAIN t.copy : n = m
    /\ t.pc = "claim" => t.kind \in {"add", "sync"}
    /\ t.kind \in Edits => t.ids \subseteq DOMAIN t.copy
    /\ t.kind = "cancelRelay" => \A n \in DOMAIN t.copy : Relayed(t.copy[n])
    /\ \A n \in DOMAIN t.copy : CopyOf(t.copy[n], rows[n])

NodesTyped ==
    /\ inbound \in {Gone} \cup Versions /\ asks \in 0..MaxAsks
    /\ node \in [Ids -> Row] /\ \A n \in Ids : RowOK(node[n])
    /\ task \in [Tasks -> TaskType] /\ \A w \in Tasks : TaskOK(task[w], node)

-----------------------------------------------------------------------------
(* Rows and tasks *)

\* The rows there are, and what becomes of one.
LEMMA RowsAreRows ==
    /\ NoNode \in Row /\ RowOK(NoNode)
    /\ \A k \in {"external", "untagged"} : Unbound(k) \in Row /\ RowOK(Unbound(k))
    /\ \A f \in Families, v \in Versions :
          /\ Bound(f, v) \in Row /\ RowOK(Bound(f, v))
          /\ BehindRelay(Bound(f, v)) \in Row /\ RowOK(BehindRelay(Bound(f, v)))
<1>1. NoNode \in Row /\ RowOK(NoNode)
  BY DEF NoNode, Row, RowOK, Families
<1>2. ASSUME NEW k \in {"external", "untagged"} PROVE Unbound(k) \in Row /\ RowOK(Unbound(k))
  BY <1>1 DEF Unbound, NoNode, Row, RowOK, Families
<1>3. ASSUME NEW f \in Families, NEW v \in Versions
      PROVE  /\ Bound(f, v) \in Row /\ RowOK(Bound(f, v))
             /\ BehindRelay(Bound(f, v)) \in Row /\ RowOK(BehindRelay(Bound(f, v)))
  BY DEF Bound, BehindRelay, OwnHost, Row, RowOK
<1>4. QED
  BY <1>1, <1>2, <1>3

\* A copy of some rows is one a task may keep.
LEMMA CopiesAreCopies ==
    /\ \A S \in SUBSET Ids : \A c \in [S -> Row] : c \in Copies
    /\ \A c \in Copies : DOMAIN c \subseteq Ids /\ c \in [DOMAIN c -> Row]
    /\ NoCopy \in Copies /\ DOMAIN NoCopy = {}
<1>1. \A S \in SUBSET Ids : \A c \in [S -> Row] : c \in Copies
  BY DEF Copies
<1>2. \A c \in Copies : DOMAIN c \subseteq Ids /\ c \in [DOMAIN c -> Row]
  BY DEF Copies
<1>3. NoCopy \in [{} -> Row] /\ DOMAIN NoCopy = {}
  BY DEF NoCopy
<1>4. QED
  BY <1>1, <1>2, <1>3

\* The tasks nobody works on, and the one that refreshes addresses.
LEMMA TasksAreTasks ==
    /\ NoTask \in TaskType /\ Refreshing \in TaskType
    /\ NoTask.kind = "idle" /\ NoTask.pc = "" /\ NoTask.ids = {} /\ DOMAIN NoTask.copy = {}
    /\ Refreshing.kind = "sync" /\ Refreshing.pc = "refresh" /\ Refreshing.ids = {}
    /\ \A rows : TaskOK(NoTask, rows) /\ TaskOK(Refreshing, rows)
<1>1. NoTask \in TaskType
  BY CopiesAreCopies DEF NoTask, TaskType, Kinds, NodePcs
<1>2. Refreshing \in TaskType
  BY CopiesAreCopies DEF NoTask, Refreshing, TaskType, Kinds, NodePcs
<1>3. /\ NoTask.kind = "idle" /\ NoTask.pc = "" /\ NoTask.ids = {} /\ DOMAIN NoTask.copy = {}
      /\ Refreshing.kind = "sync" /\ Refreshing.pc = "refresh" /\ Refreshing.ids = {}
      /\ Refreshing.families = {} /\ ~Refreshing.relay /\ DOMAIN Refreshing.copy = {}
  BY CopiesAreCopies DEF NoTask, Refreshing
<1>4. ASSUME NEW rows PROVE TaskOK(NoTask, rows) /\ TaskOK(Refreshing, rows)
  BY <1>3 DEF TaskOK, Edits
<1>5. QED
  BY <1>1, <1>2, <1>3, <1>4

\* One task changes, and the rows stay what the others have copied.
LEMMA TypedStep ==
    ASSUME NodesTyped, NEW w \in Tasks, NEW t \in TaskType,
           task' = [task EXCEPT ![w] = t], TaskOK(t, node'),
           inbound' \in {Gone} \cup Versions, asks' \in 0..MaxAsks,
           node' \in [Ids -> Row], \A n \in Ids : RowOK(node'[n]),
           \A n \in Ids : node'[n].kind # "none" =>
              \/ node[n].kind # "none" /\ node'[n].family = node[n].family
              \/ \A x \in Tasks : n \notin DOMAIN task[x].copy
    PROVE  NodesTyped'
<1>1. task' \in [Tasks -> TaskType]
  BY DEF NodesTyped
<1>2. ASSUME NEW x \in Tasks, x # w PROVE TaskOK(task'[x], node')
  <2>1. task'[x] = task[x] /\ task[x].copy \in Copies /\ TaskOK(task[x], node)
    BY <1>2 DEF NodesTyped, TaskType
  <2>2. DOMAIN task[x].copy \subseteq Ids
    BY <2>1, CopiesAreCopies
  <2>3. ASSUME NEW n \in DOMAIN task[x].copy PROVE CopyOf(task[x].copy[n], node'[n])
    BY <2>1, <2>2, <2>3 DEF TaskOK, CopyOf
  <2>4. QED
    BY <2>1, <2>3 DEF TaskOK
<1>3. task'[w] = t
  BY DEF NodesTyped
<1>4. QED
  BY <1>1, <1>2, <1>3 DEF NodesTyped

\* The same when no row changes its family, and none is new.
LEMMA TypedRows ==
    ASSUME NodesTyped, NEW w \in Tasks, NEW t \in TaskType,
           task' = [task EXCEPT ![w] = t],
           TaskOK(t, node) \/ TaskOK(t, node'),
           inbound' \in {Gone} \cup Versions, asks' \in 0..MaxAsks,
           node' \in [Ids -> Row], \A n \in Ids : RowOK(node'[n]),
           \A n \in Ids : node'[n].kind # "none" =>
              node[n].kind # "none" /\ node'[n].family = node[n].family
    PROVE  NodesTyped'
<1>1. DOMAIN t.copy \subseteq Ids
  BY CopiesAreCopies DEF TaskType
<1>2. TaskOK(t, node) => TaskOK(t, node')
  BY <1>1 DEF TaskOK, CopyOf
<1>3. QED
  BY <1>2, TypedStep

-----------------------------------------------------------------------------
(* The types of every step *)

\* In the beginning there are rows and no tasks.
LEMMA TypedInit == NodesInit => NodesTyped
<1> SUFFICES ASSUME NodesInit PROVE NodesTyped
  OBVIOUS
<1>1. \A n \in Ids : node[n] \in Row /\ RowOK(node[n])
  BY RowsAreRows DEF NodesInit
<1>2. node \in [Ids -> Row]
  BY <1>1 DEF NodesInit
<1>3. task \in [Tasks -> TaskType] /\ \A w \in Tasks : TaskOK(task[w], node)
  BY TasksAreTasks DEF NodesInit
<1>4. asks \in 0..MaxAsks /\ inbound \in {Gone} \cup Versions
  BY NodesAssumption DEF NodesInit
<1>5. QED
  BY <1>1, <1>2, <1>3, <1>4 DEF NodesTyped

\* A request changes no row.
LEMMA TypedStart ==
    ASSUME NodesTyped, NEW w \in Tasks, MayAsk(w), NEW t \in TaskType, TaskOK(t, node),
           Starts(w, t)
    PROVE  NodesTyped'
<1>1. asks' \in 0..MaxAsks
  BY NodesAssumption DEF NodesTyped, MayAsk, Starts
<1>2. QED
  BY <1>1, TypedRows DEF NodesTyped, Starts

\* What the requests ask for is a task.
LEMMA NewTasksAreTasks ==
    ASSUME NEW rows
    PROVE
    /\ \A v \in Versions, relay \in BOOLEAN, f \in {{"v4"}, {"v6"}, Families} :
          LET t == [NoTask EXCEPT !.kind = "add", !.pc = "call", !.v = v,
                                  !.relay = relay, !.families = f]
          IN  t \in TaskType /\ TaskOK(t, rows)
    /\ \A v \in Versions, relay \in BOOLEAN :
          LET t == [NoTask EXCEPT !.kind = "update", !.pc = "remove", !.v = v,
                                  !.relay = relay]
          IN  t \in TaskType /\ TaskOK(t, rows)
    /\ LET t == [NoTask EXCEPT !.kind = "remove", !.pc = "call"]
       IN  t \in TaskType /\ TaskOK(t, rows)
    /\ LET t == [NoTask EXCEPT !.kind = "sync", !.pc = "inbounds"]
       IN  t \in TaskType /\ TaskOK(t, rows)
    /\ \A ids \in SUBSET Ids, pc \in {"drop", "check"} :
          LET t == [NoTask EXCEPT !.kind = "delete", !.ids = ids, !.pc = pc]
          IN  t \in TaskType /\ TaskOK(t, rows)
    /\ \A ids \in SUBSET Ids, pc \in {"drop", "check"} :
          LET t == [NoTask EXCEPT !.kind = "clear", !.ids = ids, !.pc = pc]
          IN  t \in TaskType /\ TaskOK(t, rows)
<1> DEFINE Fresh(k, p, v, relay, f, ids) ==
             [kind |-> k, pc |-> p, v |-> v, relay |-> relay, families |-> f, ids |-> ids,
              copy |-> NoCopy]
<1>1. ASSUME NEW k \in {"add", "update", "remove", "sync", "delete", "clear"},
             NEW p \in {"call", "remove", "inbounds", "drop", "check"},
             NEW v \in {Gone} \cup Versions, NEW relay \in BOOLEAN,
             NEW f \in SUBSET Families, NEW ids \in SUBSET Ids,
             k \in {"add", "update"} => v \in Versions, k = "add" => f # {},
             k = "sync" => p = "inbounds" /\ f = {} /\ ~relay
      PROVE  Fresh(k, p, v, relay, f, ids) \in TaskType /\ TaskOK(Fresh(k, p, v, relay, f, ids), rows)
  <2>1. Fresh(k, p, v, relay, f, ids) \in TaskType
    BY CopiesAreCopies DEF TaskType, Kinds, NodePcs, Deletions
  <2>2. TaskOK(Fresh(k, p, v, relay, f, ids), rows)
    BY <1>1, CopiesAreCopies DEF TaskOK, Edits
  <2>3. QED
    BY <2>1, <2>2
<1> HIDE DEF Fresh
<1>2. ASSUME NEW v \in Versions, NEW relay \in BOOLEAN, NEW f \in {{"v4"}, {"v6"}, Families},
             NEW t, t = [NoTask EXCEPT !.kind = "add", !.pc = "call", !.v = v,
                                       !.relay = relay, !.families = f]
      PROVE  t \in TaskType /\ TaskOK(t, rows)
  <2>1. t = Fresh("add", "call", v, relay, f, {}) /\ f \in SUBSET Families /\ f # {}
    BY <1>2 DEF NoTask, Fresh, Families
  <2>2. QED
    BY <1>1, <2>1
<1>3. ASSUME NEW v \in Versions, NEW relay \in BOOLEAN,
             NEW t, t = [NoTask EXCEPT !.kind = "update", !.pc = "remove", !.v = v,
                                       !.relay = relay]
      PROVE  t \in TaskType /\ TaskOK(t, rows)
  <2>1. t = Fresh("update", "remove", v, relay, {}, {})
    BY <1>3 DEF NoTask, Fresh
  <2>2. QED
    BY <1>1, <2>1
<1>4. ASSUME NEW t, \/ t = [NoTask EXCEPT !.kind = "remove", !.pc = "call"]
                    \/ t = [NoTask EXCEPT !.kind = "sync", !.pc = "inbounds"]
      PROVE  t \in TaskType /\ TaskOK(t, rows)
  <2>1. \/ t = Fresh("remove", "call", Gone, FALSE, {}, {})
        \/ t = Fresh("sync", "inbounds", Gone, FALSE, {}, {})
    BY <1>4 DEF NoTask, Fresh
  <2>2. QED
    BY <1>1, <2>1
<1>5. ASSUME NEW ids \in SUBSET Ids, NEW pc \in {"drop", "check"},
             NEW t, \/ t = [NoTask EXCEPT !.kind = "delete", !.ids = ids, !.pc = pc]
                    \/ t = [NoTask EXCEPT !.kind = "clear", !.ids = ids, !.pc = pc]
      PROVE  t \in TaskType /\ TaskOK(t, rows)
  <2>1. \/ t = Fresh("delete", pc, Gone, FALSE, {}, ids)
        \/ t = Fresh("clear", pc, Gone, FALSE, {}, ids)
    BY <1>5 DEF NoTask, Fresh
  <2>2. QED
    BY <1>1, <2>1
<1>6. QED
  BY <1>2, <1>3, <1>4, <1>5

\* The requests HandleInbounds, a scan and handler/nodes.go take.
LEMMA TypedAsks ==
    ASSUME NodesTyped, NEW w \in Tasks, MayAsk(w),
           \/ AskAdd(w) \/ AskUpdate(w) \/ AskRemove(w) \/ AskSync(w)
           \/ AskDelete(w) \/ AskClear(w) \/ AskEdit(w)
    PROVE  NodesTyped'
<1> USE TypedStart
<1>1. CASE AskAdd(w)
  <2>1. PICK v \in Versions, relay \in BOOLEAN, f \in {{"v4"}, {"v6"}, Families} :
           Starts(w, [NoTask EXCEPT !.kind = "add", !.pc = "call", !.v = v,
                              !.relay = relay, !.families = f])
    BY <1>1 DEF AskAdd
  <2>2. QED
    BY <2>1, NewTasksAreTasks
<1>2. CASE AskUpdate(w)
  BY <1>2, NewTasksAreTasks DEF AskUpdate
<1>3. CASE AskRemove(w)
  BY <1>3, NewTasksAreTasks DEF AskRemove
<1>4. CASE AskSync(w)
  BY <1>4, NewTasksAreTasks DEF AskSync
<1>5. CASE AskDelete(w)
  <2>1. PICK ids \in SUBSET Present, pc \in {"drop", "check"} :
           Starts(w, [NoTask EXCEPT !.kind = "delete", !.ids = ids, !.pc = pc])
    BY <1>5 DEF AskDelete
  <2>2. ids \in SUBSET Ids
    BY DEF Present
  <2>3. QED
    BY <2>1, <2>2, NewTasksAreTasks
<1>6. CASE AskClear(w)
  <2>1. PICK pc \in {"drop", "check"} :
           Starts(w, [NoTask EXCEPT !.kind = "clear", !.ids = Present, !.pc = pc])
    BY <1>6 DEF AskClear
  <2>2. Present \in SUBSET Ids
    BY DEF Present
  <2>3. QED
    BY <2>1, <2>2, NewTasksAreTasks
<1>7. CASE AskEdit(w)
  <2>1. PICK k \in Edits, n \in Present :
           /\ k = "cancelRelay" => Relayed(node[n])
           /\ Starts(w, [NoTask EXCEPT !.kind = k, !.pc = "write", !.ids = {n},
                              !.copy = [i \in {n} |-> node[n]]])
    BY <1>7 DEF AskEdit
  <2> DEFINE c == [i \in {n} |-> node[n]]
  <2>2. n \in Ids /\ node[n] \in Row /\ RowOK(node[n]) /\ node[n].kind # "none"
    BY <2>1 DEF Present, NodesTyped
  <2>3. c \in Copies /\ DOMAIN c = {n} /\ c[n] = node[n] /\ CopyOf(c[n], node[n])
    BY <2>2, CopiesAreCopies DEF CopyOf
  <2> HIDE DEF c
  <2> DEFINE t == [NoTask EXCEPT !.kind = k, !.pc = "write", !.ids = {n}, !.copy = c]
  <2>4. t \in TaskType
    BY <2>2, <2>3 DEF NoTask, TaskType, Kinds, NodePcs, Families, Edits
  <2>5. t.kind = k /\ t.pc = "write" /\ t.ids = {n} /\ t.copy = c /\ k \in Edits
    BY DEF NoTask
  <2>6. Starts(w, t)
    BY <2>1 DEF c
  <2> HIDE DEF t
  <2>7. TaskOK(t, node)
    BY <2>1, <2>3, <2>5 DEF TaskOK, Edits
  <2>8. QED
    BY <2>4, <2>6, <2>7
<1>8. QED
  BY <1>1, <1>2, <1>3, <1>4, <1>5, <1>6, <1>7

\* A task goes on to another step, with what it knows, and no row changes.
LEMMA TypedMoves ==
    ASSUME NodesTyped, NEW w \in Tasks, NEW pc \in NodePcs \ {"claim"},
           task' = [task EXCEPT ![w].pc = pc],
           task[w].kind = "add" => task[w].families # {},
           task[w].kind = "update" => pc # "rewrite",
           task[w].kind = "sync" => pc = "create" /\ task[w].pc = "match",
           inbound' \in {Gone} \cup Versions, UNCHANGED <<node, asks>>
    PROVE  NodesTyped'
<1> DEFINE t == [task[w] EXCEPT !.pc = pc]
<1>1. task[w] \in TaskType /\ TaskOK(task[w], node)
  BY DEF NodesTyped
<1>2. t \in TaskType /\ task' = [task EXCEPT ![w] = t]
  BY <1>1 DEF TaskType
<1>3. /\ t.kind = task[w].kind /\ t.pc = pc /\ t.v = task[w].v /\ t.relay = task[w].relay
      /\ t.families = task[w].families /\ t.ids = task[w].ids /\ t.copy = task[w].copy
  BY <1>1 DEF TaskType
<1> HIDE DEF t
<1>4. TaskOK(t, node)
  BY <1>1, <1>3 DEF TaskOK
<1>5. QED
  BY <1>2, <1>4, TypedRows DEF NodesTyped

\* A task ends, or a scan has its last step left, and no row changes.
LEMMA TypedEnds ==
    ASSUME NodesTyped, NEW w \in Tasks,
           Finishes(w) \/ task' = [task EXCEPT ![w] = Refreshing],
           inbound' \in {Gone} \cup Versions, UNCHANGED <<node, asks>>
    PROVE  NodesTyped'
BY TasksAreTasks, TypedRows DEF NodesTyped, Finishes

\* The calls of the agent.
LEMMA TypedCalls ==
    ASSUME NodesTyped, NEW w \in Tasks,
           UpdateRemoves(w) \/ AgentAdds(w) \/ AgentRemoves(w) \/ CallFails(w)
    PROVE  NodesTyped'
<1>1. task[w].v \in {Gone} \cup Versions /\ TaskOK(task[w], node)
  BY DEF NodesTyped, TaskType
<1>2. CASE UpdateRemoves(w)
  BY <1>2, TypedMoves, TypedEnds DEF UpdateRemoves, At, Moves, NodePcs
<1>3. CASE AgentAdds(w)
  <2>1. CASE task[w].kind = "add"
    BY <1>1, <1>3, <2>1, TypedMoves DEF AgentAdds, Moves, NodePcs, TaskOK
  <2>2. CASE task[w].kind = "update"
    BY <1>1, <1>3, <2>2, TypedMoves DEF AgentAdds, Moves, NodePcs
  <2>3. QED
    BY <1>3, <2>1, <2>2 DEF AgentAdds
<1>4. CASE AgentRemoves(w)
  BY <1>4, TypedMoves, TypedEnds DEF AgentRemoves, At, Moves, NodePcs
<1>5. CASE CallFails(w)
  <2>1. inbound' \in {Gone} \cup Versions
    BY <1>1, <1>5 DEF CallFails, NodesTyped
  <2>2. QED
    BY <1>5, <2>1, TypedEnds DEF CallFails
<1>6. QED
  BY <1>2, <1>3, <1>4, <1>5

\* Matching and claiming imported nodes.
LEMMA TypedClaims ==
    ASSUME NodesTyped, NEW w \in Tasks, Match(w) \/ Claim(w)
    PROVE  NodesTyped'
<1>1. task[w] \in TaskType /\ TaskOK(task[w], node)
  BY DEF NodesTyped
<1>2. CASE Match(w)
  <2>1. CASE ExternalIds = {}
    <3>1. Moves(w, IF task[w].kind = "add" THEN "list" ELSE "create")
      BY <1>2, <2>1 DEF Match
    <3>2. task[w].kind = "add" => task[w].families # {}
      BY <1>1, <1>2 DEF Match, TaskOK
    <3>3. QED
      BY <1>2, <3>1, <3>2, TypedMoves DEF Match, Moves, NodePcs, NodesTyped
  <2>2. CASE ExternalIds # {}
    <3>1. PICK ids \in SUBSET Ids :
             task' = [task EXCEPT ![w].pc = "claim", ![w].ids = ids]
      BY <1>2, <2>2 DEF Match, ExternalIds, PointsHere, RowsOf
    <3> DEFINE t == [task[w] EXCEPT !.pc = "claim", !.ids = ids]
    <3>2. t \in TaskType /\ task' = [task EXCEPT ![w] = t]
      BY <1>1, <3>1 DEF TaskType, NodePcs
    <3>3. /\ t.kind = task[w].kind /\ t.pc = "claim" /\ t.v = task[w].v /\ t.relay = task[w].relay
          /\ t.families = task[w].families /\ t.copy = task[w].copy
      BY <1>1 DEF TaskType
    <3> HIDE DEF t
    <3>4. TaskOK(t, node)
      BY <1>1, <1>2, <3>3 DEF TaskOK, Match, Edits
    <3>5. QED
      BY <1>2, <3>2, <3>4, TypedRows DEF NodesTyped, Match
  <2>3. QED
    BY <2>1, <2>2
<1>3. CASE Claim(w)
  <2>1. PICK n \in task[w].ids :
           /\ node' = IF node[n].kind = "external"
                      THEN [node EXCEPT ![n].kind = "bound", ![n].host = "own",
                                        ![n].cfg = task[w].v]
                      ELSE node
           /\ task' = [task EXCEPT ![w] =
                 IF task[w].ids \ {n} # {} THEN [@ EXCEPT !.ids = task[w].ids \ {n}]
                 ELSE IF task[w].kind = "add" THEN NoTask
                 ELSE [@ EXCEPT !.pc = "create", !.ids = {}, !.families = {}]]
    BY <1>3 DEF Claim
  <2>2. n \in Ids /\ task[w].v \in {Gone} \cup Versions /\ node \in [Ids -> Row]
        /\ \A m \in Ids : RowOK(node[m])
    BY <1>1 DEF TaskType, NodesTyped
  <2>3. /\ node' \in [Ids -> Row] /\ \A m \in Ids : RowOK(node'[m])
        /\ \A m \in Ids : node'[m].kind # "none" =>
              node[m].kind # "none" /\ node'[m].family = node[m].family
    <3>1. CASE node[n].kind # "external"
      BY <2>1, <2>2, <3>1
    <3>2. CASE node[n].kind = "external"
      <4> DEFINE r == [node[n] EXCEPT !.kind = "bound", !.host = "own", !.cfg = task[w].v]
      <4>1. node' = [node EXCEPT ![n] = r]
        BY <2>1, <2>2, <3>2
      <4>2. node[n] \in Row
        BY <2>2
      <4>3. r \in Row /\ r.kind = "bound" /\ r.family = node[n].family
        BY <2>2, <4>2 DEF Row
      <4> HIDE DEF r
      <4>4. RowOK(r)
        BY <4>3 DEF RowOK
      <4>5. QED
        BY <2>2, <3>2, <4>1, <4>3, <4>4
    <3>3. QED
      BY <3>1, <3>2
  <2> DEFINE t == IF task[w].ids \ {n} # {} THEN [task[w] EXCEPT !.ids = task[w].ids \ {n}]
                  ELSE IF task[w].kind = "add" THEN NoTask
                  ELSE [task[w] EXCEPT !.pc = "create", !.ids = {}, !.families = {}]
  <2>4. task' = [task EXCEPT ![w] = t]
    BY <2>1
  <2>5. t \in TaskType /\ TaskOK(t, node)
    <3>1. CASE t = NoTask
      BY <3>1, TasksAreTasks
    <3>2. CASE task[w].ids \ {n} # {}
      <4>1. t \in TaskType /\ t.kind = task[w].kind /\ t.pc = task[w].pc /\ t.v = task[w].v
            /\ t.relay = task[w].relay /\ t.families = task[w].families /\ t.copy = task[w].copy
            /\ t.ids = task[w].ids \ {n}
        BY <1>1, <3>2 DEF TaskType
      <4> HIDE DEF t
      <4>2. QED
        BY <1>1, <4>1 DEF TaskOK
    <3>3. CASE /\ task[w].ids \ {n} = {} /\ task[w].kind # "add"
      <4>1. t \in TaskType /\ t.kind = task[w].kind /\ t.pc = "create" /\ t.v = task[w].v
            /\ t.relay = task[w].relay /\ t.families = {} /\ t.copy = task[w].copy
            /\ t.ids = {}
        BY <1>1, <3>3 DEF TaskType, NodePcs
      <4>2. task[w].pc = "claim"
        BY <1>3 DEF Claim
      <4> HIDE DEF t
      <4>3. QED
        BY <1>1, <3>3, <4>1, <4>2 DEF TaskOK
    <3>4. QED
      BY <3>1, <3>2, <3>3
  <2> HIDE DEF t
  <2>6. UNCHANGED <<inbound, asks>>
    BY <1>3 DEF Claim
  <2>7. QED
    BY <2>3, <2>4, <2>5, <2>6, TypedRows DEF NodesTyped
<1>4. QED
  BY <1>2, <1>3

\* Listing nodes and creating them.
LEMMA TypedCreates ==
    ASSUME NodesTyped, NEW w \in Tasks, List(w) \/ Create(w)
    PROVE  NodesTyped'
<1>1. task[w] \in TaskType /\ TaskOK(task[w], node)
  BY DEF NodesTyped
<1>2. CASE List(w)
  <2> DEFINE t == IF ToCreate(w) = {} THEN NoTask
                  ELSE [task[w] EXCEPT !.pc = "create", !.families = ToCreate(w),
                                       !.ids = BoundIds]
  <2>1. task' = [task EXCEPT ![w] = t] /\ UNCHANGED <<inbound, node, asks>>
    BY <1>2 DEF List
  <2>2. t \in TaskType /\ TaskOK(t, node)
    <3>1. CASE ToCreate(w) = {}
      BY <3>1, TasksAreTasks
    <3>2. CASE ToCreate(w) # {}
      <4>1. BoundIds \subseteq Ids /\ ToCreate(w) \subseteq Families
        BY <1>1 DEF BoundIds, RowsOf, ToCreate, TaskType
      <4>2. t \in TaskType /\ t.kind = task[w].kind /\ t.pc = "create" /\ t.v = task[w].v
            /\ t.copy = task[w].copy
        BY <1>1, <3>2, <4>1 DEF TaskType, NodePcs
      <4>3. task[w].kind = "add"
        BY <1>2 DEF List, At
      <4> HIDE DEF t
      <4>4. QED
        BY <1>1, <4>2, <4>3 DEF TaskOK, Edits
    <3>3. QED
      BY <3>1, <3>2
  <2> HIDE DEF t
  <2>3. QED
    BY <2>1, <2>2, TypedRows DEF NodesTyped
<1>3. CASE Create(w)
  <2>1. PICK n \in Ids, f \in task[w].families :
           /\ FreeId(n)
           /\ node' = [node EXCEPT ![n] =
                  IF task[w].relay THEN BehindRelay(Bound(f, task[w].v))
                  ELSE Bound(f, task[w].v)]
           /\ task' = [task EXCEPT ![w] =
                 IF task[w].families \ {f} # {}
                 THEN [@ EXCEPT !.families = task[w].families \ {f}, !.ids = task[w].ids \cup {n}]
                 ELSE IF task[w].kind = "add" THEN NoTask ELSE Refreshing]
    BY <1>3 DEF Create
  <2>2. task[w].kind \in {"add", "sync"} /\ task[w].pc = "create" /\ UNCHANGED <<inbound, asks>>
    BY <1>3 DEF Create
  <2>3. f \in Families /\ task[w].v \in Versions
    BY <1>1, <2>2 DEF TaskType, TaskOK
  <2>4. node' \in [Ids -> Row] /\ \A m \in Ids : RowOK(node'[m])
    BY <2>1, <2>3, RowsAreRows DEF NodesTyped
  <2>5. \A m \in Ids : m # n => node'[m] = node[m]
    BY <2>1 DEF NodesTyped
  <2>6. \A x \in Tasks : n \notin DOMAIN task[x].copy
    BY <2>1 DEF FreeId
  <2> DEFINE t == IF task[w].families \ {f} # {}
                  THEN [task[w] EXCEPT !.families = task[w].families \ {f}, !.ids = task[w].ids \cup {n}]
                  ELSE IF task[w].kind = "add" THEN NoTask ELSE Refreshing
  <2>7. task' = [task EXCEPT ![w] = t]
    BY <2>1
  <2>8. t \in TaskType /\ TaskOK(t, node')
    <3>1. CASE task[w].families \ {f} = {}
      BY <3>1, TasksAreTasks
    <3>2. CASE task[w].families \ {f} # {}
      <4>1. t \in TaskType /\ t.kind = task[w].kind /\ t.pc = "create" /\ t.v = task[w].v
            /\ t.copy = task[w].copy
        BY <1>1, <2>2, <3>2 DEF TaskType
      <4>2. task[w].kind = "add"
        BY <1>1, <2>2, <3>2 DEF TaskOK
      <4>3. DOMAIN task[w].copy \subseteq Ids
        BY <1>1, CopiesAreCopies DEF TaskType
      <4> HIDE DEF t
      <4>4. ASSUME NEW m \in DOMAIN t.copy PROVE CopyOf(t.copy[m], node'[m])
        BY <1>1, <2>5, <2>6, <4>1, <4>3, <4>4 DEF TaskOK
      <4>5. QED
        BY <2>3, <4>1, <4>2, <4>4 DEF TaskOK, Edits
    <3>3. QED
      BY <3>1, <3>2
  <2> HIDE DEF t
  <2>9. QED
    BY <2>2, <2>4, <2>5, <2>6, <2>7, <2>8, TypedStep DEF NodesTyped
<1>4. QED
  BY <1>2, <1>3

\* The nodes of an inbound that was removed, and a family of one updated.
LEMMA TypedTagRows ==
    ASSUME NodesTyped, NEW w \in Tasks,
           HandleRemoved(w) \/ \E f \in Families : UpdateFamily(w, f)
    PROVE  NodesTyped'
<1>1. task[w] \in TaskType /\ TaskOK(task[w], node)
  BY DEF NodesTyped
<1>2. CASE HandleRemoved(w)
  <2>1. /\ node' \in [Ids -> Row] /\ \A m \in Ids : RowOK(node'[m])
        /\ \A m \in Ids : node'[m].kind # "none" => node'[m] = node[m]
    <3>1. \A m \in Ids : node'[m] \in {NoNode, node[m]}
      BY <1>2 DEF HandleRemoved
    <3>2. NoNode.kind = "none"
      BY DEF NoNode
    <3>3. QED
      BY <1>2, <3>1, <3>2, RowsAreRows DEF HandleRemoved, NodesTyped
  <2>2. QED
    BY <1>2, <2>1, TasksAreTasks, TypedRows DEF HandleRemoved, Finishes, NodesTyped
<1>3. ASSUME NEW f \in Families, UpdateFamily(w, f) PROVE NodesTyped'
  <2>1. task[w].v \in Versions
    BY <1>1, <1>3 DEF TaskOK, UpdateFamily, At
  <2>2. ASSUME NEW m \in Ids
        PROVE  /\ node'[m] \in Row /\ RowOK(node'[m])
               /\ node'[m].kind = node[m].kind /\ node'[m].family = node[m].family
    <3>1. \/ node'[m] = node[m]
          \/ /\ m \in BoundIds
             /\ node'[m] = [node[m] EXCEPT !.host = OwnHost(f), !.cfg = task[w].v]
      BY <1>3 DEF UpdateFamily
    <3>2. node[m] \in Row /\ RowOK(node[m])
      BY DEF NodesTyped
    <3>3. QED
      BY <2>1, <3>1, <3>2 DEF Row, RowOK, OwnHost, BoundIds, RowsOf
  <2>3. node' \in [Ids -> Row]
    BY <1>3, <2>2 DEF UpdateFamily
  <2> DEFINE t == IF f = "v4" THEN [task[w] EXCEPT !.pc = "v6"] ELSE NoTask
  <2>4. task' = [task EXCEPT ![w] = t] /\ UNCHANGED <<inbound, asks>>
    BY <1>3 DEF UpdateFamily, Moves, Finishes
  <2>5. t \in TaskType /\ TaskOK(t, node)
    <3>1. CASE f # "v4"
      BY <3>1, TasksAreTasks
    <3>2. CASE f = "v4"
      <4>1. t \in TaskType /\ t.kind = task[w].kind /\ t.pc = "v6" /\ t.v = task[w].v
            /\ t.copy = task[w].copy
        BY <1>1, <3>2 DEF TaskType, NodePcs
      <4>2. task[w].kind = "update"
        BY <1>3 DEF UpdateFamily, At
      <4> HIDE DEF t
      <4>3. QED
        BY <1>1, <4>1, <4>2 DEF TaskOK, Edits
    <3>3. QED
      BY <3>1, <3>2
  <2> HIDE DEF t
  <2>6. QED
    BY <2>2, <2>3, <2>4, <2>5, TypedRows DEF NodesTyped
<1>4. QED
  BY <1>2, <1>3

\* An update lists the nodes it will rewrite.
LEMMA TypedListRelays ==
    ASSUME NodesTyped, NEW w \in Tasks, ListRelays(w)
    PROVE  NodesTyped'
<1>1. task[w] \in TaskType /\ TaskOK(task[w], node) /\ task[w].kind = "update"
  BY DEF NodesTyped, ListRelays, At
<1> DEFINE S == RelaysToWrite(w)
           c == [n \in S |-> node[n]]
<1>2. S \subseteq BoundIds /\ BoundIds \subseteq Ids
  BY DEF RelaysToWrite, BoundIds, RowsOf
<1>3. \A n \in S : node[n] \in Row /\ RowOK(node[n]) /\ node[n].kind = "bound"
  BY <1>2 DEF NodesTyped, BoundIds, RowsOf
<1>4. c \in Copies /\ DOMAIN c = S /\ \A n \in S : c[n] = node[n]
  BY <1>2, <1>3, CopiesAreCopies
<1>5. CASE S = {}
  <2>1. task' = [task EXCEPT ![w].pc = "v4"]
    BY <1>5 DEF ListRelays, NodesTyped
  <2>2. QED
    BY <1>1, <2>1, TypedMoves DEF ListRelays, NodePcs, NodesTyped
<1>6. CASE S # {}
  <2> DEFINE t == [task[w] EXCEPT !.pc = "rewrite", !.ids = S, !.copy = c]
  <2>1. task' = [task EXCEPT ![w] = t] /\ UNCHANGED <<inbound, node, asks>>
    BY <1>6 DEF ListRelays
  <2> HIDE DEF S, c
  <2>2. t \in TaskType /\ t.kind = "update" /\ t.pc = "rewrite" /\ t.v = task[w].v
        /\ t.ids = S /\ t.copy = c
    BY <1>1, <1>2, <1>4 DEF TaskType, NodePcs
  <2> HIDE DEF t
  <2>3. TaskOK(t, node)
    BY <1>1, <1>3, <1>4, <2>2 DEF TaskOK, CopyOf, Edits
  <2>4. QED
    BY <2>1, <2>2, <2>3, TypedRows DEF NodesTyped
<1>7. QED
  BY <1>5, <1>6

\* What the update writes over a row.
Rewritten(r, t) == [r EXCEPT !.host = IF t.relay THEN "relay" ELSE @,
                             !.orig = "own", !.cfg = t.v]

\* A rewritten copy of a row of the inbound is one of it, behind a relay with
\* the v4 address.
LEMMA RewrittenRow ==
    ASSUME NEW r \in Row, NEW t \in TaskType, r.kind = "bound"
    PROVE  /\ Rewritten(r, t) \in Row /\ RowOK(Rewritten(r, t))
           /\ Rewritten(r, t).kind = "bound" /\ Rewritten(r, t).family = r.family
           /\ Rewritten(r, t).host = IF t.relay THEN "relay" ELSE r.host
           /\ Rewritten(r, t).orig = "own" /\ Rewritten(r, t).cfg = t.v
<1>1. /\ Rewritten(r, t) \in Row
      /\ Rewritten(r, t).kind = "bound" /\ Rewritten(r, t).family = r.family
      /\ Rewritten(r, t).host = IF t.relay THEN "relay" ELSE r.host
      /\ Rewritten(r, t).orig = "own" /\ Rewritten(r, t).cfg = t.v
  BY DEF Rewritten, Row, TaskType
<1>2. QED
  BY <1>1 DEF RowOK

\* One step of the update, in the terms of Rewritten.
LEMMA RewriteStep ==
    ASSUME NodesTyped, NEW w \in Tasks, RewriteRelay(w)
    PROVE  \E n \in task[w].ids :
              /\ n \in Ids /\ n \in DOMAIN task[w].copy
              /\ task[w].copy[n] \in Row /\ CopyOf(task[w].copy[n], node[n])
              /\ task[w].copy[n].kind = "bound"
              /\ node' = IF node[n].kind # "none"
                         THEN [node EXCEPT ![n] = Rewritten(task[w].copy[n], task[w])]
                         ELSE node
              /\ LET some == node[n].kind # "none" \/ task[w].families # {}
                     rest == task[w].ids \ {n}
                 IN  task' = [task EXCEPT ![w] =
                        IF rest # {}
                        THEN [task[w] EXCEPT !.ids = rest,
                                             !.copy = [i \in rest |-> task[w].copy[i]],
                                             !.families = IF some THEN Families ELSE {}]
                        ELSE IF some THEN NoTask
                        ELSE [NoTask EXCEPT !.kind = "update", !.pc = "v4", !.v = task[w].v]]
              /\ blame' = blame
                    \cup (IF inbound # task[w].v THEN {"late"} ELSE {})
                    \cup (IF task[w].copy[n].family = "v6" THEN {"origV4"} ELSE {})
                    \cup (IF task[w].relay /\ MidUpdate(w) THEN {"relayedMeanwhile"} ELSE {})
                    \cup (IF node[n].host # task[w].copy[n].host THEN {"copied"} ELSE {})
<1>1. PICK n \in task[w].ids :
           LET rest    == task[w].ids \ {n}
               written == node[n].kind # "none"
               some    == written \/ task[w].families # {} IN
           /\ node' = IF written
                      THEN [node EXCEPT ![n] = [task[w].copy[n] EXCEPT
                                  !.host = IF task[w].relay THEN "relay" ELSE @,
                                  !.orig = "own", !.cfg = task[w].v]]
                      ELSE node
           /\ task' = [task EXCEPT ![w] =
                 IF rest # {}
                 THEN [@ EXCEPT !.ids = rest, !.copy = [i \in rest |-> task[w].copy[i]],
                                !.families = IF some THEN Families ELSE {}]
                 ELSE IF some THEN NoTask
                 ELSE [NoTask EXCEPT !.kind = "update", !.pc = "v4", !.v = task[w].v]]
           /\ blame' = blame
                 \cup (IF inbound # task[w].v THEN {"late"} ELSE {})
                 \cup (IF task[w].copy[n].family = "v6" THEN {"origV4"} ELSE {})
                 \cup (IF task[w].relay /\ MidUpdate(w) THEN {"relayedMeanwhile"} ELSE {})
                 \cup (IF node[n].host # task[w].copy[n].host THEN {"copied"} ELSE {})
  BY DEF RewriteRelay
<1>2. task[w] \in TaskType /\ TaskOK(task[w], node)
      /\ task[w].kind = "update" /\ task[w].pc = "rewrite"
  BY DEF NodesTyped, RewriteRelay, At
<1>3. n \in Ids /\ n \in DOMAIN task[w].copy /\ task[w].copy[n].kind = "bound"
      /\ CopyOf(task[w].copy[n], node[n])
  BY <1>2 DEF TaskOK, TaskType
<1>4. task[w].copy[n] \in Row
  BY <1>2, <1>3, CopiesAreCopies DEF TaskType
<1>5. QED
  BY <1>1, <1>3, <1>4 DEF Rewritten

\* A row is rewritten.
LEMMA TypedRewrite ==
    ASSUME NodesTyped, NEW w \in Tasks, RewriteRelay(w)
    PROVE  NodesTyped'
<1>1. task[w] \in TaskType /\ TaskOK(task[w], node) /\ task[w].kind = "update"
      /\ task[w].pc = "rewrite" /\ UNCHANGED <<inbound, asks>>
  BY DEF NodesTyped, RewriteRelay, At
<1>2. PICK n \in task[w].ids :
         /\ n \in Ids /\ n \in DOMAIN task[w].copy
         /\ task[w].copy[n] \in Row /\ CopyOf(task[w].copy[n], node[n])
         /\ task[w].copy[n].kind = "bound"
         /\ node' = IF node[n].kind # "none"
                    THEN [node EXCEPT ![n] = Rewritten(task[w].copy[n], task[w])]
                    ELSE node
         /\ LET some == node[n].kind # "none" \/ task[w].families # {}
                rest == task[w].ids \ {n}
            IN  task' = [task EXCEPT ![w] =
                   IF rest # {}
                   THEN [task[w] EXCEPT !.ids = rest,
                                        !.copy = [i \in rest |-> task[w].copy[i]],
                                        !.families = IF some THEN Families ELSE {}]
                   ELSE IF some THEN NoTask
                   ELSE [NoTask EXCEPT !.kind = "update", !.pc = "v4", !.v = task[w].v]]
  BY RewriteStep
<1>3. /\ node' \in [Ids -> Row] /\ \A m \in Ids : RowOK(node'[m])
      /\ \A m \in Ids : node'[m].kind # "none" =>
            node[m].kind # "none" /\ node'[m].family = node[m].family
  <2>1. CASE node[n].kind = "none"
    BY <1>2, <2>1 DEF NodesTyped
  <2>2. CASE node[n].kind # "none"
    <3>1. Rewritten(task[w].copy[n], task[w]) \in Row
          /\ RowOK(Rewritten(task[w].copy[n], task[w]))
          /\ Rewritten(task[w].copy[n], task[w]).family = node[n].family
      BY <1>1, <1>2, <2>2, RewrittenRow DEF CopyOf
    <3>2. QED
      BY <1>2, <2>2, <3>1 DEF NodesTyped
  <2>3. QED
    BY <2>1, <2>2
<1> DEFINE rest == task[w].ids \ {n}
           families == IF node[n].kind # "none" \/ task[w].families # {} THEN Families ELSE {}
           c == [i \in rest |-> task[w].copy[i]]
           more == [task[w] EXCEPT !.ids = rest, !.copy = c, !.families = families]
           last == [NoTask EXCEPT !.kind = "update", !.pc = "v4", !.v = task[w].v]
<1>4. \E t \in {more, last, NoTask} : task' = [task EXCEPT ![w] = t]
  BY <1>2
<1>5. more \in TaskType /\ TaskOK(more, node)
  <2>1. rest \in SUBSET Ids /\ rest \subseteq DOMAIN task[w].copy
    BY <1>1 DEF TaskType, TaskOK
  <2>2. task[w].copy \in [DOMAIN task[w].copy -> Row]
    BY <1>1, CopiesAreCopies DEF TaskType
  <2>3. c \in [rest -> Row]
    BY <2>1, <2>2
  <2>4. c \in Copies /\ DOMAIN c = rest /\ \A i \in rest : c[i] = task[w].copy[i]
    BY <2>1, <2>3, CopiesAreCopies
  <2>5. families \in SUBSET Families
    OBVIOUS
  <2>6. rest \subseteq task[w].ids
    OBVIOUS
  <2> HIDE DEF c, rest, families
  <2>7. more \in TaskType /\ more.kind = "update" /\ more.pc = "rewrite" /\ more.v = task[w].v
        /\ more.ids = rest /\ more.copy = c
    BY <1>1, <2>1, <2>4, <2>5 DEF TaskType
  <2> HIDE DEF more
  <2>8. QED
    BY <1>1, <2>1, <2>4, <2>6, <2>7 DEF TaskOK, Edits
<1>6. last \in TaskType /\ TaskOK(last, node)
  <2>1. last \in TaskType /\ last.kind = "update" /\ last.pc = "v4" /\ last.v = task[w].v
        /\ last.copy = NoCopy
    BY <1>1, CopiesAreCopies DEF NoTask, TaskType, Kinds, NodePcs
  <2> HIDE DEF last
  <2>2. QED
    BY <1>1, <2>1, CopiesAreCopies DEF TaskOK, Edits
<1> HIDE DEF more, last
<1>7. QED
  <2>1. PICK t \in {more, last, NoTask} : task' = [task EXCEPT ![w] = t]
    BY <1>4
  <2>2. t \in TaskType /\ TaskOK(t, node)
    BY <1>5, <1>6, TasksAreTasks
  <2>3. inbound' \in {Gone} \cup Versions /\ asks' \in 0..MaxAsks
    BY <1>1 DEF NodesTyped
  <2>4. QED
    BY <1>3, <2>1, <2>2, <2>3, TypedRows

\* What a scan reads.
LEMMA TypedScan ==
    ASSUME NodesTyped, NEW w \in Tasks, SyncInbounds(w) \/ SyncNodes(w)
    PROVE  NodesTyped'
<1>1. task[w] \in TaskType /\ TaskOK(task[w], node) /\ task[w].kind = "sync"
      /\ UNCHANGED <<inbound, node, asks>>
  BY DEF NodesTyped, SyncInbounds, SyncNodes, At
<1>2. CASE SyncInbounds(w)
  <2>1. CASE inbound = Gone
    BY <1>1, <1>2, <2>1, TypedEnds DEF SyncInbounds, NodesTyped
  <2>2. CASE inbound # Gone
    <3> DEFINE t == [task[w] EXCEPT !.pc = "nodes", !.v = inbound]
    <3>1. task' = [task EXCEPT ![w] = t] /\ inbound \in Versions
      BY <1>2, <2>2 DEF SyncInbounds, NodesTyped
    <3>2. t \in TaskType /\ t.kind = "sync" /\ t.pc = "nodes" /\ t.v = inbound
          /\ t.relay = task[w].relay /\ t.families = task[w].families /\ t.ids = task[w].ids
          /\ t.copy = task[w].copy
      BY <1>1, <3>1 DEF TaskType, NodePcs
    <3> HIDE DEF t
    <3>3. TaskOK(t, node)
      BY <1>1, <3>1, <3>2 DEF TaskOK, Edits
    <3>4. QED
      BY <1>1, <3>1, <3>2, <3>3, TypedRows DEF NodesTyped
  <2>3. QED
    BY <2>1, <2>2
<1>3. CASE SyncNodes(w)
  <2> DEFINE missing == WithTag \cup WithFingerprint = {}
  <2>1. PICK found \in {NoCopy} \cup {[i \in {n} |-> node[n]] : n \in WithFingerprint} :
          task' = [task EXCEPT ![w].pc = "match", ![w].ids = BoundIds, ![w].copy = found,
                      ![w].families = IF missing THEN {"v4"} ELSE {}]
    BY <1>3 DEF SyncNodes
  <2>2. /\ found \in Copies /\ \A n, m \in DOMAIN found : n = m
        /\ \A n \in DOMAIN found : CopyOf(found[n], node[n])
    <3>1. CASE found = NoCopy
      BY <3>1, CopiesAreCopies
    <3>2. ASSUME NEW n \in WithFingerprint, found = [i \in {n} |-> node[n]]
          PROVE  /\ found \in Copies /\ \A i, m \in DOMAIN found : i = m
                 /\ \A i \in DOMAIN found : CopyOf(found[i], node[i])
      <4>1. n \in Ids /\ node[n].kind # "none" /\ node[n] \in Row /\ RowOK(node[n])
        BY DEF WithFingerprint, RowsOf, ExternalIds, PointsHere, NodesTyped
      <4>2. found \in [{n} -> Row] /\ {n} \in SUBSET Ids /\ DOMAIN found = {n}
            /\ found[n] = node[n]
        BY <3>2, <4>1
      <4>3. QED
        BY <4>1, <4>2, CopiesAreCopies DEF CopyOf
    <3>3. QED
      BY <3>1, <3>2
  <2>3. missing => BoundIds = {}
    BY DEF WithTag
  <2>4. BoundIds \subseteq Ids
    BY DEF BoundIds, RowsOf
  <2> DEFINE families == IF missing THEN {"v4"} ELSE {}
             t == [task[w] EXCEPT !.pc = "match", !.ids = BoundIds, !.copy = found,
                                  !.families = families]
  <2>5. task' = [task EXCEPT ![w] = t]
    BY <2>1 DEF NodesTyped
  <2>6. families \subseteq {"v4"} /\ families \subseteq Families /\ (families # {} => missing)
    BY DEF Families
  <2> HIDE DEF families, missing
  <2>7. t \in TaskType /\ t.kind = "sync" /\ t.pc = "match" /\ t.v = task[w].v
        /\ t.relay = task[w].relay /\ t.families = families /\ t.ids = BoundIds
        /\ t.copy = found
    BY <1>1, <2>2, <2>4, <2>6 DEF TaskType, NodePcs
  <2>8. task[w].pc = "nodes"
    BY <1>3 DEF SyncNodes, At
  <2> HIDE DEF t
  <2>9. TaskOK(t, node)
    BY <1>1, <2>2, <2>3, <2>6, <2>7, <2>8 DEF TaskOK, Edits
  <2>10. QED
    BY <1>1, <2>5, <2>7, <2>9, TypedRows DEF NodesTyped
<1>4. QED
  BY <1>2, <1>3

\* What a scan writes.
LEMMA TypedScanWrites ==
    ASSUME NodesTyped, NEW w \in Tasks, SyncSkips(w) \/ RefreshHosts(w) \/ RefreshOrig(w)
    PROVE  NodesTyped'
<1>1. task[w] \in TaskType /\ TaskOK(task[w], node) /\ task[w].kind = "sync"
      /\ UNCHANGED <<inbound, asks>>
  BY DEF NodesTyped, SyncSkips, RefreshHosts, RefreshOrig, At
<1>2. \A n \in Ids : node[n] \in Row /\ RowOK(node[n])
  BY DEF NodesTyped
<1>3. CASE SyncSkips(w)
  <2>1. ASSUME NEW n \in Ids
        PROVE  /\ node'[n] \in Row /\ RowOK(node'[n])
               /\ node'[n].kind # "none" =>
                     node[n].kind # "none" /\ node'[n].family = node[n].family
    <3>1. \/ node'[n] = node[n]
          \/ node'[n] = [node[n] EXCEPT !.kind = Tagged(node[n].kind)]
      BY <1>3 DEF SyncSkips
    <3>2. /\ Tagged("external") = "tagged" /\ Tagged("untagged") = "bound"
          /\ Tagged("none") = "none" /\ Tagged("tagged") = "tagged" /\ Tagged("bound") = "bound"
      BY DEF Tagged
    <3>3. node[n] \in Row /\ RowOK(node[n])
      BY <1>2
    <3>4. CASE node'[n] = [node[n] EXCEPT !.kind = Tagged(node[n].kind)]
      <4>1. node[n].kind = "none" => node'[n] = node[n]
        <5>1. [node[n] EXCEPT !.kind = node[n].kind] = node[n]
          BY <3>3 DEF Row
        <5>2. QED
          BY <3>2, <3>4, <5>1
      <4>2. node[n].kind # "none" => /\ node'[n] \in Row
                                     /\ node'[n].kind = Tagged(node[n].kind)
                                     /\ node'[n].family = node[n].family
        BY <3>2, <3>3, <3>4 DEF Row
      <4>3. QED
        BY <3>2, <3>3, <4>1, <4>2 DEF Row, RowOK
    <3>5. QED
      BY <3>1, <3>3, <3>4
  <2>2. node' \in [Ids -> Row]
    BY <1>3, <2>1 DEF SyncSkips
  <2>3. task' = [task EXCEPT ![w] = Refreshing]
    BY <1>3 DEF SyncSkips
  <2>4. QED
    BY <1>1, <2>1, <2>2, <2>3, TasksAreTasks, TypedRows DEF NodesTyped
<1>4. CASE RefreshHosts(w)
  <2>1. ASSUME NEW n \in Ids
        PROVE  /\ node'[n] \in Row /\ RowOK(node'[n])
               /\ node'[n].kind = node[n].kind /\ node'[n].family = node[n].family
    <3>1. \/ node'[n] = node[n]
          \/ node'[n] = [node[n] EXCEPT !.host = "own"] /\ node[n].kind # "none"
      BY <1>4 DEF RefreshHosts
    <3>2. QED
      BY <1>2, <3>1 DEF Row, RowOK
  <2>2. node' \in [Ids -> Row]
    BY <1>4, <2>1 DEF RefreshHosts
  <2>3. PICK others \in SUBSET Ids :
           task' = [task EXCEPT ![w] = IF others = {} THEN NoTask
                                       ELSE [@ EXCEPT !.pc = "origs", !.ids = others]]
    BY <1>4 DEF RefreshHosts, BoundIds, RowsOf
  <2> DEFINE t == IF others = {} THEN NoTask
                  ELSE [task[w] EXCEPT !.pc = "origs", !.ids = others]
  <2>4. task' = [task EXCEPT ![w] = t]
    BY <2>3
  <2>5. t \in TaskType /\ TaskOK(t, node)
    <3>1. CASE others = {}
      BY <3>1, TasksAreTasks
    <3>2. CASE others # {}
      <4>1. t \in TaskType /\ t.kind = "sync" /\ t.pc = "origs" /\ t.relay = task[w].relay
            /\ t.families = task[w].families /\ t.copy = task[w].copy
        BY <1>1, <3>2 DEF TaskType, NodePcs
      <4> HIDE DEF t
      <4>2. QED
        BY <1>1, <4>1 DEF TaskOK, Edits
    <3>3. QED
      BY <3>1, <3>2
  <2> HIDE DEF t
  <2>6. QED
    BY <1>1, <2>1, <2>2, <2>4, <2>5, TypedRows DEF NodesTyped
<1>5. CASE RefreshOrig(w)
  <2>1. PICK n \in task[w].ids :
           /\ node' = IF node[n].kind = "none" THEN node ELSE [node EXCEPT ![n].orig = "own"]
           /\ task' = [task EXCEPT ![w] = IF task[w].ids = {n} THEN NoTask
                                          ELSE [@ EXCEPT !.ids = task[w].ids \ {n}]]
    BY <1>5 DEF RefreshOrig
  <2>2. ASSUME NEW m \in Ids
        PROVE  /\ node'[m] \in Row /\ RowOK(node'[m])
               /\ node'[m].kind = node[m].kind /\ node'[m].family = node[m].family
    <3>1. \/ node'[m] = node[m]
          \/ node'[m] = [node[m] EXCEPT !.orig = "own"] /\ node[m].kind # "none"
      BY <2>1 DEF NodesTyped
    <3>2. QED
      BY <1>2, <3>1 DEF Row, RowOK
  <2>3. node' \in [Ids -> Row]
    <3>1. DOMAIN node' = Ids /\ node' = [m \in Ids |-> node'[m]]
      BY <2>1 DEF NodesTyped
    <3>2. QED
      BY <2>2, <3>1
  <2> DEFINE t == IF task[w].ids = {n} THEN NoTask
                  ELSE [task[w] EXCEPT !.ids = task[w].ids \ {n}]
  <2>4. task' = [task EXCEPT ![w] = t]
    BY <2>1
  <2>5. t \in TaskType /\ TaskOK(t, node)
    <3>1. CASE task[w].ids = {n}
      BY <3>1, TasksAreTasks
    <3>2. CASE task[w].ids # {n}
      <4>1. t \in TaskType /\ t.kind = "sync" /\ t.pc = "origs" /\ t.relay = task[w].relay
            /\ t.families = task[w].families /\ t.copy = task[w].copy
        BY <1>1, <1>5, <3>2 DEF TaskType, RefreshOrig, At
      <4> HIDE DEF t
      <4>2. QED
        BY <1>1, <4>1 DEF TaskOK, Edits
    <3>3. QED
      BY <3>1, <3>2
  <2> HIDE DEF t
  <2>6. QED
    BY <1>1, <2>2, <2>3, <2>4, <2>5, TypedRows DEF NodesTyped
<1>6. QED
  BY <1>3, <1>4, <1>5

\* Deleting nodes, and the inbound with the last of them.
LEMMA TypedDeletes ==
    ASSUME NodesTyped, NEW w \in Tasks,
           \/ CheckSiblings(w) \/ DeleteInbound(w) \/ DeleteInboundFails(w)
           \/ DropNode(w) \/ DropAll(w)
    PROVE  NodesTyped'
<1>1. task[w] \in TaskType /\ TaskOK(task[w], node) /\ task[w].kind \in Deletions
      /\ UNCHANGED asks
  BY DEF NodesTyped, CheckSiblings, DeleteInbound, DeleteInboundFails, Deleting, DropNode,
         DropAll, At, Deletions
<1>2. CASE CheckSiblings(w) \/ DeleteInbound(w) \/ DeleteInboundFails(w)
  <2>1. PICK pc \in {"call", "drop"} : task' = [task EXCEPT ![w].pc = pc]
    BY <1>2 DEF CheckSiblings, DeleteInbound, DeleteInboundFails, Moves
  <2>2. inbound' \in {Gone} \cup Versions /\ node' = node
    BY <1>2 DEF CheckSiblings, DeleteInbound, DeleteInboundFails, NodesTyped
  <2>3. QED
    BY <1>1, <2>1, <2>2, TypedMoves DEF Deletions, NodePcs
<1>3. CASE DropNode(w)
  <2>1. PICK n \in task[w].ids :
           /\ node' = [node EXCEPT ![n] = NoNode]
           /\ task' = [task EXCEPT ![w] = IF task[w].ids = {n} THEN NoTask
                                          ELSE [@ EXCEPT !.ids = task[w].ids \ {n}]]
    BY <1>3 DEF DropNode
  <2>2. /\ node' \in [Ids -> Row] /\ \A m \in Ids : RowOK(node'[m])
        /\ \A m \in Ids : node'[m].kind # "none" => node'[m] = node[m]
    <3>1. node' \in [Ids -> Row] /\ \A m \in Ids : node'[m] \in {NoNode, node[m]}
      BY <2>1, RowsAreRows DEF NodesTyped
    <3>2. NoNode.kind = "none"
      BY DEF NoNode
    <3>3. QED
      BY <3>1, <3>2, RowsAreRows DEF NodesTyped
  <2> DEFINE t == IF task[w].ids = {n} THEN NoTask
                  ELSE [task[w] EXCEPT !.ids = task[w].ids \ {n}]
  <2>4. task' = [task EXCEPT ![w] = t]
    BY <2>1
  <2>5. t \in TaskType /\ TaskOK(t, node)
    <3>1. CASE task[w].ids = {n}
      BY <3>1, TasksAreTasks
    <3>2. CASE task[w].ids # {n}
      <4>1. t \in TaskType /\ t.kind = task[w].kind /\ t.pc = task[w].pc
            /\ t.copy = task[w].copy
        BY <1>1, <3>2 DEF TaskType
      <4> HIDE DEF t
      <4>2. QED
        BY <1>1, <4>1 DEF TaskOK, Edits, Deletions
    <3>3. QED
      BY <3>1, <3>2
  <2> HIDE DEF t
  <2>6. inbound' = inbound
    BY <1>3 DEF DropNode
  <2>7. QED
    BY <1>1, <2>2, <2>4, <2>5, <2>6, TypedRows DEF NodesTyped
<1>4. CASE DropAll(w)
  <2>1. node' \in [Ids -> Row] /\ \A m \in Ids : RowOK(node'[m]) /\ node'[m].kind = "none"
    BY <1>4, RowsAreRows DEF DropAll, NoNode
  <2>2. task' = [task EXCEPT ![w] = NoTask] /\ inbound' = inbound
    BY <1>4 DEF DropAll, Finishes
  <2>3. QED
    BY <1>1, <2>1, <2>2, TasksAreTasks, TypedRows DEF NodesTyped
<1>5. QED
  BY <1>2, <1>3, <1>4

\* An edited row is a row.
LEMMA EditedRow ==
    ASSUME NEW r \in Row, RowOK(r), r.kind # "none", NEW k \in Edits,
           k = "cancelRelay" => Relayed(r)
    PROVE  /\ EditedNode(k, r) \in Row /\ RowOK(EditedNode(k, r))
           /\ EditedNode(k, r).kind = r.kind /\ EditedNode(k, r).family = r.family
           /\ EditedNode(k, r).cfg = r.cfg
           /\ k = "edit" => EditedNode(k, r) = r
           /\ k = "cancelRelay" => EditedNode(k, r).host = r.orig /\ EditedNode(k, r).orig = ""
           /\ k = "setRelay" => /\ EditedNode(k, r).host = "relay"
                                /\ EditedNode(k, r).orig = IF r.orig = "" THEN r.host ELSE r.orig
<1>1. CASE k = "setRelay"
  BY <1>1 DEF EditedNode, BehindRelay, Row, RowOK
<1>2. CASE k = "cancelRelay"
  BY <1>2 DEF EditedNode, Relayed, Row, RowOK
<1>3. CASE k = "edit"
  BY <1>3 DEF EditedNode
<1>4. QED
  BY <1>1, <1>2, <1>3 DEF Edits

\* One write of a copy, in terms of the row.
LEMMA WriteStep ==
    ASSUME NodesTyped, NEW w \in Tasks, WriteCopy(w)
    PROVE  \E n \in Ids :
              /\ task[w].kind \in Edits
              /\ task[w].copy[n] \in Row /\ CopyOf(task[w].copy[n], node[n])
              /\ task[w].kind = "cancelRelay" => Relayed(task[w].copy[n])
              /\ node' = IF node[n].kind = "none" THEN node
                         ELSE [node EXCEPT ![n] = EditedNode(task[w].kind, task[w].copy[n])]
              /\ blame' = blame
                    \cup (IF node[n] \notin {NoNode, task[w].copy[n]} THEN {"copied"} ELSE {})
                    \cup (IF MidUpdate(w) THEN {"relayedMeanwhile"} ELSE {})
<1>1. task[w] \in TaskType /\ TaskOK(task[w], node) /\ task[w].kind \in Edits
  BY DEF NodesTyped, WriteCopy
<1>2. task[w].ids \subseteq Ids /\ task[w].ids \subseteq DOMAIN task[w].copy
      /\ task[w].copy \in [DOMAIN task[w].copy -> Row]
  BY <1>1, CopiesAreCopies DEF TaskOK, TaskType
<1>3. \A n \in task[w].ids : CopyOf(task[w].copy[n], node[n])
                              /\ (task[w].kind = "cancelRelay" => Relayed(task[w].copy[n]))
  BY <1>1, <1>2 DEF TaskOK
<1>4. QED
  BY <1>1, <1>2, <1>3 DEF WriteCopy

\* An edit writes its copy.
LEMMA TypedWrite ==
    ASSUME NodesTyped, NEW w \in Tasks, WriteCopy(w)
    PROVE  NodesTyped'
<1>1. PICK n \in Ids :
         /\ task[w].kind \in Edits
         /\ task[w].copy[n] \in Row /\ CopyOf(task[w].copy[n], node[n])
         /\ task[w].kind = "cancelRelay" => Relayed(task[w].copy[n])
         /\ node' = IF node[n].kind = "none" THEN node
                    ELSE [node EXCEPT ![n] = EditedNode(task[w].kind, task[w].copy[n])]
  BY WriteStep
<1>2. UNCHANGED <<inbound, asks>> /\ Finishes(w)
  BY DEF WriteCopy
<1>3. CASE node[n].kind = "none"
  BY <1>1, <1>2, <1>3, TypedEnds DEF NodesTyped
<1>4. CASE node[n].kind # "none"
  <2>1. /\ EditedNode(task[w].kind, task[w].copy[n]) \in Row
        /\ RowOK(EditedNode(task[w].kind, task[w].copy[n]))
        /\ EditedNode(task[w].kind, task[w].copy[n]).family = node[n].family
    BY <1>1, <1>4, EditedRow DEF CopyOf
  <2>2. /\ node' \in [Ids -> Row] /\ \A m \in Ids : RowOK(node'[m])
        /\ \A m \in Ids : node'[m].kind # "none" =>
              node[m].kind # "none" /\ node'[m].family = node[m].family
    BY <1>1, <1>4, <2>1 DEF NodesTyped
  <2>3. QED
    BY <1>2, <2>2, TasksAreTasks, TypedRows DEF NodesTyped, Finishes
<1>5. QED
  BY <1>3, <1>4

\* The types hold after every step of anybody.
LEMMA TypedNext ==
    ASSUME NodesTyped, NodesNext
    PROVE  NodesTyped'
<1>1. PICK w \in Tasks :
        \/ /\ MayAsk(w)
           /\ \/ AskAdd(w) \/ AskUpdate(w) \/ AskRemove(w) \/ AskSync(w)
              \/ AskDelete(w) \/ AskClear(w) \/ AskEdit(w)
        \/ UpdateRemoves(w) \/ AgentAdds(w) \/ AgentRemoves(w) \/ CallFails(w)
        \/ Match(w) \/ Claim(w) \/ List(w) \/ Create(w)
        \/ HandleRemoved(w) \/ ListRelays(w) \/ RewriteRelay(w)
        \/ \E f \in Families : UpdateFamily(w, f)
        \/ SyncInbounds(w) \/ SyncNodes(w) \/ SyncSkips(w)
        \/ RefreshHosts(w) \/ RefreshOrig(w)
        \/ CheckSiblings(w) \/ DeleteInbound(w) \/ DeleteInboundFails(w)
        \/ DropNode(w) \/ DropAll(w) \/ WriteCopy(w)
  BY DEF NodesNext
<1>2. QED
  BY <1>1, TypedAsks, TypedCalls, TypedClaims, TypedCreates, TypedTagRows, TypedListRelays,
     TypedRewrite, TypedScan, TypedScanWrites, TypedDeletes, TypedWrite

\* The types hold in every state.
THEOREM NodesTypeCorrect == NodesSpec => []NodesTypeOK
<1>1. NodesTyped => NodesTypeOK
  <2> SUFFICES ASSUME NodesTyped PROVE NodesTypeOK
    OBVIOUS
  <2>1. ASSUME NEW w \in Tasks
        PROVE  /\ task[w].kind \in Kinds /\ task[w].v \in {Gone} \cup Versions
               /\ task[w].ids \subseteq Ids /\ task[w].families \subseteq Families
               /\ DOMAIN task[w].copy \subseteq Ids
               /\ task[w].copy \in [DOMAIN task[w].copy -> Row]
    BY CopiesAreCopies DEF NodesTyped, TaskType
  <2>2. QED
    BY <2>1 DEF NodesTyped, NodesTypeOK
<1>2. NodesTyped /\ UNCHANGED nodeVars => NodesTyped'
  BY DEF NodesTyped, nodeVars
<1>3. QED
  BY <1>1, <1>2, TypedInit, TypedNext, PTL DEF NodesSpec

-----------------------------------------------------------------------------
(* What may be wrong only for a reason.  Each part is excused by the       *)
(* reasons of the property it is for, and by nothing else.                 *)

FamilyReasons  == {"claimed", "raced", "hidden", "copied"}
AgentReasons   == {"late", "lost", "readded", "siblings", "vanished", "crossed", "outlived",
                   "copied", "untagged", "tagged"}
ContentReasons == {"late", "lost", "copied", "relayedMeanwhile", "kept", "sibling", "origV4",
                   "imported"}
Clear(reasons) == blame \cap reasons = {}

Is(w, kinds, pcs) == task[w].kind \in kinds /\ task[w].pc \in pcs

\* A row that was bound when a task read it stays bound or goes, as long as no
\* old copy is written over it.
KindInv ==
    "copied" \notin blame =>
       \A w \in Tasks : Is(w, {"update"}, {"rewrite"}) \/ Is(w, {"add"}, {"create"}) =>
          \A n \in task[w].ids : node[n].kind \in {"bound", "none"}

\* An add that found nodes, or made one, has other families left to create.
FamilyInv ==
    Clear(FamilyReasons) =>
       /\ Distinct
       /\ \A w \in Tasks : Is(w, {"add"}, {"create"}) =>
             \A n \in task[w].ids \cap BoundIds : node[n].family \notin task[w].families

\* An update has taken the inbound off and not yet put it back.
UpdateCalls == \E w \in Tasks : Is(w, {"update"}, {"call"})
Dropping(w) == Is(w, Deletions, {"drop"})

\* A deletion that takes the inbound has all its nodes.
TakesAll ==
    \A w \in Tasks : Is(w, Deletions, {"call"}) \/ Is(w, {"clear"}, {"check"})
                        => BoundIds \subseteq task[w].ids

\* While the nodes of an inbound go that was removed, nothing brings it back.
RemovedIsGone ==
    \A w \in Tasks : Is(w, {"remove"}, {"removed"}) => inbound = Gone /\ ~UpdateCalls

\* Deletions leave the nodes of an inbound that runs, or that will again, at
\* least one, the same for all of them.
OneIsLeft ==
    inbound # Gone \/ UpdateCalls =>
       /\ BoundIds # {} => \E m \in BoundIds : \A w \in Tasks : Dropping(w) => m \notin task[w].ids
       /\ \A w \in Tasks : Is(w, {"clear"}, {"drop"}) => BoundIds = {}

DeletionInv == Clear(AgentReasons) => TakesAll /\ RemovedIsGone /\ OneIsLeft

\* Who will make a node of an inbound that runs, and who will bring the inbound
\* back or take the nodes off where it does not.
Creates(w) == \/ Is(w, {"add"}, {"match", "list", "claim", "create"})
              \/ Is(w, {"sync"}, {"nodes", "match", "claim", "create"})
Removes(w) == \/ Is(w, {"update"}, {"call"}) \/ Is(w, {"remove"}, {"removed"})
              \/ Is(w, {"clear"}, {"drop"})
              \/ Is(w, {"delete"}, {"drop"}) /\ BoundIds \subseteq task[w].ids
Creating == \E w \in Tasks : Creates(w)
Removing == \E w \in Tasks : Removes(w)

\* Where panel and agent differ, somebody is about to make them agree; and what
\* an update brings back has a node, or will.
Served     == InStep \/ (IF inbound = Gone THEN Removing ELSE Creating)
CallServed == UpdateCalls => BoundIds # {} \/ Creating

StepInv == Clear(AgentReasons \cup {"unscanned"}) => Served /\ CallServed

Placed(r) == /\ r.host = IF Relayed(r) THEN "relay" ELSE OwnHost(r.family)
             /\ Restores(r)

\* The task that brings row n the content of the inbound, or finds it there.
WillShow(w, n) ==
    /\ task[w].v = inbound
    /\ \/ Is(w, {"add"}, {"match", "list", "claim"})
       \/ Is(w, {"update"}, {"relays", "v4"})
       \/ Is(w, {"update"}, {"v6"}) /\ node[n].family = "v6"
       \/ Is(w, {"update"}, {"rewrite"}) /\ n \in task[w].ids

\* An update that goes by family has no relay to spare, one that rewrites has
\* all of them, and no scan is about to write the v4 address behind a relay.
Fits(w) ==
    /\ Is(w, {"update"}, {"v4", "v6"}) => \A n \in BoundIds : ~Relayed(node[n])
    /\ Is(w, {"update"}, {"rewrite"}) =>
          /\ \A n \in BoundIds : Relayed(node[n]) =>
                                   n \in task[w].ids \/ task[w].families # {}
          /\ \A n \in task[w].ids : task[w].relay \/ task[w].copy[n].host = "relay"
    /\ ~Is(w, {"sync"}, {"origs"})

\* Rows have their own address or the relay's, and the inbound's content or
\* somebody who brings it.
Shows(n) == \/ inbound = Gone \/ node[n].cfg = inbound
            \/ \E w \in Tasks : WillShow(w, n)
ContentInv ==
    Clear(ContentReasons) => /\ \A n \in BoundIds : Placed(node[n]) /\ Shows(n)
                             /\ \A w \in Tasks : Fits(w)

NodesInv == NodesTyped /\ KindInv /\ FamilyInv /\ DeletionInv /\ StepInv /\ ContentInv

-----------------------------------------------------------------------------
(* Requests *)

\* What nobody works on has no part in anything.
LEMMA NobodyIs ==
    ASSUME NEW w \in Tasks, task[w].kind = "idle"
    PROVE  \A kinds, pcs : "idle" \notin kinds => ~Is(w, kinds, pcs)
BY DEF Is

\* At the start nobody works, and what the panel shows is what the agent has.
LEMMA NodesInitInv == NodesInit => NodesInv
<1> SUFFICES ASSUME NodesInit PROVE NodesInv
  OBVIOUS
<1>1. \A w \in Tasks : task[w].kind = "idle"
  BY DEF NodesInit, NoTask
<1>2. KindInv
  BY <1>1 DEF KindInv, Is
<1>3. FamilyInv
  BY <1>1 DEF FamilyInv, Is, NodesInit
<1>4. DeletionInv
  BY <1>1 DEF DeletionInv, TakesAll, RemovedIsGone, OneIsLeft, Is, UpdateCalls, Dropping, Deletions
<1>5. StepInv
  BY <1>1 DEF StepInv, Served, CallServed, NodesInit, Clear, Is, UpdateCalls
<1>6. ContentInv
  <2>1. ASSUME NEW n \in BoundIds PROVE Placed(node[n]) /\ node[n].cfg = inbound
    <3>1. /\ n \in Ids /\ node[n].kind = "bound"
          /\ node[n] \in {NoNode, Unbound("external"), Unbound("untagged")} \cup
                        {Bound(f, inbound) : f \in Families} \cup
                        {BehindRelay(Bound(f, inbound)) : f \in Families}
      BY DEF BoundIds, RowsOf, NodesInit
    <3>2. NoNode.kind = "none" /\ Unbound("external").kind = "external"
          /\ Unbound("untagged").kind = "untagged"
      BY DEF NoNode, Unbound
    <3>3. PICK f \in Families : node[n] \in {Bound(f, inbound), BehindRelay(Bound(f, inbound))}
      BY <3>1, <3>2
    <3>4. CASE node[n] = Bound(f, inbound)
      <4>1. /\ node[n].host = OwnHost(f) /\ node[n].orig = ""
            /\ node[n].family = f /\ node[n].cfg = inbound
        <5>1. /\ Bound(f, inbound).host = OwnHost(f) /\ Bound(f, inbound).orig = ""
              /\ Bound(f, inbound).family = f /\ Bound(f, inbound).cfg = inbound
          BY DEF Bound
        <5>2. QED
          BY <3>4, <5>1
      <4>2. QED
        BY <4>1 DEF Placed, Relayed, Restores
    <3>5. CASE node[n] = BehindRelay(Bound(f, inbound))
      <4>1. /\ node[n].host = "relay" /\ node[n].orig = OwnHost(f)
            /\ node[n].family = f /\ node[n].cfg = inbound
        BY <3>5 DEF Bound, BehindRelay
      <4>2. QED
        BY <4>1 DEF Placed, Relayed, Restores, OwnHost
    <3>6. QED
      BY <3>3, <3>4, <3>5
  <2>2. QED
    BY <1>1, <2>1 DEF ContentInv, Shows, Fits, Is
<1>7. QED
  BY <1>2, <1>3, <1>4, <1>5, <1>6, TypedInit DEF NodesInv

\* How a request begins.
AskedFor(t) ==
    /\ t.kind # "idle" /\ t.pc \in {"call", "remove", "inbounds", "check", "drop", "write"}
    /\ t.kind = "update" => t.pc = "remove"
    /\ t.kind \in {"add", "remove"} => t.pc = "call"
    /\ t.kind = "sync" => t.pc = "inbounds"
    /\ t.kind \in Deletions => t.pc \in {"check", "drop"}
    /\ t.kind = "clear" /\ t.pc = "check" => BoundIds \subseteq t.ids
    /\ t.kind = "clear" /\ t.pc = "drop" => BoundIds = {}
    /\ t.kind = "delete" /\ t.pc = "drop" => t.ids \cap BoundIds = {}

\* Every request is one of these.
LEMMA Asked ==
    ASSUME NodesTyped, NEW w \in Tasks,
           \/ AskAdd(w) \/ AskUpdate(w) \/ AskRemove(w) \/ AskSync(w)
           \/ AskDelete(w) \/ AskClear(w) \/ AskEdit(w)
    PROVE  \E t : AskedFor(t) /\ Starts(w, t)
<1>1. CASE AskAdd(w)
  BY <1>1 DEF AskAdd, NoTask, AskedFor, Deletions
<1>2. CASE AskUpdate(w)
  BY <1>2 DEF AskUpdate, NoTask, AskedFor, Deletions
<1>3. CASE AskRemove(w)
  BY <1>3 DEF AskRemove, NoTask, AskedFor, Deletions
<1>4. CASE AskSync(w)
  BY <1>4 DEF AskSync, NoTask, AskedFor, Deletions
<1>5. CASE AskDelete(w)
  <2>1. PICK ids \in SUBSET Present :
           Starts(w, [NoTask EXCEPT !.kind = "delete", !.ids = ids,
                           !.pc = IF ids \cap BoundIds = {} THEN "drop" ELSE "check"])
    BY <1>5 DEF AskDelete
  <2>2. QED
    BY <2>1 DEF NoTask, AskedFor, Deletions
<1>6. CASE AskClear(w)
  <2>1. BoundIds \subseteq Present
    BY DEF BoundIds, RowsOf, Present
  <2>2. QED
    BY <1>6, <2>1 DEF AskClear, NoTask, AskedFor, Deletions
<1>7. CASE AskEdit(w)
  BY <1>7 DEF AskEdit, NoTask, AskedFor, Deletions, Edits
<1>8. QED
  BY <1>1, <1>2, <1>3, <1>4, <1>5, <1>6, <1>7

\* A request comes in: either all agreed before it, or nothing is forgotten.
LEMMA RequestsKeep ==
    ASSUME NodesInv, NEW w \in Tasks, MayAsk(w), NEW t, AskedFor(t), Starts(w, t)
    PROVE  KindInv' /\ FamilyInv' /\ DeletionInv' /\ StepInv' /\ ContentInv'
<1>1. /\ task[w].kind = "idle" /\ task'[w] = t /\ UNCHANGED <<inbound, node>>
      /\ \A x \in Tasks : x # w => task'[x] = task[x]
  BY DEF MayAsk, Starts, NodesInv, NodesTyped
<1>2. BoundIds' = BoundIds /\ InStep' = InStep /\ Distinct' = Distinct
  BY <1>1 DEF BoundIds, RowsOf, InStep, Distinct
<1>3. /\ ~Is(w, {"update"}, {"call", "rewrite", "relays", "v4", "v6"})'
      /\ ~Is(w, {"add"}, {"match", "list", "claim", "create"})'
      /\ ~Is(w, {"sync"}, {"nodes", "match", "claim", "create", "origs"})'
      /\ ~Is(w, {"remove"}, {"removed"})' /\ ~Is(w, Deletions, {"call"})'
  BY <1>1 DEF AskedFor, Is, Deletions
<1>4. /\ Is(w, {"clear"}, {"check"})' => BoundIds' \subseteq task'[w].ids
      /\ Is(w, {"clear"}, {"drop"})' => BoundIds' = {}
      /\ Dropping(w)' => task'[w].ids \cap BoundIds' = {}
  BY <1>1, <1>2 DEF AskedFor, Is, Dropping, Deletions
<1>5. CASE Agreed
  <2>1. \A x \in Tasks : task[x].kind = "idle"
    BY <1>5 DEF Agreed, NobodyWorks
  <2>2. KindInv'
    BY <1>1, <1>3, <2>1 DEF KindInv, Is
  <2>3. FamilyInv'
    BY <1>1, <1>2, <1>3, <1>5, <2>1 DEF FamilyInv, Is, Agreed
  <2>4. ~UpdateCalls'
    BY <1>1, <1>3, <2>1 DEF UpdateCalls, Is
  <2>5. DeletionInv'
    BY <1>1, <1>3, <1>4, <2>1, <2>4
       DEF DeletionInv, TakesAll, RemovedIsGone, OneIsLeft, Is, Dropping, Deletions
  <2>6. StepInv'
    BY <1>2, <1>5, <2>4 DEF StepInv, Served, CallServed, Agreed
  <2>7. ContentInv'
    <3>1. \A n \in BoundIds : Placed(node[n]) /\ node[n].cfg = inbound
      BY <1>5 DEF Agreed, Shown, Placed
    <3>2. QED
      BY <1>1, <1>2, <1>3, <2>1, <3>1 DEF ContentInv, Shows, Fits, Is, Placed, Relayed, Restores
  <2>8. QED
    BY <2>2, <2>3, <2>5, <2>6, <2>7
<1>6. CASE ~Agreed
  <2>1. blame' = blame
    BY <1>6 DEF Starts
  <2>2. KindInv'
    BY <1>1, <1>3, <2>1 DEF NodesInv, KindInv, Is
  <2>3. FamilyInv'
    BY <1>1, <1>2, <1>3, <2>1 DEF NodesInv, FamilyInv, Is, Clear
  <2>4. UpdateCalls' = UpdateCalls
    BY <1>1, <1>3 DEF UpdateCalls, Is
  <2>5. DeletionInv'
    BY <1>1, <1>2, <1>3, <1>4, <2>1, <2>4
       DEF NodesInv, DeletionInv, TakesAll, RemovedIsGone, OneIsLeft, Is, Dropping, Deletions,
           Clear
  <2>6. (Removing => Removing') /\ (Creating => Creating')
    BY <1>1, <1>2 DEF Removing, Creating, Removes, Creates, Is
  <2>7. StepInv'
    BY <1>1, <1>2, <2>1, <2>4, <2>6 DEF NodesInv, StepInv, Served, CallServed, Clear
  <2>8. ContentInv'
    <3>1. SUFFICES ASSUME Clear(ContentReasons) PROVE ContentInv'
      BY <2>1 DEF ContentInv, Clear
    <3>2. \A x \in Tasks, n \in BoundIds : WillShow(x, n) => WillShow(x, n)'
      BY <1>1 DEF WillShow, Is
    <3>3. \A n \in BoundIds' : Placed(node[n])' /\ Shows(n)'
      BY <1>1, <1>2, <3>1, <3>2 DEF NodesInv, ContentInv, Shows, Placed, Relayed, Restores
    <3>4. ASSUME NEW x \in Tasks PROVE Fits(x)'
      <4>1. CASE x = w
        BY <1>3, <4>1 DEF Fits, Is
      <4>2. CASE x # w
        BY <1>1, <1>2, <3>1, <4>2 DEF NodesInv, ContentInv, Fits, Is, Relayed
      <4>3. QED
        BY <4>1, <4>2
    <3>5. QED
      BY <3>3, <3>4 DEF ContentInv
  <2>9. QED
    BY <2>2, <2>3, <2>5, <2>7, <2>8
<1>7. QED
  BY <1>5, <1>6

-----------------------------------------------------------------------------
(* Every other step is one task's *)

\* The steps after the request, but for the ones that make or take rows.
Quiet(w) ==
    \/ UpdateRemoves(w) \/ AgentAdds(w) \/ AgentRemoves(w) \/ CallFails(w)
    \/ Match(w) \/ List(w) \/ ListRelays(w) \/ RewriteRelay(w)
    \/ \E f \in Families : UpdateFamily(w, f)
    \/ SyncInbounds(w) \/ SyncNodes(w) \/ RefreshHosts(w) \/ RefreshOrig(w)
    \/ CheckSiblings(w) \/ DeleteInbound(w) \/ DeleteInboundFails(w) \/ WriteCopy(w)
Works(w) == \/ Quiet(w) \/ Claim(w) \/ Create(w) \/ SyncSkips(w)
            \/ HandleRemoved(w) \/ DropNode(w) \/ DropAll(w)

\* One task moves, and no reason is forgotten but that the agent was not scanned.
LEMMA OneMoves ==
    ASSUME NodesTyped, NEW w \in Tasks, Works(w)
    PROVE  /\ \A x \in Tasks : x # w => task'[x] = task[x]
           /\ blame \subseteq blame' \cup {"unscanned"}
<1>1. CASE UpdateRemoves(w) \/ AgentAdds(w) \/ AgentRemoves(w) \/ CallFails(w)
  BY <1>1 DEF UpdateRemoves, AgentAdds, AgentRemoves, CallFails, Moves, Finishes, BecauseIf,
              NodesTyped
<1>2. CASE Match(w) \/ Claim(w)
  BY <1>2 DEF Match, Claim, Moves, NodesTyped
<1>3. CASE List(w) \/ Create(w) \/ HandleRemoved(w)
  BY <1>3 DEF List, Create, HandleRemoved, Finishes, NodesTyped
<1>4. CASE ListRelays(w) \/ RewriteRelay(w) \/ \E f \in Families : UpdateFamily(w, f)
  BY <1>4 DEF ListRelays, RewriteRelay, UpdateFamily, Moves, Finishes, BecauseIf, NodesTyped
<1>5. CASE SyncInbounds(w) \/ SyncNodes(w) \/ SyncSkips(w)
  BY <1>5 DEF SyncInbounds, SyncNodes, SyncSkips, NodesTyped
<1>6. CASE RefreshHosts(w) \/ RefreshOrig(w)
  BY <1>6 DEF RefreshHosts, RefreshOrig, BecauseIf, NodesTyped
<1>7. CASE CheckSiblings(w) \/ DeleteInbound(w) \/ DeleteInboundFails(w)
  BY <1>7 DEF CheckSiblings, DeleteInbound, DeleteInboundFails, Moves, BecauseIf, Because,
              NodesTyped
<1>8. CASE DropNode(w) \/ DropAll(w) \/ WriteCopy(w)
  BY <1>8 DEF DropNode, DropAll, WriteCopy, Finishes, NodesTyped
<1>9. QED
  BY <1>1, <1>2, <1>3, <1>4, <1>5, <1>6, <1>7, <1>8 DEF Works, Quiet

\* Only a scan that finds the inbound forgets that the agent was not scanned.
LEMMA UnscannedStays ==
    ASSUME NodesTyped, NEW w \in Tasks, Works(w), ~SyncInbounds(w)
    PROVE  blame \subseteq blame'
<1>1. CASE UpdateRemoves(w) \/ AgentAdds(w) \/ AgentRemoves(w) \/ CallFails(w)
  BY <1>1 DEF UpdateRemoves, AgentAdds, AgentRemoves, CallFails, BecauseIf
<1>2. CASE Match(w) \/ Claim(w) \/ List(w) \/ Create(w) \/ HandleRemoved(w)
  BY <1>2 DEF Match, Claim, List, Create, HandleRemoved
<1>3. CASE ListRelays(w) \/ RewriteRelay(w) \/ \E f \in Families : UpdateFamily(w, f)
  BY <1>3 DEF ListRelays, RewriteRelay, UpdateFamily, BecauseIf
<1>4. CASE SyncNodes(w) \/ SyncSkips(w) \/ RefreshHosts(w) \/ RefreshOrig(w)
  BY <1>4 DEF SyncNodes, SyncSkips, RefreshHosts, RefreshOrig, BecauseIf
<1>5. CASE CheckSiblings(w) \/ DeleteInbound(w) \/ DeleteInboundFails(w)
  BY <1>5 DEF CheckSiblings, DeleteInbound, DeleteInboundFails, BecauseIf, Because
<1>6. CASE DropNode(w) \/ DropAll(w) \/ WriteCopy(w)
  BY <1>6 DEF DropNode, DropAll, WriteCopy
<1>7. QED
  BY <1>1, <1>2, <1>3, <1>4, <1>5, <1>6 DEF Works, Quiet

\* The rows of the inbound stay what they are.
RowsStay == BoundIds' = BoundIds /\ \A n \in BoundIds : node'[n].family = node[n].family
KindsStay == \A n \in Ids : node[n].kind \in {"bound", "none"} => node'[n].kind \in {"bound", "none"}

\* No quiet step makes or takes a row of the inbound, unless an old copy of
\* another is written over it.
LEMMA QuietRows ==
    ASSUME NodesTyped, KindInv, "copied" \notin blame', NEW w \in Tasks, Quiet(w)
    PROVE  RowsStay /\ \A n \in Ids : node'[n].kind = node[n].kind
<1> SUFFICES \A n \in Ids : node'[n].kind = node[n].kind /\ node'[n].family = node[n].family
  BY DEF RowsStay, BoundIds, RowsOf
<1>1. "copied" \notin blame
  BY OneMoves DEF Works
<1>2. CASE \E f \in Families : UpdateFamily(w, f)
  <2>1. PICK f \in Families : UpdateFamily(w, f)
    BY <1>2
  <2> SUFFICES ASSUME NEW n \in Ids
               PROVE  node'[n].kind = node[n].kind /\ node'[n].family = node[n].family
    OBVIOUS
  <2>2. \/ node'[n] = node[n]
        \/ node'[n] = [node[n] EXCEPT !.host = OwnHost(f), !.cfg = task[w].v]
    BY <2>1 DEF UpdateFamily
  <2>3. node[n] \in Row
    BY DEF NodesTyped
  <2>4. QED
    BY <2>2, <2>3 DEF Row
<1>3. CASE RefreshHosts(w)
  <2> SUFFICES ASSUME NEW n \in Ids
               PROVE  node'[n].kind = node[n].kind /\ node'[n].family = node[n].family
    OBVIOUS
  <2>1. \/ node'[n] = node[n]
        \/ node'[n] = [node[n] EXCEPT !.host = "own"]
    BY <1>3 DEF RefreshHosts
  <2>2. node[n] \in Row
    BY DEF NodesTyped
  <2>3. QED
    BY <2>1, <2>2 DEF Row
<1>4. CASE RefreshOrig(w)
  <2>1. PICK n \in task[w].ids :
           node' = IF node[n].kind = "none" THEN node ELSE [node EXCEPT ![n].orig = "own"]
    BY <1>4 DEF RefreshOrig
  <2> SUFFICES ASSUME NEW m \in Ids
               PROVE  node'[m].kind = node[m].kind /\ node'[m].family = node[m].family
    OBVIOUS
  <2>2. \/ node'[m] = node[m]
        \/ node'[m] = [node[m] EXCEPT !.orig = "own"]
    BY <2>1 DEF NodesTyped
  <2>3. node[m] \in Row
    BY DEF NodesTyped
  <2>4. QED
    BY <2>2, <2>3 DEF Row
<1>5. CASE RewriteRelay(w)
  <2>1. PICK n \in task[w].ids :
         /\ n \in Ids /\ n \in DOMAIN task[w].copy
         /\ task[w].copy[n] \in Row /\ CopyOf(task[w].copy[n], node[n])
         /\ task[w].copy[n].kind = "bound"
         /\ node' = IF node[n].kind # "none"
                    THEN [node EXCEPT ![n] = Rewritten(task[w].copy[n], task[w])]
                    ELSE node
    BY <1>5, RewriteStep
  <2>2. Is(w, {"update"}, {"rewrite"}) /\ task[w] \in TaskType
    BY <1>5 DEF RewriteRelay, At, Is, NodesTyped
  <2>3. node[n].kind \in {"bound", "none"}
    BY <1>1, <2>1, <2>2 DEF KindInv
  <2>4. /\ Rewritten(task[w].copy[n], task[w]).kind = "bound"
        /\ node[n].kind # "none" =>
              Rewritten(task[w].copy[n], task[w]).family = node[n].family
    BY <2>1, <2>2, RewrittenRow DEF CopyOf
  <2>5. QED
    BY <2>1, <2>3, <2>4 DEF NodesTyped
<1>6. CASE WriteCopy(w)
  <2>1. PICK n \in Ids :
         /\ task[w].kind \in Edits
         /\ task[w].copy[n] \in Row /\ CopyOf(task[w].copy[n], node[n])
         /\ task[w].kind = "cancelRelay" => Relayed(task[w].copy[n])
         /\ node' = IF node[n].kind = "none" THEN node
                    ELSE [node EXCEPT ![n] = EditedNode(task[w].kind, task[w].copy[n])]
         /\ blame' = blame
               \cup (IF node[n] \notin {NoNode, task[w].copy[n]} THEN {"copied"} ELSE {})
               \cup (IF MidUpdate(w) THEN {"relayedMeanwhile"} ELSE {})
    BY <1>6, WriteStep
  <2>2. node[n] = NoNode \/ node[n] = task[w].copy[n]
    BY <2>1
  <2>3. NoNode.kind = "none"
    BY DEF NoNode
  <2>4. node[n].kind # "none" =>
          /\ EditedNode(task[w].kind, task[w].copy[n]).kind = node[n].kind
          /\ EditedNode(task[w].kind, task[w].copy[n]).family = node[n].family
    <3>1. /\ EditedNode(task[w].kind, task[w].copy[n]).kind = task[w].copy[n].kind
          /\ EditedNode(task[w].kind, task[w].copy[n]).family = task[w].copy[n].family
      BY <2>1, EditedRow DEF CopyOf
    <3>2. QED
      BY <2>2, <2>3, <3>1
  <2>5. QED
    BY <2>1, <2>4 DEF NodesTyped
<1>7. CASE node' = node
  BY <1>7
<1>8. QED
  BY <1>2, <1>3, <1>4, <1>5, <1>6, <1>7
     DEF Quiet, UpdateRemoves, AgentAdds, AgentRemoves, CallFails, Match, List, ListRelays,
         SyncInbounds, SyncNodes, CheckSiblings, DeleteInbound, DeleteInboundFails

\* A node is claimed: nothing but that row changes, and only if it was external.
LEMMA ClaimStep ==
    ASSUME NodesTyped, NEW w \in Tasks, Claim(w)
    PROVE  /\ task[w].kind \in {"add", "sync"} /\ task[w].pc = "claim"
           /\ task[w].v \in Versions /\ inbound' = inbound
           /\ \E n \in Ids :
                 /\ \A m \in Ids : m # n => node'[m] = node[m]
                 /\ node[n].kind # "external" => node'[n] = node[n] /\ "vanished" \in blame'
                 /\ node[n].kind = "external" =>
                       /\ node'[n].kind = "bound" /\ node'[n].family = "v4"
                       /\ node'[n].host = "own" /\ node'[n].cfg = task[w].v
                       /\ node'[n].orig = node[n].orig
                 /\ Relayed(node[n]) => "relayedMeanwhile" \in blame'
           /\ inbound # task[w].v => "late" \in blame'
           /\ MidDeletion(w) => "outlived" \in blame'
           /\ Outdated(w) => "kept" \in blame'
           /\ "claimed" \in blame'
           /\ \/ task'[w] = NoTask /\ task[w].kind = "add"
              \/ /\ task'[w].kind = task[w].kind /\ task'[w].pc = "claim"
                 /\ task'[w].v = task[w].v
              \/ task'[w].kind = "sync" /\ task'[w].pc = "create"
<1>1. task[w] \in TaskType /\ TaskOK(task[w], node) /\ task \in [Tasks -> TaskType]
  BY DEF NodesTyped
<1>2. task[w].kind \in {"add", "sync"} /\ task[w].pc = "claim" /\ task[w].v \in Versions
      /\ inbound' = inbound
  BY <1>1 DEF Claim, TaskOK
<1>3. PICK n \in task[w].ids :
         /\ node' = IF node[n].kind = "external"
                    THEN [node EXCEPT ![n].kind = "bound", ![n].host = "own",
                                      ![n].cfg = task[w].v]
                    ELSE node
         /\ task' = [task EXCEPT ![w] =
               IF task[w].ids \ {n} # {} THEN [@ EXCEPT !.ids = task[w].ids \ {n}]
               ELSE IF task[w].kind = "add" THEN NoTask
               ELSE [@ EXCEPT !.pc = "create", !.ids = {}, !.families = {}]]
         /\ blame' = blame
               \cup (IF inbound # task[w].v THEN {"late"} ELSE {})
               \cup (IF node[n].kind # "external" THEN {"vanished"} ELSE {})
               \cup (IF Relayed(node[n]) THEN {"relayedMeanwhile"} ELSE {})
               \cup (IF MidDeletion(w) THEN {"outlived"} ELSE {})
               \cup (IF Outdated(w) THEN {"kept"} ELSE {})
               \cup {"claimed"}
  BY DEF Claim
<1>4. n \in Ids /\ node[n] \in Row /\ RowOK(node[n])
  BY <1>1, <1>3 DEF TaskType, NodesTyped
<1>5. /\ \A m \in Ids : m # n => node'[m] = node[m]
      /\ node[n].kind # "external" => node'[n] = node[n]
      /\ node[n].kind = "external" =>
            /\ node'[n].kind = "bound" /\ node'[n].family = node[n].family
            /\ node'[n].host = "own" /\ node'[n].cfg = task[w].v
            /\ node'[n].orig = node[n].orig
  <2>1. CASE node[n].kind # "external"
    BY <1>3, <2>1
  <2>2. CASE node[n].kind = "external"
    <3> DEFINE r == [node[n] EXCEPT !.kind = "bound", !.host = "own", !.cfg = task[w].v]
    <3>1. node' = [node EXCEPT ![n] = r]
      BY <1>3, <1>4, <2>2 DEF NodesTyped
    <3>2. /\ r.kind = "bound" /\ r.family = node[n].family /\ r.host = "own"
          /\ r.cfg = task[w].v /\ r.orig = node[n].orig
      BY <1>4 DEF Row
    <3> HIDE DEF r
    <3>3. QED
      BY <1>4, <2>2, <3>1, <3>2 DEF NodesTyped
  <2>3. QED
    BY <2>1, <2>2
<1>6. node[n].kind = "external" => node[n].family = "v4"
  BY <1>4 DEF RowOK
<1>7. \/ task'[w] = NoTask /\ task[w].kind = "add"
      \/ task'[w].kind = task[w].kind /\ task'[w].pc = "claim" /\ task'[w].v = task[w].v
      \/ task'[w].kind = "sync" /\ task'[w].pc = "create"
  BY <1>1, <1>2, <1>3 DEF TaskType
<1>8. QED
  BY <1>2, <1>3, <1>4, <1>5, <1>6, <1>7

\* A node is created, in a row nobody remembers.
LEMMA CreateStep ==
    ASSUME NodesTyped, NEW w \in Tasks, Create(w)
    PROVE  /\ task[w].kind \in {"add", "sync"} /\ task[w].pc = "create"
           /\ task[w].v \in Versions /\ inbound' = inbound
           /\ \E n \in Ids, f \in task[w].families :
                 /\ node[n].kind = "none" /\ \A x \in Tasks : n \notin task[x].ids
                 /\ \A m \in Ids : m # n => node'[m] = node[m]
                 /\ node'[n].kind = "bound" /\ node'[n].family = f
                 /\ node'[n].cfg = task[w].v
                 /\ Placed(node'[n]) /\ (Relayed(node'[n]) => task[w].relay)
                 /\ \/ task'[w] \in {NoTask, Refreshing}
                    \/ /\ task'[w].kind = "add" /\ task'[w].pc = "create"
                       /\ task[w].kind = "add"
                       /\ task'[w].families = task[w].families \ {f}
                       /\ task'[w].ids = task[w].ids \cup {n}
           /\ inbound # task[w].v => "late" \in blame'
           /\ ~(BoundIds \subseteq task[w].ids) => "raced" \in blame'
           /\ task[w].relay /\ MidUpdate(w) => "relayedMeanwhile" \in blame'
           /\ MidDeletion(w) => "outlived" \in blame'
<1>1. task[w] \in TaskType /\ TaskOK(task[w], node) /\ task \in [Tasks -> TaskType]
  BY DEF NodesTyped
<1>2. task[w].kind \in {"add", "sync"} /\ task[w].pc = "create" /\ task[w].v \in Versions
      /\ inbound' = inbound
  BY <1>1 DEF Create, TaskOK
<1>3. PICK n \in Ids, f \in task[w].families :
         /\ FreeId(n)
         /\ node' = [node EXCEPT ![n] =
                IF task[w].relay THEN BehindRelay(Bound(f, task[w].v)) ELSE Bound(f, task[w].v)]
         /\ task' = [task EXCEPT ![w] =
               IF task[w].families \ {f} # {}
               THEN [@ EXCEPT !.families = task[w].families \ {f}, !.ids = task[w].ids \cup {n}]
               ELSE IF task[w].kind = "add" THEN NoTask ELSE Refreshing]
         /\ blame' = blame
               \cup (IF inbound # task[w].v THEN {"late"} ELSE {})
               \cup (IF ~(BoundIds \subseteq task[w].ids) THEN {"raced"} ELSE {})
               \cup (IF task[w].relay /\ MidUpdate(w) THEN {"relayedMeanwhile"} ELSE {})
               \cup (IF MidDeletion(w) THEN {"outlived"} ELSE {})
  BY DEF Create
<1> DEFINE r == IF task[w].relay THEN BehindRelay(Bound(f, task[w].v)) ELSE Bound(f, task[w].v)
<1>4. /\ r.kind = "bound" /\ r.family = f /\ r.cfg = task[w].v
      /\ Placed(r) /\ (Relayed(r) => task[w].relay)
  <2>1. CASE task[w].relay
    <3>1. /\ r.kind = "bound" /\ r.family = f /\ r.cfg = task[w].v
          /\ r.host = "relay" /\ r.orig = OwnHost(f)
      BY <2>1 DEF BehindRelay, Bound
    <3> HIDE DEF r
    <3>2. QED
      BY <2>1, <3>1 DEF Placed, Relayed, Restores, OwnHost
  <2>2. CASE ~task[w].relay
    <3>1. /\ r.kind = "bound" /\ r.family = f /\ r.cfg = task[w].v
          /\ r.host = OwnHost(f) /\ r.orig = ""
      BY <2>2 DEF Bound
    <3> HIDE DEF r
    <3>2. QED
      BY <2>2, <3>1 DEF Placed, Relayed, Restores
  <2>3. QED
    BY <2>1, <2>2
<1>5. node' = [node EXCEPT ![n] = r]
  BY <1>3
<1> HIDE DEF r
<1>6. node[n].kind = "none" /\ \A x \in Tasks : n \notin task[x].ids
  BY <1>3 DEF FreeId
<1>7. \A m \in Ids : node'[m] = IF m = n THEN r ELSE node[m]
  BY <1>5 DEF NodesTyped
<1>8. task[w].families \ {f} # {} => task[w].kind = "add"
  BY <1>1, <1>2, <1>3 DEF TaskOK
<1>9. \/ task'[w] \in {NoTask, Refreshing}
      \/ /\ task'[w].kind = "add" /\ task'[w].pc = "create" /\ task[w].kind = "add"
         /\ task'[w].families = task[w].families \ {f}
         /\ task'[w].ids = task[w].ids \cup {n}
  BY <1>1, <1>2, <1>3, <1>8 DEF TaskType
<1>10. QED
  BY <1>2, <1>3, <1>4, <1>6, <1>7, <1>9

\* A scan gives the one node it found the tag.
LEMMA SkipStep ==
    ASSUME NodesTyped, NEW w \in Tasks, SyncSkips(w)
    PROVE  /\ task[w].kind = "sync" /\ task[w].pc = "create" /\ task'[w] = Refreshing
           /\ task[w].v \in Versions /\ inbound' = inbound
           /\ \E found \in SUBSET Ids :
                 /\ \A n, m \in found : n = m
                 /\ \A n \in Ids \ found : node'[n] = node[n]
                 /\ \A n \in found : node'[n].kind = Tagged(node[n].kind)
                 /\ \A n \in BoundIds : node'[n] = node[n]
                 /\ (BoundIds \cup found = {} \/ \E n \in found : node'[n].kind = "none")
                       => "vanished" \in blame'
                 /\ (\E n \in found : node[n].kind = "untagged") =>
                       /\ "imported" \in blame'
                       /\ inbound # task[w].v => "late" \in blame'
                       /\ BoundIds # {} => "raced" \in blame'
                       /\ MidDeletion(w) => "outlived" \in blame'
           /\ RowsOf(node, "tagged")' # {} => "tagged" \in blame'
<1>1. task[w] \in TaskType /\ TaskOK(task[w], node) /\ task \in [Tasks -> TaskType]
  BY DEF NodesTyped
<1>2. task[w].kind = "sync" /\ task[w].pc = "create" /\ task[w].v \in Versions
      /\ inbound' = inbound /\ task'[w] = Refreshing
  BY <1>1 DEF SyncSkips, At, TaskOK
<1> DEFINE found == DOMAIN task[w].copy
<1>3. found \in SUBSET Ids /\ \A n, m \in found : n = m
  BY <1>1, <1>2, CopiesAreCopies DEF TaskOK, TaskType
<1>4. ASSUME NEW n \in Ids
      PROVE  /\ n \notin found => node'[n] = node[n]
             /\ n \in found => node'[n].kind = Tagged(node[n].kind)
             /\ node[n].kind = "bound" => node'[n] = node[n]
  <2>1. node[n] \in Row
    BY DEF NodesTyped
  <2>2. node'[n] = IF n \in found THEN [node[n] EXCEPT !.kind = Tagged(node[n].kind)]
                                   ELSE node[n]
    BY DEF SyncSkips
  <2>3. Tagged("bound") = "bound"
    BY DEF Tagged
  <2>4. [node[n] EXCEPT !.kind = node[n].kind] = node[n]
    BY <2>1 DEF Row
  <2>5. [node[n] EXCEPT !.kind = Tagged(node[n].kind)].kind = Tagged(node[n].kind)
    BY <2>1 DEF Row
  <2>6. QED
    BY <2>2, <2>3, <2>4, <2>5
<1>5. blame' = blame
        \cup (IF BoundIds \cup found = {} THEN {"vanished"} ELSE {})
        \cup (IF \E n \in found : node'[n].kind = "none" THEN {"vanished"} ELSE {})
        \cup (IF RowsOf(node', "tagged") # {} THEN {"tagged"} ELSE {})
        \cup (IF \E n \in found : node[n].kind = "untagged" THEN {"imported"} ELSE {})
        \cup (IF (\E n \in found : node[n].kind = "untagged") /\ inbound # task[w].v
              THEN {"late"} ELSE {})
        \cup (IF (\E n \in found : node[n].kind = "untagged") /\ BoundIds # {}
              THEN {"raced"} ELSE {})
        \cup (IF (\E n \in found : node[n].kind = "untagged") /\ MidDeletion(w)
              THEN {"outlived"} ELSE {})
  BY DEF SyncSkips
<1> HIDE DEF found
<1>6. \A n \in found : n \in Ids
  BY <1>3
<1>7. RowsOf(node, "tagged")' # {} => "tagged" \in blame'
  BY <1>5 DEF RowsOf
<1>8. \A n \in BoundIds : node'[n] = node[n]
  BY <1>4 DEF BoundIds, RowsOf
<1>9. /\ (BoundIds \cup found = {} \/ \E n \in found : node'[n].kind = "none")
            => "vanished" \in blame'
      /\ (\E n \in found : node[n].kind = "untagged") =>
            /\ "imported" \in blame'
            /\ inbound # task[w].v => "late" \in blame'
            /\ BoundIds # {} => "raced" \in blame'
            /\ MidDeletion(w) => "outlived" \in blame'
  BY <1>5
<1>10. /\ \A n \in Ids \ found : node'[n] = node[n]
       /\ \A n \in found : node'[n].kind = Tagged(node[n].kind)
  BY <1>4, <1>6
<1>11. QED
  BY <1>2, <1>3, <1>7, <1>8, <1>9, <1>10

\* A row of a deletion goes.
LEMMA DropStep ==
    ASSUME NodesTyped, NEW w \in Tasks, DropNode(w)
    PROVE  /\ Is(w, {"delete"}, {"drop"}) /\ UNCHANGED <<inbound, blame>>
           /\ \E n \in task[w].ids :
                 /\ node' = [node EXCEPT ![n] = NoNode] /\ n \in Ids
                 /\ BoundIds' = BoundIds \ {n} /\ \A m \in BoundIds' : node'[m] = node[m]
                 /\ \/ task'[w] = NoTask /\ task[w].ids = {n}
                    \/ /\ task'[w].kind = "delete" /\ task'[w].pc = "drop"
                       /\ task'[w].ids = task[w].ids \ {n}
<1>1. task[w] \in TaskType /\ task \in [Tasks -> TaskType]
  BY DEF NodesTyped
<1>2. PICK n \in task[w].ids :
         /\ node' = [node EXCEPT ![n] = NoNode]
         /\ task' = [task EXCEPT ![w] = IF task[w].ids = {n} THEN NoTask
                                        ELSE [@ EXCEPT !.ids = task[w].ids \ {n}]]
  BY DEF DropNode
<1>3. Is(w, {"delete"}, {"drop"}) /\ UNCHANGED <<inbound, blame>> /\ n \in Ids
  BY <1>1 DEF DropNode, At, Is, TaskType
<1>4. NoNode.kind = "none"
  BY DEF NoNode
<1>5. BoundIds' = BoundIds \ {n} /\ \A m \in BoundIds' : node'[m] = node[m]
  BY <1>2, <1>3, <1>4 DEF BoundIds, RowsOf, NodesTyped
<1>6. \/ task'[w] = NoTask /\ task[w].ids = {n}
      \/ task'[w].kind = "delete" /\ task'[w].pc = "drop" /\ task'[w].ids = task[w].ids \ {n}
  BY <1>1, <1>2, <1>3 DEF TaskType, Is
<1>7. QED
  BY <1>2, <1>3, <1>5, <1>6

\* All rows of a tag go, or all there are.
LEMMA AllGo ==
    ASSUME NodesTyped, NEW w \in Tasks, HandleRemoved(w) \/ DropAll(w)
    PROVE  /\ BoundIds' = {} /\ task'[w] = NoTask /\ UNCHANGED <<inbound, blame>>
           /\ \A n \in Ids : node'[n].kind \in {"none", node[n].kind}
<1>1. NoNode.kind = "none"
  BY DEF NoNode
<1>2. \A n \in Ids : node'[n] \in {NoNode, node[n]} /\ (n \in BoundIds => node'[n] = NoNode)
  BY DEF HandleRemoved, DropAll
<1>3. \A n \in Ids : node'[n].kind \in {"none", node[n].kind}
  BY <1>1, <1>2
<1>4. BoundIds' = {}
  BY <1>1, <1>2 DEF BoundIds, RowsOf
<1>5. task'[w] = NoTask /\ UNCHANGED <<inbound, blame>>
  BY DEF HandleRemoved, DropAll, Finishes, NodesTyped
<1>6. QED
  BY <1>3, <1>4, <1>5

\* The agent's calls.
LEMMA CallSteps ==
    ASSUME NodesTyped, NEW w \in Tasks
    PROVE  /\ UpdateRemoves(w) =>
                 /\ Is(w, {"update"}, {"remove"}) /\ inbound' = Gone /\ UNCHANGED <<node, blame>>
                 /\ IF inbound # Gone THEN Is(w, {"update"}, {"call"})' ELSE task'[w] = NoTask
           /\ AgentAdds(w) =>
                 /\ Is(w, {"add", "update"}, {"call"}) /\ node' = node
                 /\ inbound' = task[w].v /\ inbound' \in Versions /\ task'[w].v = inbound'
                 /\ Is(w, {"add"}, {"call"}) => Is(w, {"add"}, {"match"})'
                 /\ Is(w, {"update"}, {"call"}) => Is(w, {"update"}, {"relays"})'
                 /\ Busy(w, Deletions \cup {"remove"}, {"call", "check", "drop", "removed"})
                      => "readded" \in blame'
           /\ AgentRemoves(w) =>
                 /\ Is(w, {"remove"}, {"call"}) /\ inbound' = Gone /\ node' = node
                 /\ IF inbound # Gone THEN Is(w, {"remove"}, {"removed"})' ELSE task'[w] = NoTask
                 /\ Busy(w, {"update"}, {"call"}) => "crossed" \in blame'
           /\ CallFails(w) =>
                 /\ Is(w, {"add", "update", "remove"}, {"call", "remove"}) /\ node' = node
                 /\ inbound' # inbound \/ Is(w, {"update"}, {"call"}) => "lost" \in blame'
                 /\ task'[w] = NoTask
<1>1. task[w] \in TaskType /\ TaskOK(task[w], node) /\ task \in [Tasks -> TaskType]
  BY DEF NodesTyped
<1>2. \A pc : Moves(w, pc) => task'[w].kind = task[w].kind /\ task'[w].pc = pc
                              /\ task'[w].v = task[w].v
  BY <1>1 DEF Moves, TaskType
<1>3. Finishes(w) => task'[w] = NoTask
  BY <1>1 DEF Finishes
<1>4. ASSUME UpdateRemoves(w)
      PROVE  /\ Is(w, {"update"}, {"remove"}) /\ inbound' = Gone /\ UNCHANGED <<node, blame>>
             /\ IF inbound # Gone THEN Is(w, {"update"}, {"call"})' ELSE task'[w] = NoTask
  BY <1>2, <1>3, <1>4 DEF UpdateRemoves, At, Is
<1>5. ASSUME AgentAdds(w)
      PROVE  /\ Is(w, {"add", "update"}, {"call"}) /\ node' = node
             /\ inbound' = task[w].v /\ inbound' \in Versions /\ task'[w].v = inbound'
             /\ Is(w, {"add"}, {"call"}) => Is(w, {"add"}, {"match"})'
             /\ Is(w, {"update"}, {"call"}) => Is(w, {"update"}, {"relays"})'
             /\ Busy(w, Deletions \cup {"remove"}, {"call", "check", "drop", "removed"})
                  => "readded" \in blame'
  BY <1>1, <1>2, <1>5 DEF AgentAdds, Is, TaskOK, BecauseIf
<1>6. ASSUME AgentRemoves(w)
      PROVE  /\ Is(w, {"remove"}, {"call"}) /\ inbound' = Gone /\ node' = node
             /\ IF inbound # Gone THEN Is(w, {"remove"}, {"removed"})' ELSE task'[w] = NoTask
             /\ Busy(w, {"update"}, {"call"}) => "crossed" \in blame'
  BY <1>2, <1>3, <1>6 DEF AgentRemoves, At, Is, BecauseIf
<1>7. ASSUME CallFails(w)
      PROVE  /\ Is(w, {"add", "update", "remove"}, {"call", "remove"}) /\ node' = node
             /\ inbound' # inbound \/ Is(w, {"update"}, {"call"}) => "lost" \in blame'
             /\ task'[w] = NoTask
  BY <1>3, <1>7 DEF CallFails, At, Is, BecauseIf
<1>8. QED
  BY <1>4, <1>5, <1>6, <1>7

\* What the listener reads, and the family it updates.
LEMMA ListenerSteps ==
    ASSUME NodesTyped, NEW w \in Tasks
    PROVE  /\ Match(w) =>
                 /\ Is(w, {"add", "sync"}, {"match"}) /\ UNCHANGED <<inbound, node, blame>>
                 /\ Is(w, {"add"}, {"match"}) => Is(w, {"add"}, {"list", "claim"})'
                 /\ Is(w, {"sync"}, {"match"}) => Is(w, {"sync"}, {"create", "claim"})'
                 /\ task'[w].v = task[w].v
           /\ List(w) =>
                 /\ Is(w, {"add"}, {"list"}) /\ UNCHANGED <<inbound, node>>
                 /\ task[w].families # {} /\ task[w].families \subseteq Families
                 /\ IF ToCreate(w) = {} THEN task'[w] = NoTask
                    ELSE /\ Is(w, {"add"}, {"create"})' /\ task'[w].families = ToCreate(w)
                         /\ task'[w].ids = BoundIds
                 /\ Outdated(w) => "kept" \in blame'
                 /\ (\E n \in BoundIds : node[n].host # OwnHost(node[n].family) \/ task[w].relay)
                      => "hidden" \in blame'
                 /\ RowsOf(node, "untagged") # {} => "untagged" \in blame'
           /\ ListRelays(w) =>
                 /\ Is(w, {"update"}, {"relays"}) /\ UNCHANGED <<inbound, node>>
                 /\ task'[w].v = task[w].v
                 /\ IF RelaysToWrite(w) = {} THEN Is(w, {"update"}, {"v4"})'
                    ELSE /\ Is(w, {"update"}, {"rewrite"})' /\ task'[w].ids = RelaysToWrite(w)
                         /\ task'[w].relay = task[w].relay
                         /\ \A n \in RelaysToWrite(w) : task'[w].copy[n] = node[n]
                 /\ RelaysToWrite(w) \notin {{}, BoundIds} => "sibling" \in blame'
           /\ \A f \in Families : UpdateFamily(w, f) =>
                 /\ Is(w, {"update"}, {f}) /\ inbound' = inbound
                 /\ IF f = "v4" THEN Is(w, {"update"}, {"v6"})' /\ task'[w].v = task[w].v
                    ELSE task'[w] = NoTask
                 /\ inbound # task[w].v => "late" \in blame'
<1>1. task[w] \in TaskType /\ TaskOK(task[w], node) /\ task \in [Tasks -> TaskType]
  BY DEF NodesTyped
<1>2. \A pc : Moves(w, pc) => task'[w].kind = task[w].kind /\ task'[w].pc = pc
                              /\ task'[w].v = task[w].v
  BY <1>1 DEF Moves, TaskType
<1>3. Finishes(w) => task'[w] = NoTask
  BY <1>1 DEF Finishes
<1>4. ASSUME Match(w)
      PROVE  /\ Is(w, {"add", "sync"}, {"match"}) /\ UNCHANGED <<inbound, node, blame>>
             /\ Is(w, {"add"}, {"match"}) => Is(w, {"add"}, {"list", "claim"})'
             /\ Is(w, {"sync"}, {"match"}) => Is(w, {"sync"}, {"create", "claim"})'
             /\ task'[w].v = task[w].v
  <2>1. CASE ExternalIds = {}
    BY <1>2, <1>4, <2>1 DEF Match, Is
  <2>2. CASE ExternalIds # {}
    <3>1. PICK ids : task' = [task EXCEPT ![w].pc = "claim", ![w].ids = ids]
      BY <1>4, <2>2 DEF Match
    <3>2. task'[w].kind = task[w].kind /\ task'[w].pc = "claim" /\ task'[w].v = task[w].v
      BY <1>1, <3>1 DEF TaskType
    <3>3. QED
      BY <1>4, <3>2 DEF Match, Is
  <2>3. QED
    BY <2>1, <2>2
<1>5. ASSUME List(w)
      PROVE  /\ Is(w, {"add"}, {"list"}) /\ UNCHANGED <<inbound, node>>
             /\ task[w].families # {} /\ task[w].families \subseteq Families
             /\ IF ToCreate(w) = {} THEN task'[w] = NoTask
                ELSE /\ Is(w, {"add"}, {"create"})' /\ task'[w].families = ToCreate(w)
                     /\ task'[w].ids = BoundIds
             /\ Outdated(w) => "kept" \in blame'
             /\ (\E n \in BoundIds : node[n].host # OwnHost(node[n].family) \/ task[w].relay)
                  => "hidden" \in blame'
             /\ RowsOf(node, "untagged") # {} => "untagged" \in blame'
  <2>1. /\ Is(w, {"add"}, {"list"}) /\ UNCHANGED <<inbound, node>>
        /\ task[w].families # {} /\ task[w].families \subseteq Families
    BY <1>1, <1>5 DEF List, At, Is, TaskOK, TaskType
  <2>2. IF ToCreate(w) = {} THEN task'[w] = NoTask
        ELSE /\ Is(w, {"add"}, {"create"})' /\ task'[w].families = ToCreate(w)
             /\ task'[w].ids = BoundIds
    <3> DEFINE t == [task[w] EXCEPT !.pc = "create", !.families = ToCreate(w), !.ids = BoundIds]
    <3>1. task'[w] = IF ToCreate(w) = {} THEN NoTask ELSE t
      BY <1>1, <1>5 DEF List
    <3>2. /\ t.kind = task[w].kind /\ t.pc = "create" /\ t.families = ToCreate(w)
          /\ t.ids = BoundIds
      BY <1>1 DEF TaskType
    <3> HIDE DEF t
    <3>3. QED
      BY <2>1, <3>1, <3>2 DEF Is
  <2>3. /\ Outdated(w) => "kept" \in blame'
        /\ (\E n \in BoundIds : node[n].host # OwnHost(node[n].family) \/ task[w].relay)
             => "hidden" \in blame'
        /\ RowsOf(node, "untagged") # {} => "untagged" \in blame'
    <3>1. blame' = blame
            \cup (IF Outdated(w) THEN {"kept"} ELSE {})
            \cup (IF \E n \in BoundIds : node[n].host # OwnHost(node[n].family) \/ task[w].relay
                  THEN {"hidden"} ELSE {})
            \cup (IF RowsOf(node, "untagged") # {} THEN {"untagged"} ELSE {})
      BY <1>5 DEF List
    <3>2. QED
      BY <3>1
  <2>4. QED
    BY <2>1, <2>2, <2>3
<1>6. ASSUME ListRelays(w)
      PROVE  /\ Is(w, {"update"}, {"relays"}) /\ UNCHANGED <<inbound, node>>
             /\ task'[w].v = task[w].v
             /\ IF RelaysToWrite(w) = {} THEN Is(w, {"update"}, {"v4"})'
                ELSE /\ Is(w, {"update"}, {"rewrite"})' /\ task'[w].ids = RelaysToWrite(w)
                     /\ task'[w].relay = task[w].relay
                     /\ \A n \in RelaysToWrite(w) : task'[w].copy[n] = node[n]
             /\ RelaysToWrite(w) \notin {{}, BoundIds} => "sibling" \in blame'
  <2> DEFINE c == [n \in RelaysToWrite(w) |-> node[n]]
             t == [task[w] EXCEPT !.pc = "rewrite", !.ids = RelaysToWrite(w), !.copy = c]
             t4 == [task[w] EXCEPT !.pc = "v4"]
  <2>1. task'[w] = IF RelaysToWrite(w) = {} THEN t4 ELSE t
    BY <1>1, <1>6 DEF ListRelays
  <2>2. \A n \in RelaysToWrite(w) : c[n] = node[n]
    OBVIOUS
  <2> HIDE DEF c
  <2>3. /\ t.kind = task[w].kind /\ t.pc = "rewrite" /\ t.ids = RelaysToWrite(w) /\ t.copy = c
        /\ t.v = task[w].v /\ t.relay = task[w].relay
        /\ t4.kind = task[w].kind /\ t4.pc = "v4" /\ t4.v = task[w].v
    BY <1>1 DEF TaskType
  <2> HIDE DEF t, t4
  <2>4. Is(w, {"update"}, {"relays"}) /\ UNCHANGED <<inbound, node>>
        /\ (RelaysToWrite(w) \notin {{}, BoundIds} => "sibling" \in blame')
    BY <1>6 DEF ListRelays, At, Is, BecauseIf
  <2>5. QED
    BY <2>1, <2>2, <2>3, <2>4 DEF Is
<1>7. ASSUME NEW f \in Families, UpdateFamily(w, f)
      PROVE  /\ Is(w, {"update"}, {f}) /\ inbound' = inbound
             /\ IF f = "v4" THEN Is(w, {"update"}, {"v6"})' /\ task'[w].v = task[w].v
                ELSE task'[w] = NoTask
             /\ inbound # task[w].v => "late" \in blame'
  BY <1>2, <1>3, <1>7 DEF UpdateFamily, At, Is, BecauseIf
<1>8. QED
  BY <1>4, <1>5, <1>6, <1>7

\* What a scan reads and refreshes.
LEMMA ScanSteps ==
    ASSUME NodesTyped, NEW w \in Tasks
    PROVE  /\ SyncInbounds(w) =>
                 /\ Is(w, {"sync"}, {"inbounds"}) /\ UNCHANGED <<inbound, node>>
                 /\ IF inbound = Gone THEN task'[w] = Refreshing /\ blame' = blame
                    ELSE Is(w, {"sync"}, {"nodes"})' /\ blame' = blame \ {"unscanned"}
           /\ SyncNodes(w) =>
                 /\ Is(w, {"sync"}, {"nodes"}) /\ UNCHANGED <<inbound, node, blame>>
                 /\ Is(w, {"sync"}, {"match"})'
           /\ RefreshHosts(w) =>
                 /\ Is(w, {"sync"}, {"refresh"}) /\ inbound' = inbound
                 /\ task'[w] = NoTask \/ (Is(w, {"sync"}, {"origs"})' /\ "origV4" \in blame')
                 /\ \A n \in BoundIds : node'[n] = IF node[n].family = "v4" /\ ~Relayed(node[n])
                                                 THEN [node[n] EXCEPT !.host = "own"] ELSE node[n]
           /\ RefreshOrig(w) =>
                 /\ Is(w, {"sync"}, {"origs"}) /\ UNCHANGED <<inbound, blame>>
                 /\ task'[w] = NoTask \/ Is(w, {"sync"}, {"origs"})'
<1>1. task[w] \in TaskType /\ task \in [Tasks -> TaskType]
  BY DEF NodesTyped
<1>2. ASSUME SyncInbounds(w)
      PROVE  /\ Is(w, {"sync"}, {"inbounds"}) /\ UNCHANGED <<inbound, node>>
             /\ IF inbound = Gone THEN task'[w] = Refreshing /\ blame' = blame
                ELSE Is(w, {"sync"}, {"nodes"})' /\ blame' = blame \ {"unscanned"}
  BY <1>1, <1>2 DEF SyncInbounds, At, Is, TaskType
<1>3. ASSUME SyncNodes(w)
      PROVE  /\ Is(w, {"sync"}, {"nodes"}) /\ UNCHANGED <<inbound, node, blame>>
             /\ Is(w, {"sync"}, {"match"})'
  <2>1. PICK found, ids, families :
           task' = [task EXCEPT ![w].pc = "match", ![w].ids = ids, ![w].copy = found,
                      ![w].families = families]
    BY <1>3 DEF SyncNodes
  <2>2. task'[w].kind = task[w].kind /\ task'[w].pc = "match"
    BY <1>1, <2>1 DEF TaskType
  <2>3. QED
    BY <1>3, <2>2 DEF SyncNodes, At, Is
<1>4. ASSUME RefreshHosts(w)
      PROVE  /\ Is(w, {"sync"}, {"refresh"}) /\ inbound' = inbound
             /\ task'[w] = NoTask \/ (Is(w, {"sync"}, {"origs"})' /\ "origV4" \in blame')
             /\ \A n \in BoundIds : node'[n] = IF node[n].family = "v4" /\ ~Relayed(node[n])
                                             THEN [node[n] EXCEPT !.host = "own"] ELSE node[n]
  <2>1. PICK others :
           /\ task' = [task EXCEPT ![w] = IF others = {} THEN NoTask
                                          ELSE [@ EXCEPT !.pc = "origs", !.ids = others]]
           /\ BecauseIf(others # {}, "origV4")
    BY <1>4 DEF RefreshHosts
  <2>2. task'[w] = NoTask \/ (Is(w, {"sync"}, {"origs"})' /\ "origV4" \in blame')
    <3>1. CASE others = {}
      <4>1. task' = [task EXCEPT ![w] = NoTask]
        BY <2>1, <3>1
      <4>2. QED
        BY <1>1, <4>1
    <3>2. CASE others # {}
      <4>1. task'[w].kind = task[w].kind /\ task'[w].pc = "origs"
        BY <1>1, <2>1, <3>2 DEF TaskType
      <4>2. task[w].kind = "sync" /\ "origV4" \in blame'
        BY <1>4, <2>1, <3>2 DEF RefreshHosts, At, BecauseIf
      <4>3. QED
        BY <4>1, <4>2 DEF Is
    <3>3. QED
      BY <3>1, <3>2
  <2>3. \A n \in BoundIds : node'[n] = IF node[n].family = "v4" /\ ~Relayed(node[n])
                                    THEN [node[n] EXCEPT !.host = "own"] ELSE node[n]
    BY <1>4 DEF RefreshHosts, BoundIds, RowsOf
  <2>4. QED
    BY <1>4, <2>2, <2>3 DEF RefreshHosts, At, Is
<1>5. ASSUME RefreshOrig(w)
      PROVE  /\ Is(w, {"sync"}, {"origs"}) /\ UNCHANGED <<inbound, blame>>
             /\ task'[w] = NoTask \/ Is(w, {"sync"}, {"origs"})'
  <2>1. PICK n \in task[w].ids :
           task' = [task EXCEPT ![w] = IF task[w].ids = {n} THEN NoTask
                                      ELSE [@ EXCEPT !.ids = task[w].ids \ {n}]]
    BY <1>5 DEF RefreshOrig
  <2>2. QED
    BY <1>1, <1>5, <2>1 DEF TaskType, RefreshOrig, At, Is
<1>6. QED
  BY <1>2, <1>3, <1>4, <1>5

\* What a deletion looks for and calls, and a row that is rewritten or edited.
LEMMA NodeSteps ==
    ASSUME NodesTyped, NEW w \in Tasks
    PROVE  /\ CheckSiblings(w) =>
                 /\ Is(w, Deletions, {"check"}) /\ UNCHANGED <<inbound, node>>
                 /\ task'[w].kind = task[w].kind /\ task'[w].ids = task[w].ids
                 /\ task'[w].pc = IF Siblings(w) = {} THEN "call" ELSE "drop"
                 /\ /\ Siblings(w) # {}
                    /\ \/ Siblings(w) \subseteq UNION {DeletedBy(x) : x \in Others(w)}
                       \/ \E x \in Others(w) : task[x].kind = "remove"
                    => "siblings" \in blame'
           /\ DeleteInbound(w) =>
                 /\ Is(w, Deletions, {"call"}) /\ inbound' = Gone /\ node' = node
                 /\ task'[w].kind = task[w].kind /\ task'[w].ids = task[w].ids
                 /\ task'[w].pc = "drop"
                 /\ Busy(w, {"update"}, {"call"}) => "crossed" \in blame'
           /\ DeleteInboundFails(w) =>
                 /\ Is(w, Deletions, {"call"}) /\ UNCHANGED <<inbound, node>>
                 /\ task'[w].kind = task[w].kind /\ task'[w].pc = "drop"
                 /\ "lost" \in blame'
           /\ RewriteRelay(w) =>
                 /\ Is(w, {"update"}, {"rewrite"}) /\ inbound' = inbound
                 /\ \/ Is(w, {"update"}, {"rewrite", "v4"})' /\ task'[w].ids \subseteq task[w].ids
                    \/ task'[w] = NoTask
           /\ WriteCopy(w) => /\ Is(w, Edits, {"write"}) /\ inbound' = inbound
                              /\ task'[w] = NoTask
<1>1. task[w] \in TaskType /\ task \in [Tasks -> TaskType]
  BY DEF NodesTyped
<1>2. \A pc : Moves(w, pc) => task'[w].kind = task[w].kind /\ task'[w].pc = pc
                              /\ task'[w].ids = task[w].ids
  BY <1>1 DEF Moves, TaskType
<1>3. ASSUME CheckSiblings(w)
      PROVE  /\ Is(w, Deletions, {"check"}) /\ UNCHANGED <<inbound, node>>
             /\ task'[w].kind = task[w].kind /\ task'[w].ids = task[w].ids
             /\ task'[w].pc = IF Siblings(w) = {} THEN "call" ELSE "drop"
             /\ /\ Siblings(w) # {}
                /\ \/ Siblings(w) \subseteq UNION {DeletedBy(x) : x \in Others(w)}
                   \/ \E x \in Others(w) : task[x].kind = "remove"
                => "siblings" \in blame'
  BY <1>2, <1>3 DEF CheckSiblings, Deleting, Is, BecauseIf
<1>4. ASSUME DeleteInbound(w)
      PROVE  /\ Is(w, Deletions, {"call"}) /\ inbound' = Gone /\ node' = node
             /\ task'[w].kind = task[w].kind /\ task'[w].ids = task[w].ids
             /\ task'[w].pc = "drop"
             /\ Busy(w, {"update"}, {"call"}) => "crossed" \in blame'
  BY <1>2, <1>4 DEF DeleteInbound, Deleting, Is, BecauseIf
<1>5. ASSUME DeleteInboundFails(w)
      PROVE  /\ Is(w, Deletions, {"call"}) /\ UNCHANGED <<inbound, node>>
             /\ task'[w].kind = task[w].kind /\ task'[w].pc = "drop"
             /\ "lost" \in blame'
  BY <1>2, <1>5 DEF DeleteInboundFails, Deleting, Is, Because
<1>6. ASSUME RewriteRelay(w)
      PROVE  /\ Is(w, {"update"}, {"rewrite"}) /\ inbound' = inbound
             /\ \/ Is(w, {"update"}, {"rewrite", "v4"})' /\ task'[w].ids \subseteq task[w].ids
                \/ task'[w] = NoTask
  <2>1. PICK n \in task[w].ids :
           LET some == node[n].kind # "none" \/ task[w].families # {}
               rest == task[w].ids \ {n}
           IN  task' = [task EXCEPT ![w] =
                  IF rest # {}
                  THEN [task[w] EXCEPT !.ids = rest,
                                       !.copy = [i \in rest |-> task[w].copy[i]],
                                       !.families = IF some THEN Families ELSE {}]
                  ELSE IF some THEN NoTask
                  ELSE [NoTask EXCEPT !.kind = "update", !.pc = "v4", !.v = task[w].v]]
    BY <1>6, RewriteStep
  <2> DEFINE last == [NoTask EXCEPT !.kind = "update", !.pc = "v4", !.v = task[w].v]
  <2>2. last.kind = "update" /\ last.pc = "v4" /\ last.ids = {}
    BY DEF NoTask
  <2>3. \/ task'[w] = last \/ task'[w] = NoTask
        \/ /\ task'[w].kind = task[w].kind /\ task'[w].pc = task[w].pc
           /\ task'[w].ids = task[w].ids \ {n}
    BY <1>1, <2>1 DEF TaskType
  <2> HIDE DEF last
  <2>4. Is(w, {"update"}, {"rewrite"}) /\ inbound' = inbound
    BY <1>6 DEF RewriteRelay, At, Is
  <2>5. QED
    BY <2>2, <2>3, <2>4 DEF Is
<1>7. ASSUME WriteCopy(w)
      PROVE  Is(w, Edits, {"write"}) /\ inbound' = inbound /\ task'[w] = NoTask
  BY <1>1, <1>7 DEF WriteCopy, Is, Finishes
<1>8. QED
  BY <1>3, <1>4, <1>5, <1>6, <1>7

-----------------------------------------------------------------------------
(* Each part of the invariant is kept by every step *)

\* A bound row stays one or goes, whoever moves.
LEMMA KindsAlways ==
    ASSUME NodesTyped, KindInv, "copied" \notin blame', NEW w \in Tasks, Works(w)
    PROVE  KindsStay
<1>1. CASE Quiet(w)
  BY <1>1, QuietRows DEF KindsStay
<1>2. CASE Claim(w)
  BY <1>2, ClaimStep DEF KindsStay
<1>3. CASE Create(w)
  BY <1>3, CreateStep DEF KindsStay
<1>4. CASE SyncSkips(w)
  <2>1. Tagged("bound") = "bound" /\ Tagged("none") = "none"
    BY DEF Tagged
  <2>2. QED
    BY <1>4, <2>1, SkipStep DEF KindsStay
<1>5. CASE HandleRemoved(w) \/ DropAll(w)
  BY <1>5, AllGo DEF KindsStay
<1>6. CASE DropNode(w)
  <2>1. NoNode.kind = "none"
    BY DEF NoNode
  <2>2. QED
    BY <1>6, <2>1, DropStep DEF KindsStay, NodesTyped
<1>7. QED
  BY <1>1, <1>2, <1>3, <1>4, <1>5, <1>6 DEF Works

\* What a task remembers as bound was that when it looked.
LEMMA KindKept ==
    ASSUME NodesInv, NEW w \in Tasks, Works(w)
    PROVE  KindInv'
<1> SUFFICES ASSUME "copied" \notin blame' PROVE KindInv'
  BY DEF KindInv
<1>1. /\ NodesTyped /\ KindInv /\ "copied" \notin blame
      /\ \A x \in Tasks : x # w => task'[x] = task[x]
  BY OneMoves DEF NodesInv
<1>2. KindsStay
  BY <1>1, KindsAlways
<1>3. \A x \in Tasks : task[x].ids \subseteq Ids
  BY <1>1 DEF NodesTyped, TaskType
<1>4. BoundIds \subseteq Ids /\ \A n \in BoundIds : node[n].kind = "bound"
  BY DEF BoundIds, RowsOf
<1> DEFINE Holds(x) == Is(x, {"update"}, {"rewrite"}) \/ Is(x, {"add"}, {"create"})
           OldIds == Holds(w) /\ task'[w].ids \subseteq task[w].ids
           Good == \A n \in task'[w].ids : node'[n].kind \in {"bound", "none"}
<1>5. ~Holds(w)' \/ OldIds \/ Good
  <2>1. /\ NoTask.kind = "idle" /\ Refreshing.kind = "sync"
    BY TasksAreTasks
  <2>2. CASE UpdateRemoves(w) \/ AgentAdds(w) \/ AgentRemoves(w) \/ CallFails(w)
    BY <1>1, <2>1, <2>2, CallSteps DEF Is
  <2>3. CASE Match(w) \/ \E f \in Families : UpdateFamily(w, f)
    BY <1>1, <2>1, <2>3, ListenerSteps DEF Is, Families
  <2>4. CASE List(w)
    BY <1>1, <1>4, <2>1, <2>4, ListenerSteps DEF Is
  <2>5. CASE ListRelays(w)
    <3>1. RelaysToWrite(w) \subseteq BoundIds
      BY DEF RelaysToWrite
    <3>2. QED
      BY <1>1, <1>4, <2>5, <3>1, ListenerSteps DEF Is
  <2>6. CASE RewriteRelay(w)
    BY <1>1, <2>1, <2>6, NodeSteps DEF Is
  <2>7. CASE SyncInbounds(w) \/ SyncNodes(w) \/ RefreshHosts(w) \/ RefreshOrig(w)
    BY <1>1, <2>1, <2>7, ScanSteps DEF Is
  <2>8. CASE CheckSiblings(w) \/ DeleteInbound(w) \/ DeleteInboundFails(w) \/ WriteCopy(w)
    BY <1>1, <2>1, <2>8, NodeSteps DEF Is, Deletions
  <2>9. CASE Claim(w)
    BY <1>1, <2>1, <2>9, ClaimStep DEF Is
  <2>10. CASE Create(w)
    <3>1. PICK n \in Ids :
             /\ node'[n].kind = "bound"
             /\ \/ task'[w] \in {NoTask, Refreshing}
                \/ /\ task[w].kind = "add" /\ task[w].pc = "create"
                   /\ task'[w].ids = task[w].ids \cup {n}
      BY <1>1, <2>10, CreateStep
    <3>2. \A m \in task[w].ids : Holds(w) => node[m].kind \in {"bound", "none"}
      BY <1>1 DEF KindInv
    <3>3. QED
      BY <1>2, <1>3, <2>1, <3>1, <3>2 DEF Is, KindsStay
  <2>11. CASE SyncSkips(w)
    BY <1>1, <2>1, <2>11, SkipStep DEF Is
  <2>12. CASE HandleRemoved(w) \/ DropAll(w)
    BY <1>1, <2>1, <2>12, AllGo DEF Is
  <2>13. CASE DropNode(w)
    BY <1>1, <2>1, <2>13, DropStep DEF Is
  <2>14. QED
    BY <2>2, <2>3, <2>4, <2>5, <2>6, <2>7, <2>8, <2>9, <2>10, <2>11, <2>12, <2>13
       DEF Works, Quiet
<1>6. ASSUME NEW x \in Tasks, Holds(x)', NEW n \in task'[x].ids
      PROVE  node'[n].kind \in {"bound", "none"}
  <2>1. CASE x = w /\ Good
    BY <1>6, <2>1
  <2>2. CASE x # w \/ OldIds
    <3>1. Holds(x) /\ n \in task[x].ids
      BY <1>1, <1>6, <2>2 DEF Is
    <3>2. QED
      BY <1>1, <1>2, <1>3, <3>1 DEF KindInv, KindsStay
  <2>3. QED
    BY <1>5, <1>6, <2>1, <2>2
<1>7. QED
  BY <1>6 DEF KindInv

\* An add comes to create nodes by listing them, and goes on creating.
LEMMA CreatesAfterListing ==
    ASSUME NodesTyped, NEW w \in Tasks, Works(w), Is(w, {"add"}, {"create"})'
    PROVE  List(w) \/ Create(w)
<1>1. NoTask.kind = "idle" /\ Refreshing.kind = "sync"
  BY TasksAreTasks
<1>2. ~(UpdateRemoves(w) \/ AgentAdds(w) \/ AgentRemoves(w) \/ CallFails(w))
  BY <1>1, CallSteps DEF Is
<1>3. ~(Match(w) \/ ListRelays(w) \/ \E f \in Families : UpdateFamily(w, f))
  BY <1>1, ListenerSteps DEF Is
<1>4. ~(SyncInbounds(w) \/ SyncNodes(w) \/ RefreshHosts(w) \/ RefreshOrig(w))
  BY <1>1, ScanSteps DEF Is
<1>5. ~(CheckSiblings(w) \/ DeleteInbound(w) \/ DeleteInboundFails(w) \/ RewriteRelay(w)
        \/ WriteCopy(w))
  BY <1>1, NodeSteps DEF Is
<1>6. ~(Claim(w) \/ SyncSkips(w))
  BY <1>1, ClaimStep, SkipStep DEF Is
<1>7. ~(HandleRemoved(w) \/ DropAll(w) \/ DropNode(w))
  BY <1>1, AllGo, DropStep DEF Is
<1>8. QED
  BY <1>2, <1>3, <1>4, <1>5, <1>6, <1>7 DEF Works, Quiet

\* Whatever an add still has to create is of a family that has no node.
LEMMA FamilyKept ==
    ASSUME NodesInv, NEW w \in Tasks, Works(w)
    PROVE  FamilyInv'
<1> SUFFICES ASSUME Clear(FamilyReasons)' PROVE FamilyInv'
  BY DEF FamilyInv
<1>1. /\ NodesTyped /\ KindInv /\ "copied" \notin blame' /\ Clear(FamilyReasons)
      /\ \A x \in Tasks : x # w => task'[x] = task[x]
      /\ blame' \cap {"claimed", "raced", "hidden", "copied"} = {}
  BY OneMoves DEF NodesInv, Clear, FamilyReasons
<1>2. /\ Distinct
      /\ \A x \in Tasks : Is(x, {"add"}, {"create"}) =>
            \A n \in task[x].ids \cap BoundIds : node[n].family \notin task[x].families
  BY <1>1 DEF NodesInv, FamilyInv
<1>3. /\ BoundIds \subseteq Ids /\ \A n \in Ids : n \in BoundIds <=> node[n].kind = "bound"
      /\ BoundIds' \subseteq Ids /\ \A n \in Ids : n \in BoundIds' <=> node'[n].kind = "bound"
  BY DEF BoundIds, RowsOf
<1>4. \A x \in Tasks : task[x].ids \subseteq Ids
  BY <1>1 DEF NodesTyped, TaskType
\* No row is new: it is enough to look at what the task does.
<1>5. ASSUME BoundIds' \subseteq BoundIds,
             \A n \in BoundIds' : node'[n].family = node[n].family,
             Is(w, {"add"}, {"create"})' =>
                \A n \in task'[w].ids \cap BoundIds' : node'[n].family \notin task'[w].families
      PROVE  FamilyInv'
  <2>1. Distinct'
    BY <1>2, <1>5 DEF Distinct
  <2>2. ASSUME NEW x \in Tasks, x # w, Is(x, {"add"}, {"create"})'
        PROVE  \A n \in task'[x].ids \cap BoundIds' : node'[n].family \notin task'[x].families
    <3>1. task'[x] = task[x] /\ Is(x, {"add"}, {"create"})
      BY <1>1, <2>2 DEF Is
    <3>2. QED
      BY <1>2, <1>5, <3>1
  <2>3. QED
    BY <1>5, <2>1, <2>2 DEF FamilyInv
<1>6. CASE List(w)
  <2>1. RowsStay
    BY <1>1, <1>6, QuietRows DEF Quiet
  <2>2. \A n \in BoundIds : node[n].host = OwnHost(node[n].family) /\ ~task[w].relay
    BY <1>1, <1>6, ListenerSteps
  <2>3. \A n \in BoundIds : node[n].family \notin ToCreate(w)
    BY <2>2 DEF ToCreate, ExistsAt, HostOf
  <2>4. node' = node /\ (Is(w, {"add"}, {"create"})' => task'[w].families = ToCreate(w))
    <3>1. NoTask.kind = "idle"
      BY TasksAreTasks
    <3>2. QED
      BY <1>1, <1>6, <3>1, ListenerSteps DEF Is
  <2>5. QED
    BY <1>5, <2>1, <2>3, <2>4 DEF RowsStay
<1>7. CASE Quiet(w) /\ ~List(w)
  <2>1. RowsStay
    BY <1>1, <1>7, QuietRows
  <2>2. ~Create(w) => ~Is(w, {"add"}, {"create"})'
    BY <1>1, <1>7, CreatesAfterListing
  <2>3. CASE ~Create(w)
    BY <1>5, <2>1, <2>2, <2>3 DEF RowsStay
  <2>4. CASE Create(w)
    BY <1>1, <1>3, <2>1, <2>4, CreateStep DEF RowsStay
  <2>5. QED
    BY <2>3, <2>4
<1>8. CASE Claim(w)
  BY <1>1, <1>8, ClaimStep
<1>9. CASE Create(w)
  <2>1. /\ task[w].kind \in {"add", "sync"} /\ task[w].pc = "create"
        /\ BoundIds \subseteq task[w].ids
    BY <1>1, <1>9, CreateStep
  <2>2. PICK n \in Ids, f \in task[w].families :
           /\ node[n].kind = "none" /\ \A x \in Tasks : n \notin task[x].ids
           /\ \A m \in Ids : m # n => node'[m] = node[m]
           /\ node'[n].kind = "bound" /\ node'[n].family = f
           /\ \/ task'[w] \in {NoTask, Refreshing}
              \/ /\ task'[w].kind = "add" /\ task'[w].pc = "create"
                 /\ task[w].kind = "add"
                 /\ task'[w].families = task[w].families \ {f}
                 /\ task'[w].ids = task[w].ids \cup {n}
    BY <1>1, <1>9, CreateStep
  <2>3. BoundIds' = BoundIds \cup {n} /\ n \notin BoundIds
    BY <1>3, <2>2
  <2>4. \A m \in BoundIds : m # n /\ node'[m] = node[m] /\ node[m].family \notin task[w].families
    <3>1. CASE task[w].kind = "add"
      BY <1>2, <1>3, <2>1, <2>2, <2>3, <3>1 DEF Is
    <3>2. CASE task[w].kind = "sync"
      <4>1. task[w].ids = {}
        BY <1>1, <2>1, <2>2, <3>2 DEF NodesTyped, TaskOK
      <4>2. QED
        BY <2>1, <4>1
    <3>3. QED
      BY <2>1, <3>1, <3>2
  <2>5. Distinct'
    BY <1>2, <2>2, <2>3, <2>4 DEF Distinct
  <2>6. ASSUME NEW x \in Tasks, Is(x, {"add"}, {"create"})', NEW m \in task'[x].ids \cap BoundIds'
        PROVE  node'[m].family \notin task'[x].families
    <3>1. CASE x # w
      <4>1. task'[x] = task[x] /\ Is(x, {"add"}, {"create"})
        BY <1>1, <2>6, <3>1 DEF Is
      <4>2. m # n /\ m \in BoundIds
        BY <2>2, <2>3, <2>6, <4>1
      <4>3. QED
        BY <1>2, <2>4, <2>6, <4>1, <4>2
    <3>2. CASE x = w
      <4>1. NoTask.kind = "idle" /\ Refreshing.kind = "sync"
        BY TasksAreTasks
      <4>2. task'[w].families = task[w].families \ {f}
        BY <2>2, <2>6, <3>2, <4>1 DEF Is
      <4>3. QED
        BY <2>2, <2>3, <2>4, <2>6, <3>2, <4>2
    <3>3. QED
      BY <3>1, <3>2
  <2>7. QED
    BY <2>5, <2>6 DEF FamilyInv
<1>10. CASE SyncSkips(w)
  <2>1. PICK found \in SUBSET Ids :
           /\ \A n, m \in found : n = m
           /\ \A n \in Ids \ found : node'[n] = node[n]
           /\ \A n \in found : node'[n].kind = Tagged(node[n].kind)
           /\ \A n \in BoundIds : node'[n] = node[n]
           /\ (\E n \in found : node[n].kind = "untagged") => BoundIds = {}
    BY <1>1, <1>10, SkipStep
  <2>2. ~Is(w, {"add"}, {"create"})'
    <3>1. Refreshing.kind = "sync"
      BY TasksAreTasks
    <3>2. QED
      BY <1>1, <1>10, <3>1, SkipStep DEF Is
  <2>3. \A k : Tagged(k) = "bound" => k \in {"untagged", "bound"}
    BY DEF Tagged
  <2>4. CASE \A n \in found : node[n].kind # "untagged"
    <3>1. BoundIds' \subseteq BoundIds
      BY <1>3, <2>1, <2>3, <2>4
    <3>2. QED
      BY <1>5, <2>1, <2>2, <3>1
  <2>5. CASE \E n \in found : node[n].kind = "untagged"
    <3>1. PICK n \in found : node[n].kind = "untagged"
      BY <2>5
    <3>2. BoundIds = {} /\ BoundIds' \subseteq {n}
      BY <1>3, <2>1, <3>1
    <3>3. Distinct'
      BY <3>2 DEF Distinct
    <3>4. ASSUME NEW x \in Tasks, Is(x, {"add"}, {"create"})'
          PROVE  task'[x].ids \cap BoundIds' = {}
      <4>1. task'[x] = task[x] /\ Is(x, {"add"}, {"create"})
        BY <1>1, <2>2, <3>4 DEF Is
      <4>2. \A m \in task[x].ids : node[m].kind \in {"bound", "none"}
        BY <1>1, <4>1 DEF KindInv, Clear, FamilyReasons
      <4>3. QED
        BY <3>1, <3>2, <4>1, <4>2
    <3>5. QED
      BY <3>3, <3>4 DEF FamilyInv
  <2>6. QED
    BY <2>4, <2>5
<1>11. CASE HandleRemoved(w) \/ DropAll(w)
  <2>1. BoundIds' = {}
    BY <1>1, <1>11, AllGo
  <2>2. QED
    BY <2>1 DEF FamilyInv, Distinct
<1>12. CASE DropNode(w)
  <2>1. BoundIds' \subseteq BoundIds /\ \A m \in BoundIds' : node'[m] = node[m]
    BY <1>1, <1>12, DropStep
  <2>2. ~Is(w, {"add"}, {"create"})'
    <3>1. NoTask.kind = "idle"
      BY TasksAreTasks
    <3>2. QED
      BY <1>1, <1>12, <3>1, DropStep DEF Is
  <2>3. QED
    BY <1>5, <2>1, <2>2
<1>13. QED
  BY <1>6, <1>7, <1>8, <1>9, <1>10, <1>11, <1>12 DEF Works

\* Deletions take the inbound with its last node, and only then.
LEMMA DeletionKept ==
    ASSUME NodesInv, NEW w \in Tasks, Works(w)
    PROVE  DeletionInv'
<1> SUFFICES ASSUME Clear(AgentReasons)' PROVE TakesAll' /\ RemovedIsGone' /\ OneIsLeft'
  BY DEF DeletionInv
<1>1. /\ NodesTyped /\ KindInv /\ Clear(AgentReasons)
      /\ \A x \in Tasks : x # w => task'[x] = task[x]
      /\ blame' \cap {"late", "lost", "readded", "siblings", "vanished", "crossed", "outlived",
                     "copied", "untagged", "tagged"} = {}
  BY OneMoves DEF NodesInv, Clear, AgentReasons
<1>2. TakesAll /\ RemovedIsGone /\ OneIsLeft
  BY <1>1 DEF NodesInv, DeletionInv
<1>3. \A x \in Tasks : \A kinds, pcs : x # w => (Is(x, kinds, pcs)' <=> Is(x, kinds, pcs))
  BY <1>1 DEF Is
<1>4. NoTask.kind = "idle" /\ Refreshing.kind = "sync"
  BY TasksAreTasks
<1>5. Quiet(w) => BoundIds' = BoundIds
  BY <1>1, QuietRows DEF RowsStay
<1> DEFINE Elsewhere == /\ ~Is(w, Deletions, {"call", "drop"})' /\ ~Is(w, {"clear"}, {"check"})'
                        /\ ~Is(w, {"remove"}, {"removed"})'
\* A task that neither deletes nor removes, nor brings an inbound back.
<1>6. ASSUME BoundIds' = BoundIds, inbound' \in {inbound, Gone}, Elsewhere,
             ~Is(w, {"update"}, {"call"})'
      PROVE  TakesAll' /\ RemovedIsGone' /\ OneIsLeft'
  <2>1. UpdateCalls' => UpdateCalls
    BY <1>3, <1>6 DEF UpdateCalls
  <2>2. TakesAll'
    BY <1>1, <1>2, <1>3, <1>6 DEF TakesAll, Is
  <2>3. RemovedIsGone'
    BY <1>2, <1>3, <1>6, <2>1 DEF RemovedIsGone, Is
  <2>4. OneIsLeft'
    <3>1. \A x \in Tasks : Dropping(x)' => x # w /\ Dropping(x)
      <4>1. ~Dropping(w)'
        BY <1>6 DEF Dropping, Is
      <4>2. QED
        BY <1>3, <4>1 DEF Dropping
    <3>2. \A x \in Tasks : Is(x, {"clear"}, {"drop"})' => Is(x, {"clear"}, {"drop"})
      BY <1>3, <1>6 DEF Is, Deletions
    <3>3. QED
      BY <1>1, <1>2, <1>6, <2>1, <3>1, <3>2 DEF OneIsLeft
  <2>5. QED
    BY <2>2, <2>3, <2>4
\* One that finds nobody else deleting or removing may make nodes.
<1>7. ASSUME ~MidDeletion(w), Elsewhere, ~Is(w, {"update"}, {"call"})', inbound' = inbound
      PROVE  TakesAll' /\ RemovedIsGone' /\ OneIsLeft'
  <2>1. UpdateCalls' => UpdateCalls
    BY <1>3, <1>7 DEF UpdateCalls
  <2>2. \A x \in Tasks : /\ ~Is(x, Deletions, {"call", "drop"})'
                         /\ ~Is(x, {"clear"}, {"check"})'
    <3>1. ASSUME NEW x \in Tasks, x # w
          PROVE  ~Is(x, Deletions, {"call", "drop"}) /\ ~Is(x, {"clear"}, {"check"})
      BY <1>7, <3>1 DEF MidDeletion, Busy, Others, Is, Deletions
    <3>2. QED
      BY <1>3, <1>7, <3>1
  <2>3. TakesAll' /\ OneIsLeft'
    BY <2>2 DEF TakesAll, OneIsLeft, Dropping, Is, Deletions
  <2>4. RemovedIsGone'
    BY <1>2, <1>3, <1>7, <2>1 DEF RemovedIsGone, Is
  <2>5. QED
    BY <2>3, <2>4
<1>8. CASE UpdateRemoves(w)
  <2>1. /\ Is(w, {"update"}, {"remove"}) /\ inbound' = Gone /\ node' = node
        /\ IF inbound # Gone THEN Is(w, {"update"}, {"call"})' ELSE task'[w] = NoTask
    BY <1>1, <1>8, CallSteps
  <2>2. Elsewhere
    BY <1>4, <2>1 DEF Is, Deletions
  <2>3. BoundIds' = BoundIds
    BY <1>5, <1>8 DEF Quiet
  <2>4. CASE inbound = Gone
    BY <1>4, <1>6, <2>1, <2>2, <2>3, <2>4 DEF Is
  <2>5. CASE inbound # Gone
    <3>1. TakesAll'
      BY <1>1, <1>2, <1>3, <2>2, <2>3 DEF TakesAll, Is
    <3>2. RemovedIsGone'
      BY <1>2, <1>3, <2>2, <2>5 DEF RemovedIsGone
    <3>3. OneIsLeft'
      BY <1>1, <1>2, <1>3, <2>2, <2>3, <2>5 DEF OneIsLeft, Dropping, Is, Deletions
    <3>4. QED
      BY <3>1, <3>2, <3>3
  <2>6. QED
    BY <2>4, <2>5
<1>9. CASE AgentAdds(w)
  <2>1. /\ Is(w, {"add", "update"}, {"call"})
        /\ Is(w, {"add"}, {"match"})' \/ Is(w, {"update"}, {"relays"})'
        /\ ~Busy(w, Deletions \cup {"remove"}, {"call", "check", "drop", "removed"})
    BY <1>1, <1>9, CallSteps DEF Is
  <2>2. Elsewhere
    BY <2>1 DEF Is, Deletions
  <2>3. ASSUME NEW x \in Tasks
        PROVE  /\ ~Is(x, Deletions, {"call", "drop"})' /\ ~Is(x, {"clear"}, {"check"})'
               /\ ~Is(x, {"remove"}, {"removed"})'
    <3>1. CASE x = w
      BY <2>2, <3>1
    <3>2. CASE x # w
      <4>1. ~(task[x].kind \in Deletions \cup {"remove"}
              /\ task[x].pc \in {"call", "check", "drop", "removed"})
        BY <2>1, <3>2 DEF Busy, Others, Deletions
      <4>2. QED
        BY <1>3, <3>2, <4>1 DEF Is, Deletions
    <3>3. QED
      BY <3>1, <3>2
  <2>4. QED
    BY <2>3 DEF TakesAll, RemovedIsGone, OneIsLeft, Dropping, Is, Deletions
<1>10. CASE AgentRemoves(w)
  <2>1. /\ Is(w, {"remove"}, {"call"}) /\ inbound' = Gone
        /\ Is(w, {"remove"}, {"removed"})' \/ task'[w] = NoTask
        /\ ~Busy(w, {"update"}, {"call"})
    BY <1>1, <1>10, CallSteps
  <2>2. ~Is(w, Deletions, {"call", "drop"})' /\ ~Is(w, {"clear"}, {"check"})'
        /\ ~Is(w, {"update"}, {"call"})'
    BY <1>4, <2>1 DEF Is, Deletions
  <2>3. ~UpdateCalls'
    <3>1. \A x \in Tasks : x # w => ~Is(x, {"update"}, {"call"})
      BY <2>1 DEF Busy, Others, Is
    <3>2. QED
      BY <1>3, <2>2, <3>1 DEF UpdateCalls
  <2>4. BoundIds' = BoundIds
    BY <1>5, <1>10 DEF Quiet
  <2>5. TakesAll'
    BY <1>1, <1>2, <1>3, <2>2, <2>4 DEF TakesAll, Is
  <2>6. QED
    BY <2>1, <2>3, <2>5 DEF RemovedIsGone, OneIsLeft
<1>11. CASE CallFails(w)
  <2>1. task'[w] = NoTask /\ inbound' = inbound
    BY <1>1, <1>11, CallSteps
  <2>2. QED
    BY <1>4, <1>5, <1>6, <1>11, <2>1 DEF Is, Deletions, Quiet
<1>12. CASE Match(w) \/ List(w) \/ ListRelays(w) \/ \E f \in Families : UpdateFamily(w, f)
  <2>1. inbound' = inbound
    BY <1>1, <1>12, ListenerSteps
  <2>2. task'[w].kind \in {"add", "sync", "update", "idle"} /\ task'[w].pc # "call"
    <3>1. NoTask.pc # "call"
      BY TasksAreTasks
    <3>2. QED
      BY <1>1, <1>4, <1>12, <3>1, ListenerSteps DEF Is, Families
  <2>3. QED
    BY <1>5, <1>6, <1>12, <2>1, <2>2 DEF Is, Deletions, Quiet
<1>13. CASE SyncInbounds(w) \/ SyncNodes(w) \/ RefreshHosts(w) \/ RefreshOrig(w)
  <2>1. inbound' = inbound
    BY <1>1, <1>13, ScanSteps
  <2>2. task'[w].kind \in {"sync", "idle"}
    BY <1>1, <1>4, <1>13, ScanSteps DEF Is
  <2>3. QED
    BY <1>5, <1>6, <1>13, <2>1, <2>2 DEF Is, Deletions, Quiet
<1>14. CASE RewriteRelay(w) \/ WriteCopy(w)
  <2>1. inbound' = inbound
    BY <1>1, <1>14, NodeSteps
  <2>2. task'[w].kind \in {"update", "idle"} /\ task'[w].pc # "call"
    <3>1. NoTask.pc # "call"
      BY TasksAreTasks
    <3>2. QED
      BY <1>1, <1>4, <1>14, <3>1, NodeSteps DEF Is
  <2>3. QED
    BY <1>5, <1>6, <1>14, <2>1, <2>2 DEF Is, Deletions, Quiet
<1>15. CASE Claim(w)
  <2>1. ~MidDeletion(w) /\ inbound' = inbound
    BY <1>1, <1>15, ClaimStep
  <2>2. task'[w].kind \in {"add", "sync", "idle"}
    BY <1>1, <1>4, <1>15, ClaimStep
  <2>3. QED
    BY <1>7, <2>1, <2>2 DEF Is, Deletions
<1>16. CASE Create(w)
  <2>1. ~MidDeletion(w) /\ inbound' = inbound
    BY <1>1, <1>16, CreateStep
  <2>2. task'[w].kind \in {"add", "sync", "idle"}
    BY <1>1, <1>4, <1>16, CreateStep
  <2>3. QED
    BY <1>7, <2>1, <2>2 DEF Is, Deletions
<1>17. CASE SyncSkips(w)
  <2>1. PICK found \in SUBSET Ids :
           /\ \A n \in Ids \ found : node'[n] = node[n]
           /\ \A n \in found : node'[n].kind = Tagged(node[n].kind)
           /\ \A n \in BoundIds : node'[n] = node[n]
           /\ (\E n \in found : node[n].kind = "untagged") => ~MidDeletion(w)
    BY <1>1, <1>17, SkipStep
  <2>2. inbound' = inbound /\ task'[w].kind = "sync"
    BY <1>1, <1>4, <1>17, SkipStep
  <2>3. CASE ~MidDeletion(w)
    BY <1>7, <2>2, <2>3 DEF Is, Deletions
  <2>4. CASE \A n \in found : node[n].kind # "untagged"
    <3>1. \A k : Tagged(k) = "bound" => k \in {"untagged", "bound"}
      BY DEF Tagged
    <3>2. BoundIds' = BoundIds
      BY <2>1, <2>4, <3>1 DEF BoundIds, RowsOf
    <3>3. QED
      BY <1>6, <2>2, <3>2 DEF Is, Deletions
  <2>5. QED
    BY <2>1, <2>3, <2>4
<1>18. CASE HandleRemoved(w) \/ DropAll(w)
  <2>1. BoundIds' = {} /\ task'[w] = NoTask /\ inbound' = inbound
    BY <1>1, <1>18, AllGo
  <2>2. UpdateCalls' => UpdateCalls
    BY <1>3, <1>4, <2>1 DEF UpdateCalls, Is
  <2>3. RemovedIsGone'
    BY <1>2, <1>3, <1>4, <2>1, <2>2 DEF RemovedIsGone, Is
  <2>4. QED
    BY <2>1, <2>3 DEF TakesAll, OneIsLeft
<1>19. CASE DropNode(w)
  <2>1. PICK n \in task[w].ids :
           /\ BoundIds' = BoundIds \ {n}
           /\ \/ task'[w] = NoTask
              \/ /\ task'[w].kind = "delete" /\ task'[w].pc = "drop"
                 /\ task'[w].ids = task[w].ids \ {n}
    BY <1>1, <1>19, DropStep
  <2>2. Is(w, {"delete"}, {"drop"}) /\ inbound' = inbound
    BY <1>1, <1>19, DropStep
  <2>3. ~Is(w, Deletions, {"call"})' /\ ~Is(w, {"clear"}, {"check", "drop"})'
        /\ ~Is(w, {"remove"}, {"removed"})' /\ ~Is(w, {"update"}, {"call"})'
    BY <1>4, <2>1 DEF Is, Deletions
  <2>4. UpdateCalls' => UpdateCalls
    BY <1>3, <2>3 DEF UpdateCalls
  <2>5. TakesAll'
    BY <1>1, <1>2, <1>3, <2>1, <2>3 DEF TakesAll, Is
  <2>6. RemovedIsGone'
    BY <1>2, <1>3, <2>2, <2>3, <2>4 DEF RemovedIsGone, Is
  <2>7. OneIsLeft'
    <3>1. SUFFICES ASSUME inbound # Gone \/ UpdateCalls PROVE OneIsLeft'
      BY <2>2, <2>4 DEF OneIsLeft
    <3>2. \A x \in Tasks : Is(x, {"clear"}, {"drop"})' => BoundIds' = {}
      <4>1. \A x \in Tasks : Is(x, {"clear"}, {"drop"})' => Is(x, {"clear"}, {"drop"})
        BY <1>3, <2>3 DEF Is
      <4>2. BoundIds = {} => BoundIds' = {}
        BY <2>1
      <4>3. QED
        BY <1>2, <3>1, <4>1, <4>2 DEF OneIsLeft
    <3>3. ASSUME BoundIds' # {}
          PROVE  \E m \in BoundIds' : \A x \in Tasks : Dropping(x)' => m \notin task'[x].ids
      <4>1. PICK m \in BoundIds : \A x \in Tasks : Dropping(x) => m \notin task[x].ids
        BY <1>2, <2>1, <3>1, <3>3 DEF OneIsLeft
      <4>2. m \notin task[w].ids
        BY <2>2, <4>1 DEF Dropping, Is, Deletions
      <4>3. m \in BoundIds'
        BY <2>1, <4>2
      <4>4. ASSUME NEW x \in Tasks, Dropping(x)' PROVE m \notin task'[x].ids
        <5>1. CASE x = w
          BY <1>4, <2>1, <4>2, <4>4, <5>1 DEF Dropping, Is, Deletions
        <5>2. CASE x # w
          BY <1>1, <1>3, <4>1, <4>4, <5>2 DEF Dropping
        <5>3. QED
          BY <5>1, <5>2
      <4>5. QED
        BY <4>3, <4>4
    <3>4. QED
      BY <3>2, <3>3 DEF OneIsLeft
  <2>8. QED
    BY <2>5, <2>6, <2>7
<1>20. CASE CheckSiblings(w)
  <2>1. /\ Is(w, Deletions, {"check"}) /\ UNCHANGED <<inbound, node>>
        /\ task'[w].kind = task[w].kind /\ task'[w].ids = task[w].ids
        /\ task'[w].pc = IF Siblings(w) = {} THEN "call" ELSE "drop"
    BY <1>1, <1>20, NodeSteps
  <2>2. BoundIds' = BoundIds
    BY <1>5, <1>20 DEF Quiet
  <2>3. ~Is(w, {"remove"}, {"removed"})' /\ ~Is(w, {"update"}, {"call"})'
        /\ ~Is(w, {"clear"}, {"check"})'
    BY <2>1 DEF Is, Deletions
  <2>4. UpdateCalls' => UpdateCalls
    BY <1>3, <2>3 DEF UpdateCalls
  <2>5. RemovedIsGone'
    BY <1>2, <1>3, <2>1, <2>3, <2>4 DEF RemovedIsGone, Is
  <2>6. TakesAll'
    <3>1. Is(w, Deletions, {"call"})' => BoundIds \subseteq task'[w].ids
      BY <2>1 DEF Is, Siblings
    <3>2. QED
      BY <1>1, <1>2, <1>3, <2>2, <2>3, <3>1 DEF TakesAll, Is
  <2>7. OneIsLeft'
    <3>1. SUFFICES ASSUME inbound # Gone \/ UpdateCalls PROVE OneIsLeft'
      BY <2>1, <2>4 DEF OneIsLeft
    <3>2. CASE Siblings(w) = {}
      <4>1. ~Dropping(w)' /\ ~Is(w, {"clear"}, {"drop"})'
        BY <2>1, <3>2 DEF Dropping, Is
      <4>2. QED
        BY <1>1, <1>2, <1>3, <2>2, <3>1, <4>1 DEF OneIsLeft, Dropping
    <3>3. CASE Siblings(w) # {}
      <4>1. ~(Siblings(w) \subseteq UNION {DeletedBy(x) : x \in Others(w)})
        BY <1>1, <1>20, <3>3, NodeSteps
      <4>2. PICK m \in Siblings(w) : \A x \in Others(w) : m \notin DeletedBy(x)
        BY <4>1
      <4>3. m \in BoundIds' /\ m \notin task'[w].ids
        BY <2>1, <2>2, <4>2 DEF Siblings
      <4>4. ASSUME NEW x \in Tasks, x # w, Dropping(x) PROVE m \notin task[x].ids
        BY <4>2, <4>4 DEF Others, DeletedBy, Dropping, Is, Deletions
      <4>5. \A x \in Tasks : Dropping(x)' => m \notin task'[x].ids
        BY <1>1, <1>3, <4>3, <4>4 DEF Dropping
      <4>6. ~Is(w, {"clear"}, {"drop"})'
        <5>1. ~Is(w, {"clear"}, {"check"})
          BY <1>2, <3>3 DEF TakesAll, Siblings
        <5>2. QED
          BY <2>1, <5>1 DEF Is
      <4>7. \A x \in Tasks : Is(x, {"clear"}, {"drop"})' => BoundIds' = {}
        BY <1>2, <1>3, <2>2, <3>1, <4>6 DEF OneIsLeft
      <4>8. QED
        BY <4>3, <4>5, <4>7 DEF OneIsLeft
    <3>4. QED
      BY <3>2, <3>3
  <2>8. QED
    BY <2>5, <2>6, <2>7
<1>21. CASE DeleteInbound(w)
  <2>1. /\ Is(w, Deletions, {"call"}) /\ inbound' = Gone
        /\ task'[w].kind = task[w].kind /\ task'[w].pc = "drop"
        /\ ~Busy(w, {"update"}, {"call"})
    BY <1>1, <1>21, NodeSteps
  <2>2. ~Is(w, Deletions, {"call"})' /\ ~Is(w, {"update"}, {"call"})'
        /\ ~Is(w, {"clear"}, {"check"})'
    BY <2>1 DEF Is, Deletions
  <2>3. ~UpdateCalls'
    <3>1. \A x \in Tasks : x # w => ~Is(x, {"update"}, {"call"})
      BY <2>1 DEF Busy, Others, Is
    <3>2. QED
      BY <1>3, <2>2, <3>1 DEF UpdateCalls
  <2>4. BoundIds' = BoundIds
    BY <1>5, <1>21 DEF Quiet
  <2>5. TakesAll'
    BY <1>1, <1>2, <1>3, <2>2, <2>4 DEF TakesAll, Is
  <2>6. QED
    BY <2>1, <2>3, <2>5 DEF RemovedIsGone, OneIsLeft
<1>22. CASE DeleteInboundFails(w)
  BY <1>1, <1>22, NodeSteps
<1>23. QED
  BY <1>8, <1>9, <1>10, <1>11, <1>12, <1>13, <1>14, <1>15, <1>16, <1>17, <1>18, <1>19, <1>20,
     <1>21, <1>22 DEF Works, Quiet

\* While panel and agent differ, somebody works on it.
LEMMA StepKept ==
    ASSUME NodesInv, NEW w \in Tasks, Works(w)
    PROVE  StepInv'
<1> SUFFICES ASSUME Clear(AgentReasons \cup {"unscanned"})' PROVE Served' /\ CallServed'
  BY DEF StepInv
<1>1. /\ NodesTyped /\ KindInv /\ Clear(AgentReasons)
      /\ \A x \in Tasks : x # w => task'[x] = task[x]
      /\ blame' \cap {"late", "lost", "readded", "siblings", "vanished", "crossed", "outlived",
                     "copied", "untagged", "tagged"} = {}
  BY OneMoves DEF NodesInv, Clear, AgentReasons
<1>2. TakesAll /\ RemovedIsGone /\ OneIsLeft
  BY <1>1 DEF NodesInv, DeletionInv
<1>3. \A x \in Tasks : \A kinds, pcs : x # w => (Is(x, kinds, pcs)' <=> Is(x, kinds, pcs))
  BY <1>1 DEF Is
<1>4. NoTask.kind = "idle" /\ Refreshing.kind = "sync" /\ Refreshing.pc = "refresh"
  BY TasksAreTasks
<1>5. Quiet(w) => BoundIds' = BoundIds
  BY <1>1, QuietRows DEF RowsStay
<1>6. CASE SyncInbounds(w) /\ inbound # Gone
  <2>1. Is(w, {"sync"}, {"nodes"})' /\ inbound' # Gone
    BY <1>1, <1>6, ScanSteps
  <2>2. Creating'
    BY <2>1 DEF Creating, Creates, Is
  <2>3. QED
    BY <2>1, <2>2 DEF Served, CallServed
<1>7. CASE ~(SyncInbounds(w) /\ inbound # Gone)
  <2>1. "unscanned" \notin blame
    <3>1. "unscanned" \notin blame'
      BY DEF Clear
    <3>2. CASE SyncInbounds(w)
      BY <1>1, <1>7, <3>1, <3>2, ScanSteps
    <3>3. CASE ~SyncInbounds(w)
      BY <1>1, <1>7, <3>1, <3>3, UnscannedStays
    <3>4. QED
      BY <3>2, <3>3
  <2>2. Served /\ CallServed
    BY <1>1, <2>1 DEF NodesInv, StepInv, Clear
  <2>3. ~Creates(w) \/ Creates(w)' => (Creating => Creating')
    <3>1. \A x \in Tasks : x # w /\ Creates(x) => Creates(x)'
      BY <1>3 DEF Creates
    <3>2. QED
      BY <3>1 DEF Creating
  <2>4. BoundIds' \subseteq BoundIds /\ (~Removes(w) \/ Removes(w)') => (Removing => Removing')
    <3>1. ASSUME NEW x \in Tasks, x # w, Removes(x), BoundIds' \subseteq BoundIds
          PROVE  Removes(x)'
      <4>1. task'[x] = task[x]
        BY <1>1, <3>1
      <4>2. QED
        BY <1>3, <3>1, <4>1 DEF Removes
    <3>2. QED
      BY <3>1 DEF Removing
  <2>5. ~Is(w, {"update"}, {"call"})' => (UpdateCalls' => UpdateCalls)
    BY <1>3 DEF UpdateCalls
  \* Nothing changes between panel and agent, and the task has no part in it.
  <2>6. ASSUME BoundIds' = BoundIds, inbound' = inbound, ~Is(w, {"update"}, {"call"})',
               ~Creates(w) \/ Creates(w)', ~Removes(w) \/ Removes(w)'
        PROVE  Served' /\ CallServed'
    BY <2>2, <2>3, <2>4, <2>5, <2>6 DEF Served, CallServed, InStep
  <2>7. CASE UpdateRemoves(w)
    <3>1. /\ Is(w, {"update"}, {"remove"}) /\ inbound' = Gone
          /\ IF inbound # Gone THEN Is(w, {"update"}, {"call"})' ELSE task'[w] = NoTask
      BY <1>1, <2>7, CallSteps
    <3>2. ~Creates(w) /\ ~Removes(w)
      BY <3>1 DEF Creates, Removes, Is
    <3>3. BoundIds' = BoundIds
      BY <1>5, <2>7 DEF Quiet
    <3>4. CASE inbound = Gone
      BY <1>4, <2>6, <3>1, <3>2, <3>3, <3>4 DEF Is
    <3>5. CASE inbound # Gone
      <4>1. Removing'
        BY <3>1, <3>5 DEF Removing, Removes
      <4>2. BoundIds # {} \/ Creating
        BY <2>2, <3>5 DEF Served, InStep
      <4>3. QED
        BY <2>3, <3>1, <3>2, <3>3, <4>1, <4>2 DEF Served, CallServed
    <3>6. QED
      BY <3>4, <3>5
  <2>8. CASE AgentAdds(w)
    <3>1. /\ Is(w, {"add", "update"}, {"call"}) /\ inbound' \in Versions
          /\ Is(w, {"add"}, {"call"}) => Is(w, {"add"}, {"match"})'
          /\ Is(w, {"update"}, {"call"}) => Is(w, {"update"}, {"relays"})'
      BY <1>1, <2>8, CallSteps
    <3>2. inbound' # Gone /\ ~Creates(w) /\ ~Is(w, {"update"}, {"call"})'
      BY <3>1, NodesAssumption DEF Creates, Is, Gone
    <3>3. BoundIds' = BoundIds
      BY <1>5, <2>8 DEF Quiet
    <3>4. BoundIds' # {} \/ Creating'
      <4>1. CASE Is(w, {"add"}, {"call"})
        BY <3>1, <4>1 DEF Creating, Creates, Is
      <4>2. CASE Is(w, {"update"}, {"call"})
        BY <2>2, <2>3, <3>2, <3>3, <4>2 DEF CallServed, UpdateCalls
      <4>3. QED
        BY <3>1, <4>1, <4>2 DEF Is
    <3>5. QED
      BY <3>2, <3>4 DEF Served, CallServed, InStep
  <2>9. CASE AgentRemoves(w)
    <3>1. /\ Is(w, {"remove"}, {"call"}) /\ inbound' = Gone
          /\ IF inbound # Gone THEN Is(w, {"remove"}, {"removed"})' ELSE task'[w] = NoTask
          /\ ~Busy(w, {"update"}, {"call"})
      BY <1>1, <2>9, CallSteps
    <3>2. ~Creates(w) /\ ~Removes(w)
      BY <3>1 DEF Creates, Removes, Is
    <3>3. ~UpdateCalls'
      <4>1. \A x \in Tasks : x # w => ~Is(x, {"update"}, {"call"})
        BY <3>1 DEF Busy, Others, Is
      <4>2. ~Is(w, {"update"}, {"call"})'
        BY <1>4, <3>1 DEF Is
      <4>3. QED
        BY <1>3, <4>1, <4>2 DEF UpdateCalls
    <3>4. BoundIds' = BoundIds
      BY <1>5, <2>9 DEF Quiet
    <3>5. CASE inbound = Gone
      BY <1>4, <2>6, <3>1, <3>2, <3>4, <3>5 DEF Is
    <3>6. CASE inbound # Gone
      BY <3>1, <3>3, <3>6 DEF Served, CallServed, Removing, Removes
    <3>7. QED
      BY <3>5, <3>6
  <2>10. CASE CallFails(w)
    <3>1. /\ task'[w] = NoTask /\ inbound' = inbound /\ ~Is(w, {"update"}, {"call"})
          /\ Is(w, {"add", "update", "remove"}, {"call", "remove"})
      BY <1>1, <2>10, CallSteps
    <3>2. ~Creates(w) /\ ~Removes(w) /\ ~Is(w, {"update"}, {"call"})'
      BY <1>4, <3>1 DEF Creates, Removes, Is
    <3>3. QED
      BY <1>5, <2>6, <2>10, <3>1, <3>2 DEF Quiet
  <2>11. CASE Match(w)
    <3>1. /\ Is(w, {"add", "sync"}, {"match"}) /\ inbound' = inbound
          /\ Is(w, {"add"}, {"match"}) => Is(w, {"add"}, {"list", "claim"})'
          /\ Is(w, {"sync"}, {"match"}) => Is(w, {"sync"}, {"create", "claim"})'
      BY <1>1, <2>11, ListenerSteps
    <3>2. Creates(w)' /\ ~Removes(w) /\ ~Is(w, {"update"}, {"call"})'
      BY <3>1 DEF Creates, Removes, Is
    <3>3. QED
      BY <1>5, <2>6, <2>11, <3>1, <3>2 DEF Quiet
  <2>12. CASE List(w)
    <3>1. /\ Is(w, {"add"}, {"list"}) /\ inbound' = inbound
          /\ task[w].families # {} /\ task[w].families \subseteq Families
          /\ IF ToCreate(w) = {} THEN task'[w] = NoTask ELSE Is(w, {"add"}, {"create"})'
          /\ RowsOf(node, "untagged") = {}
      BY <1>1, <2>12, ListenerSteps
    <3>2. ~Removes(w) /\ ~Is(w, {"update"}, {"call"})'
      BY <1>4, <3>1 DEF Removes, Is
    <3>3. BoundIds' = BoundIds
      BY <1>5, <2>12 DEF Quiet
    <3>4. CASE ToCreate(w) # {}
      <4>1. Creates(w)'
        BY <3>1, <3>4 DEF Creates, Is
      <4>2. QED
        BY <2>6, <3>1, <3>2, <3>3, <4>1
    <3>5. CASE ToCreate(w) = {}
      <4>1. PICK f \in task[w].families : ExistsAt(w, f)
        BY <3>1, <3>5 DEF ToCreate
      <4>2. BoundIds # {}
        BY <3>1, <4>1 DEF ExistsAt
      <4>3. QED
        BY <2>2, <2>4, <3>1, <3>2, <3>3, <4>2 DEF Served, CallServed, InStep
    <3>6. QED
      BY <3>4, <3>5
  <2>13. CASE ListRelays(w) \/ \E f \in Families : UpdateFamily(w, f)
    <3>1. /\ Is(w, {"update"}, {"relays", "v4", "v6"}) /\ inbound' = inbound
          /\ task'[w] = NoTask \/ Is(w, {"update"}, {"v4", "v6", "rewrite"})'
      BY <1>1, <2>13, ListenerSteps DEF Is, Families
    <3>2. ~Creates(w) /\ ~Removes(w) /\ ~Is(w, {"update"}, {"call"})'
      BY <1>4, <3>1 DEF Creates, Removes, Is
    <3>3. QED
      BY <1>5, <2>6, <2>13, <3>1, <3>2 DEF Quiet
  <2>14. CASE RewriteRelay(w) \/ WriteCopy(w)
    <3>1. /\ Is(w, {"update"} \cup Edits, {"rewrite", "write"}) /\ inbound' = inbound
          /\ task'[w] = NoTask \/ Is(w, {"update"}, {"v4", "rewrite"})'
      BY <1>1, <2>14, NodeSteps DEF Is
    <3>2. ~Creates(w) /\ ~Removes(w) /\ ~Is(w, {"update"}, {"call"})'
      BY <1>4, <3>1 DEF Creates, Removes, Is
    <3>3. QED
      BY <1>5, <2>6, <2>14, <3>1, <3>2 DEF Quiet
  <2>15. CASE SyncInbounds(w) \/ RefreshHosts(w) \/ RefreshOrig(w)
    <3>1. Is(w, {"sync"}, {"inbounds", "refresh", "origs"}) /\ inbound' = inbound
          /\ task'[w].kind \in {"sync", "idle"}
      BY <1>1, <1>4, <2>15, ScanSteps DEF Is
    <3>2. ~Creates(w) /\ ~Removes(w) /\ ~Is(w, {"update"}, {"call"})'
      BY <3>1 DEF Creates, Removes, Is
    <3>3. QED
      BY <1>5, <2>6, <2>15, <3>1, <3>2 DEF Quiet
  <2>16. CASE SyncNodes(w)
    <3>1. Is(w, {"sync"}, {"nodes"}) /\ Is(w, {"sync"}, {"match"})' /\ inbound' = inbound
      BY <1>1, <2>16, ScanSteps
    <3>2. Creates(w)' /\ ~Removes(w) /\ ~Is(w, {"update"}, {"call"})'
      BY <3>1 DEF Creates, Removes, Is
    <3>3. QED
      BY <1>5, <2>6, <2>16, <3>1, <3>2 DEF Quiet
  <2>17. CASE Claim(w)
    <3>1. /\ task[w].v \in Versions /\ inbound' = inbound /\ inbound = task[w].v
          /\ \E n \in Ids : node'[n].kind = "bound"
      BY <1>1, <2>17, ClaimStep
    <3>2. BoundIds' # {} /\ inbound' # Gone
      BY <3>1, NodesAssumption DEF BoundIds, RowsOf, Gone
    <3>3. QED
      BY <3>2 DEF Served, CallServed, InStep
  <2>18. CASE Create(w)
    <3>1. /\ task[w].v \in Versions /\ inbound' = inbound /\ inbound = task[w].v
          /\ \E n \in Ids : node'[n].kind = "bound"
      BY <1>1, <2>18, CreateStep
    <3>2. BoundIds' # {} /\ inbound' # Gone
      BY <3>1, NodesAssumption DEF BoundIds, RowsOf, Gone
    <3>3. QED
      BY <3>2 DEF Served, CallServed, InStep
  <2>19. CASE SyncSkips(w)
    <3>1. PICK found \in SUBSET Ids :
             /\ \A n \in Ids \ found : node'[n] = node[n]
             /\ \A n \in found : node'[n].kind = Tagged(node[n].kind)
             /\ \A n \in BoundIds : node'[n] = node[n]
             /\ BoundIds \cup found # {} /\ \A n \in found : node'[n].kind # "none"
             /\ (\E n \in found : node[n].kind = "untagged") => inbound = task[w].v
      BY <1>1, <2>19, SkipStep
    <3>2. /\ task'[w] = Refreshing /\ task[w].v \in Versions /\ inbound' = inbound
          /\ RowsOf(node, "tagged")' = {} /\ task[w].kind = "sync"
      BY <1>1, <2>19, SkipStep
    <3>3. ~Removes(w) /\ ~Is(w, {"update"}, {"call"})'
      BY <1>4, <3>2 DEF Removes, Is
    <3>4. BoundIds \subseteq BoundIds'
      BY <3>1 DEF BoundIds, RowsOf
    <3>5. BoundIds' # {}
      <4>1. CASE BoundIds # {}
        BY <3>4, <4>1
      <4>2. CASE BoundIds = {}
        <5>1. PICK n \in found : node'[n].kind # "none"
          BY <3>1, <4>2
        <5>2. n \in Ids /\ node'[n].kind = Tagged(node[n].kind) /\ node'[n].kind # "tagged"
          BY <3>1, <3>2, <5>1 DEF RowsOf
        <5>3. node[n].kind \in {"none", "external", "untagged", "tagged", "bound"}
          BY <1>1, <5>2 DEF NodesTyped, Row
        <5>4. node'[n].kind = "bound"
          BY <5>1, <5>2, <5>3 DEF Tagged
        <5>5. QED
          BY <5>2, <5>4 DEF BoundIds, RowsOf
      <4>3. QED
        BY <4>1, <4>2
    <3>6. CASE inbound # Gone
      BY <3>2, <3>5, <3>6 DEF Served, CallServed, InStep
    <3>7. CASE inbound = Gone
      <4>1. \A n \in found : node[n].kind # "untagged"
        BY <3>1, <3>2, <3>7, NodesAssumption DEF Gone
      <4>2. \A k : Tagged(k) = "bound" => k \in {"untagged", "bound"}
        BY DEF Tagged
      <4>3. BoundIds' = BoundIds
        BY <3>1, <4>1, <4>2 DEF BoundIds, RowsOf
      <4>4. QED
        BY <2>2, <2>4, <3>2, <3>3, <3>5, <3>7, <4>3 DEF Served, CallServed, InStep
    <3>8. QED
      BY <3>6, <3>7
  <2>20. CASE HandleRemoved(w)
    <3>1. BoundIds' = {} /\ task'[w] = NoTask /\ inbound' = inbound
      BY <1>1, <2>20, AllGo
    <3>2. Is(w, {"remove"}, {"removed"})
      BY <2>20 DEF HandleRemoved, At, Is
    <3>3. inbound = Gone /\ ~UpdateCalls
      BY <1>2, <3>2 DEF RemovedIsGone
    <3>4. ~UpdateCalls'
      BY <1>4, <2>5, <3>1, <3>3 DEF Is
    <3>5. QED
      BY <3>1, <3>3, <3>4 DEF Served, CallServed, InStep
  <2>21. CASE DropAll(w)
    <3>1. BoundIds' = {} /\ task'[w] = NoTask /\ inbound' = inbound
      BY <1>1, <2>21, AllGo
    <3>2. Is(w, {"clear"}, {"drop"})
      BY <2>21 DEF DropAll, At, Is
    <3>3. inbound # Gone \/ UpdateCalls => BoundIds = {}
      BY <1>2, <3>2 DEF OneIsLeft
    <3>4. ~Creates(w) /\ ~Is(w, {"update"}, {"call"})'
      BY <1>4, <3>1, <3>2 DEF Creates, Is
    <3>5. inbound # Gone \/ UpdateCalls => Creating'
      BY <2>2, <2>3, <3>3, <3>4 DEF Served, CallServed, InStep
    <3>6. QED
      BY <2>5, <3>1, <3>4, <3>5 DEF Served, CallServed, InStep
  <2>22. CASE DropNode(w)
    <3>1. PICK n \in task[w].ids :
             /\ BoundIds' = BoundIds \ {n}
             /\ \/ task'[w] = NoTask /\ task[w].ids = {n}
                \/ /\ task'[w].kind = "delete" /\ task'[w].pc = "drop"
                   /\ task'[w].ids = task[w].ids \ {n}
      BY <1>1, <2>22, DropStep
    <3>2. Is(w, {"delete"}, {"drop"}) /\ inbound' = inbound
      BY <1>1, <2>22, DropStep
    <3>3. ~Creates(w) /\ ~Is(w, {"update"}, {"call"})'
      BY <1>4, <3>1, <3>2 DEF Creates, Is
    <3>4. inbound # Gone \/ UpdateCalls => (BoundIds # {} => BoundIds' # {})
      <4>1. SUFFICES ASSUME inbound # Gone \/ UpdateCalls, BoundIds # {} PROVE BoundIds' # {}
        OBVIOUS
      <4>2. PICK m \in BoundIds : \A x \in Tasks : Dropping(x) => m \notin task[x].ids
        BY <1>2, <4>1 DEF OneIsLeft
      <4>3. m \notin task[w].ids
        BY <3>2, <4>2 DEF Dropping, Is, Deletions
      <4>4. QED
        BY <3>1, <4>3
    <3>5. CallServed'
      BY <2>2, <2>3, <2>5, <3>3, <3>4 DEF CallServed
    <3>6. CASE inbound # Gone
      <4>1. CASE BoundIds = {}
        <5>1. Creating /\ inbound' # Gone
          BY <2>2, <3>2, <3>6, <4>1 DEF Served, InStep
        <5>2. Creating'
          BY <2>3, <3>3, <5>1
        <5>3. QED
          BY <3>5, <5>1, <5>2 DEF Served
      <4>2. CASE BoundIds # {}
        <5>1. BoundIds' # {} /\ inbound' # Gone
          BY <3>2, <3>4, <3>6, <4>2
        <5>2. QED
          BY <3>5, <5>1 DEF Served, InStep
      <4>3. QED
        BY <4>1, <4>2
    <3>7. CASE inbound = Gone /\ BoundIds' # {}
      <4>1. Removing
        BY <2>2, <3>1, <3>7 DEF Served, InStep
      <4>2. Removes(w) => Removes(w)'
        <5>1. SUFFICES ASSUME Removes(w) PROVE Removes(w)'
          OBVIOUS
        <5>2. BoundIds \subseteq task[w].ids
          BY <3>2, <5>1 DEF Removes, Is
        <5>3. task'[w].kind = "delete" /\ task'[w].pc = "drop" /\ BoundIds' \subseteq task'[w].ids
          BY <3>1, <3>7, <5>2
        <5>4. QED
          BY <5>3 DEF Removes, Is
      <4>3. Removing'
        BY <2>4, <3>1, <4>1, <4>2
      <4>4. QED
        BY <3>2, <3>5, <3>7, <4>3 DEF Served
    <3>8. CASE inbound = Gone /\ BoundIds' = {}
      BY <3>2, <3>5, <3>8 DEF Served, InStep
    <3>9. QED
      BY <3>6, <3>7, <3>8
  <2>23. CASE CheckSiblings(w)
    <3>1. Is(w, Deletions, {"check"}) /\ inbound' = inbound
          /\ task'[w].kind = task[w].kind
      BY <1>1, <2>23, NodeSteps
    <3>2. ~Creates(w) /\ ~Removes(w) /\ ~Is(w, {"update"}, {"call"})'
      BY <3>1 DEF Creates, Removes, Is, Deletions
    <3>3. QED
      BY <1>5, <2>6, <2>23, <3>1, <3>2 DEF Quiet
  <2>24. CASE DeleteInbound(w)
    <3>1. /\ Is(w, Deletions, {"call"}) /\ inbound' = Gone
          /\ task'[w].kind = task[w].kind /\ task'[w].ids = task[w].ids
          /\ task'[w].pc = "drop" /\ ~Busy(w, {"update"}, {"call"})
      BY <1>1, <2>24, NodeSteps
    <3>2. BoundIds' = BoundIds /\ BoundIds \subseteq task[w].ids
      BY <1>2, <1>5, <2>24, <3>1 DEF Quiet, TakesAll
    <3>3. Removes(w)' /\ ~Is(w, {"update"}, {"call"})'
      BY <3>1, <3>2 DEF Removes, Is, Deletions
    <3>4. ~UpdateCalls'
      <4>1. \A x \in Tasks : x # w => ~Is(x, {"update"}, {"call"})
        BY <3>1 DEF Busy, Others, Is
      <4>2. QED
        BY <1>3, <3>3, <4>1 DEF UpdateCalls
    <3>5. QED
      BY <3>1, <3>3, <3>4 DEF Served, CallServed, Removing
  <2>25. CASE DeleteInboundFails(w)
    BY <1>1, <2>25, NodeSteps
  <2>26. QED
    BY <2>7, <2>8, <2>9, <2>10, <2>11, <2>12, <2>13, <2>14, <2>15, <2>16, <2>17, <2>18, <2>19,
       <2>20, <2>21, <2>22, <2>23, <2>24, <2>25 DEF Works, Quiet
<1>8. QED
  BY <1>6, <1>7

\* What one task's step leaves right where the others are concerned: their
\* content is still to come, and no row of theirs got behind a relay.
LEMMA OthersFit ==
    ASSUME NodesTyped, NEW w \in Tasks, \A x \in Tasks : Fits(x), Fits(w)',
           \A x \in Tasks : x # w => task'[x] = task[x],
           \/ ~MidUpdate(w)
           \/ \A n \in BoundIds' : Relayed(node'[n]) => n \in BoundIds /\ Relayed(node[n]),
           \A n \in BoundIds' : Placed(node'[n]) /\ Shows(n)'
    PROVE  ContentInv'
<1>1. ASSUME NEW x \in Tasks, x # w PROVE Fits(x)'
  <2>1. task'[x] = task[x] /\ Fits(x)
    BY <1>1
  <2>2. MidUpdate(w) \/ ~Is(x, {"update"}, {"v4", "v6", "rewrite"})
    BY <1>1 DEF MidUpdate, Busy, Others, Is
  <2>3. QED
    BY <2>1, <2>2 DEF Fits, Is
<1>2. QED
  BY <1>1 DEF ContentInv

\* The row keeps its content, or the task that brings it.
LEMMA StillShows ==
    ASSUME NEW w \in Tasks, \A x \in Tasks : x # w => task'[x] = task[x], inbound' = inbound,
           NEW n, Shows(n), node'[n].cfg = node[n].cfg, node'[n].family = node[n].family,
           WillShow(w, n) => WillShow(w, n)' \/ node[n].cfg = inbound
    PROVE  Shows(n)'
<1>1. ASSUME NEW x \in Tasks, x # w, WillShow(x, n) PROVE WillShow(x, n)'
  BY <1>1 DEF WillShow, Is
<1>2. QED
  BY <1>1 DEF Shows

\* An imported node is claimed, and that is all that changes; the task goes on
\* to the next, or ends, or goes on to create.
LEMMA ClaimsOn ==
    ASSUME NodesTyped, NEW w \in Tasks, Claim(w)
    PROVE  /\ task'[w].kind \in {"idle", "add", "sync"} /\ task'[w].pc # "origs"
<1>1. task[w] \in TaskType /\ task[w].kind \in {"add", "sync"} /\ task[w].pc = "claim"
      /\ task \in [Tasks -> TaskType]
  BY ClaimStep DEF NodesTyped
<1>2. PICK n \in task[w].ids :
         task' = [task EXCEPT ![w] =
            IF task[w].ids \ {n} # {} THEN [task[w] EXCEPT !.ids = task[w].ids \ {n}]
            ELSE IF task[w].kind = "add" THEN NoTask
            ELSE [task[w] EXCEPT !.pc = "create", !.ids = {}, !.families = {}]]
  BY DEF Claim
<1>3. task'[w] \in {[task[w] EXCEPT !.ids = task[w].ids \ {n}], NoTask,
                    [task[w] EXCEPT !.pc = "create", !.ids = {}, !.families = {}]}
  BY <1>1, <1>2
<1>4. QED
  BY <1>1, <1>3, TasksAreTasks DEF TaskType

\* What holds before a step that gives no reason for wrong content.
LEMMA ContentBefore ==
    ASSUME NodesInv, NEW w \in Tasks, Works(w), Clear(ContentReasons)'
    PROVE  /\ NodesTyped /\ \A x \in Tasks : Fits(x)
           /\ \A x \in Tasks : x # w => task'[x] = task[x]
           /\ \A n \in BoundIds : Placed(node[n]) /\ Shows(n)
           /\ blame' \cap {"late", "lost", "copied", "relayedMeanwhile", "kept", "sibling",
                          "origV4", "imported"} = {}
           /\ Quiet(w) => /\ BoundIds' = BoundIds
                          /\ \A n \in Ids : node'[n].kind = node[n].kind
           /\ \A n \in BoundIds : n \in Ids /\ node[n] \in Row /\ node[n].kind = "bound"
           /\ \A n \in BoundIds' : n \in Ids /\ node'[n].kind = "bound"
<1>1. /\ NodesTyped /\ KindInv /\ Clear(ContentReasons)
      /\ \A x \in Tasks : x # w => task'[x] = task[x]
      /\ blame' \cap {"late", "lost", "copied", "relayedMeanwhile", "kept", "sibling",
                     "origV4", "imported"} = {}
  BY OneMoves DEF NodesInv, Clear, ContentReasons
<1>2. Quiet(w) => BoundIds' = BoundIds /\ \A n \in Ids : node'[n].kind = node[n].kind
  BY <1>1, QuietRows DEF RowsStay
<1>3. /\ \A n \in BoundIds : n \in Ids /\ node[n] \in Row /\ node[n].kind = "bound"
      /\ \A n \in BoundIds' : n \in Ids /\ node'[n].kind = "bound"
  BY <1>1 DEF BoundIds, RowsOf, NodesTyped
<1>4. QED
  BY <1>1, <1>2, <1>3 DEF NodesInv, ContentInv

\* A row written by the family shows the inbound under its own address, and the
\* other family is next.
LEMMA UpdateKeeps ==
    ASSUME NodesInv, NEW w \in Tasks, NEW f \in Families, UpdateFamily(w, f),
           Clear(ContentReasons)'
    PROVE  ContentInv'
<1>1. Quiet(w)
  BY DEF Quiet
<1>2. /\ NodesTyped /\ \A x \in Tasks : Fits(x)
      /\ \A x \in Tasks : x # w => task'[x] = task[x]
      /\ \A n \in BoundIds : Placed(node[n]) /\ Shows(n) /\ n \in Ids /\ node[n] \in Row
      /\ "late" \notin blame' /\ BoundIds' = BoundIds
  BY <1>1, ContentBefore DEF Works
<1>3. /\ Is(w, {"update"}, {f}) /\ inbound' = inbound /\ inbound = task[w].v
      /\ IF f = "v4" THEN Is(w, {"update"}, {"v6"})' /\ task'[w].v = task[w].v
         ELSE task'[w] = NoTask
  BY <1>2, ListenerSteps
<1>4. \A n \in BoundIds : ~Relayed(node[n])
  BY <1>2, <1>3 DEF Fits, Is, Families
<1>5. ASSUME NEW n \in BoundIds
      PROVE  ~Relayed(node'[n]) /\ Placed(node'[n]) /\ Shows(n)'
  <2>1. /\ node'[n].orig = node[n].orig /\ node'[n].family = node[n].family
        /\ node[n].family \in Families
        /\ node'[n].host = IF node[n].family = f THEN OwnHost(f) ELSE node[n].host
        /\ node'[n].cfg = IF node[n].family = f THEN inbound ELSE node[n].cfg
    BY <1>2, <1>3 DEF UpdateFamily, Row
  <2>2. ~Relayed(node'[n]) /\ Placed(node'[n])
    BY <1>2, <1>4, <2>1 DEF Relayed, Placed, Restores
  <2>3. Shows(n)'
    <3>1. CASE node[n].family = f
      BY <1>3, <2>1, <3>1 DEF Shows
    <3>2. CASE node[n].family # f
      <4>1. WillShow(w, n) => WillShow(w, n)'
        BY <1>3, <2>1, <3>2 DEF WillShow, Is, Families
      <4>2. QED
        BY <1>2, <1>3, <2>1, <3>2, <4>1, StillShows
    <3>3. QED
      BY <3>1, <3>2
  <2>4. QED
    BY <2>2, <2>3
<1>6. Fits(w)'
  BY <1>2, <1>3, <1>5, TasksAreTasks DEF Fits, Is
<1>7. QED
  BY <1>2, <1>5, <1>6, OthersFit

\* A row written from its own copy shows the inbound behind a relay.
LEMMA RewriteKeeps ==
    ASSUME NodesInv, NEW w \in Tasks, RewriteRelay(w), Clear(ContentReasons)'
    PROVE  ContentInv'
<1>1. Quiet(w)
  BY DEF Quiet
<1>2. /\ NodesTyped /\ \A x \in Tasks : Fits(x)
      /\ \A x \in Tasks : x # w => task'[x] = task[x]
      /\ \A n \in BoundIds : /\ Placed(node[n]) /\ Shows(n) /\ n \in Ids /\ node[n] \in Row
                             /\ node[n].kind = "bound"
      /\ \A n \in BoundIds' : n \in Ids /\ node'[n].kind = "bound"
      /\ blame' \cap {"late", "origV4", "relayedMeanwhile", "copied"} = {} /\ BoundIds' = BoundIds
  BY <1>1, ContentBefore DEF Works
<1>3. /\ Is(w, {"update"}, {"rewrite"}) /\ inbound' = inbound
      /\ task[w] \in TaskType /\ task \in [Tasks -> TaskType] /\ node \in [Ids -> Row]
      /\ DOMAIN task[w].copy \subseteq Ids
  BY <1>2, NodeSteps, CopiesAreCopies DEF NodesTyped, TaskType
<1>4. PICK n \in task[w].ids :
              /\ n \in Ids /\ n \in DOMAIN task[w].copy
              /\ task[w].copy[n] \in Row /\ CopyOf(task[w].copy[n], node[n])
              /\ task[w].copy[n].kind = "bound"
              /\ node' = IF node[n].kind # "none"
                         THEN [node EXCEPT ![n] = Rewritten(task[w].copy[n], task[w])]
                         ELSE node
              /\ LET some == node[n].kind # "none" \/ task[w].families # {}
                     rest == task[w].ids \ {n}
                 IN  task' = [task EXCEPT ![w] =
                        IF rest # {}
                        THEN [task[w] EXCEPT !.ids = rest,
                                             !.copy = [i \in rest |-> task[w].copy[i]],
                                             !.families = IF some THEN Families ELSE {}]
                        ELSE IF some THEN NoTask
                        ELSE [NoTask EXCEPT !.kind = "update", !.pc = "v4", !.v = task[w].v]]
              /\ blame' = blame
                    \cup (IF inbound # task[w].v THEN {"late"} ELSE {})
                    \cup (IF task[w].copy[n].family = "v6" THEN {"origV4"} ELSE {})
                    \cup (IF task[w].relay /\ MidUpdate(w) THEN {"relayedMeanwhile"} ELSE {})
                    \cup (IF node[n].host # task[w].copy[n].host THEN {"copied"} ELSE {})
  BY <1>2, RewriteStep
<1> DEFINE written == node[n].kind # "none"
           some    == written \/ task[w].families # {}
           rest    == task[w].ids \ {n}
<1>5. /\ inbound = task[w].v /\ task[w].copy[n].family = "v4"
      /\ ~(task[w].relay /\ MidUpdate(w)) /\ node[n].host = task[w].copy[n].host
  BY <1>2, <1>4 DEF Row, Families
<1>6. \A m \in Ids : m # n \/ ~written => node'[m] = node[m]
  BY <1>3, <1>4
<1>7. task'[w] = IF rest # {}
                 THEN [task[w] EXCEPT !.ids = rest,
                                      !.copy = [i \in rest |-> task[w].copy[i]],
                                      !.families = IF some THEN Families ELSE {}]
                 ELSE IF some THEN NoTask
                 ELSE [NoTask EXCEPT !.kind = "update", !.pc = "v4", !.v = task[w].v]
  BY <1>3, <1>4
<1>8. /\ \A m \in BoundIds : Relayed(node[m]) => m \in task[w].ids \/ task[w].families # {}
      /\ \A m \in task[w].ids : task[w].relay \/ task[w].copy[m].host = "relay"
  BY <1>2, <1>3 DEF Fits
<1>9. CASE written
  <2>1. node'[n] = Rewritten(task[w].copy[n], task[w])
    BY <1>3, <1>4, <1>9
  <2>2. /\ node'[n].kind = "bound" /\ node'[n].family = "v4" /\ node'[n].host = "relay"
        /\ node'[n].orig = "own" /\ node'[n].cfg = inbound
    BY <1>3, <1>4, <1>5, <1>8, <2>1, RewrittenRow
  <2>3. n \in BoundIds' /\ n \in BoundIds
    BY <1>2, <1>4, <2>2 DEF BoundIds, RowsOf
  <2>4. \/ ~MidUpdate(w)
        \/ \A m \in BoundIds' : Relayed(node'[m]) => m \in BoundIds /\ Relayed(node[m])
    <3>1. CASE task[w].relay
      BY <1>5, <3>1
    <3>2. CASE ~task[w].relay
      <4>1. node[n].host = "relay"
        BY <1>5, <1>8, <3>2
      <4>2. Relayed(node[n])
        BY <1>2, <2>3, <4>1 DEF Placed, OwnHost
      <4>3. QED
        BY <1>2, <1>6, <4>2
    <3>3. QED
      BY <3>1, <3>2
  <2>5. ASSUME NEW m \in BoundIds' PROVE Placed(node'[m]) /\ Shows(m)'
    <3>1. CASE m = n
      BY <1>3, <2>2, <3>1 DEF Placed, Shows, Relayed, Restores, OwnHost
    <3>2. CASE m # n
      <4>1. m \in BoundIds /\ node'[m] = node[m]
        BY <1>2, <1>6, <3>2
      <4>2. WillShow(w, m) => WillShow(w, m)'
        <5>1. SUFFICES ASSUME WillShow(w, m) PROVE WillShow(w, m)'
          OBVIOUS
        <5>2. m \in rest
          BY <1>3, <3>2, <5>1 DEF WillShow, Is
        <5>3. /\ task'[w].kind = "update" /\ task'[w].pc = "rewrite" /\ task'[w].ids = rest
              /\ task'[w].v = task[w].v
          BY <1>3, <1>7, <5>2 DEF TaskType, Is
        <5>4. QED
          BY <1>3, <1>5, <5>2, <5>3 DEF WillShow, Is
      <4>3. QED
        BY <1>2, <1>3, <4>1, <4>2, StillShows
    <3>3. QED
      BY <3>1, <3>2
  <2>6. Fits(w)'
    <3>1. CASE rest # {}
      <4>1. /\ task'[w].kind = "update" /\ task'[w].pc = "rewrite" /\ task'[w].ids = rest
            /\ task'[w].families = Families /\ task'[w].relay = task[w].relay
            /\ \A m \in rest : task'[w].copy[m] = task[w].copy[m]
        BY <1>3, <1>7, <1>9, <3>1 DEF TaskType, Is
      <4>2. QED
        BY <1>8, <4>1 DEF Fits, Is, Families
    <3>2. CASE rest = {}
      BY <1>7, <1>9, <3>2, TasksAreTasks DEF Fits, Is
    <3>3. QED
      BY <3>1, <3>2
  <2>7. QED
    BY <1>2, <2>4, <2>5, <2>6, OthersFit
<1>10. CASE ~written
  <2>1. \A m \in BoundIds : m # n /\ node'[m] = node[m]
    BY <1>2, <1>6, <1>10
  <2>2. CASE rest # {}
    <3>1. /\ task'[w].kind = "update" /\ task'[w].pc = "rewrite" /\ task'[w].ids = rest
          /\ task'[w].relay = task[w].relay /\ task'[w].v = task[w].v
          /\ task'[w].families = IF task[w].families # {} THEN Families ELSE {}
          /\ \A m \in rest : task'[w].copy[m] = task[w].copy[m]
      BY <1>3, <1>7, <1>10, <2>2 DEF TaskType, Is
    <3>2. \A m \in BoundIds : m \in task[w].ids => m \in rest
      BY <2>1
    <3>3. Fits(w)'
      <4>1. \A m \in BoundIds' : Relayed(node'[m]) => m \in task'[w].ids \/ task'[w].families # {}
        BY <1>2, <1>8, <2>1, <3>1, <3>2 DEF Families
      <4>2. \A m \in task'[w].ids : task'[w].relay \/ task'[w].copy[m].host = "relay"
        BY <1>8, <3>1
      <4>3. QED
        BY <3>1, <4>1, <4>2 DEF Fits, Is
    <3>4. ASSUME NEW m \in BoundIds' PROVE Placed(node'[m]) /\ Shows(m)'
      <4>1. m \in BoundIds /\ node'[m] = node[m] /\ Placed(node[m]) /\ Shows(m)
        BY <1>2, <2>1
      <4>2. WillShow(w, m) => WillShow(w, m)'
        BY <1>3, <3>1, <3>2, <4>1 DEF WillShow, Is
      <4>3. QED
        BY <1>2, <1>3, <4>1, <4>2, StillShows
    <3>5. QED
      BY <1>2, <2>1, <3>3, <3>4, OthersFit
  <2>3. CASE rest = {}
    <3>1. task[w].ids = {n}
      BY <2>3
    <3>2. \A m \in BoundIds : ~WillShow(w, m)
      BY <1>3, <2>1, <3>1 DEF WillShow, Is
    <3>3. \/ task'[w].kind = "idle"
          \/ task'[w].kind = "update" /\ task'[w].pc = "v4" /\ task[w].families = {}
      BY <1>7, <1>10, <2>3, TasksAreTasks DEF NoTask
    <3>4. Fits(w)'
      BY <1>2, <1>8, <2>1, <3>1, <3>3 DEF Fits, Is
    <3>5. ASSUME NEW m \in BoundIds' PROVE Placed(node'[m]) /\ Shows(m)'
      BY <1>2, <1>3, <2>1, <3>2, <3>5, StillShows
    <3>6. QED
      BY <1>2, <2>1, <3>4, <3>5, OthersFit
  <2>4. QED
    BY <2>2, <2>3
<1>11. QED
  BY <1>9, <1>10

\* An edit of a row as it is keeps it in place, and its content.
LEMMA WriteKeeps ==
    ASSUME NodesInv, NEW w \in Tasks, WriteCopy(w), Clear(ContentReasons)'
    PROVE  ContentInv'
<1>1. Quiet(w)
  BY DEF Quiet
<1>2. /\ NodesTyped /\ \A x \in Tasks : Fits(x)
      /\ \A x \in Tasks : x # w => task'[x] = task[x]
      /\ \A n \in BoundIds : /\ Placed(node[n]) /\ Shows(n) /\ n \in Ids /\ node[n] \in Row
                             /\ node[n].kind = "bound"
      /\ blame' \cap {"relayedMeanwhile", "copied"} = {} /\ BoundIds' = BoundIds
  BY <1>1, ContentBefore DEF Works
<1>3. /\ Is(w, Edits, {"write"}) /\ inbound' = inbound /\ task'[w] = NoTask
      /\ node \in [Ids -> Row]
  BY <1>2, NodeSteps DEF NodesTyped
<1>4. PICK n \in Ids :
              /\ task[w].kind \in Edits
              /\ task[w].copy[n] \in Row /\ CopyOf(task[w].copy[n], node[n])
              /\ task[w].kind = "cancelRelay" => Relayed(task[w].copy[n])
              /\ node' = IF node[n].kind = "none" THEN node
                         ELSE [node EXCEPT ![n] = EditedNode(task[w].kind, task[w].copy[n])]
              /\ blame' = blame
                    \cup (IF node[n] \notin {NoNode, task[w].copy[n]} THEN {"copied"} ELSE {})
                    \cup (IF MidUpdate(w) THEN {"relayedMeanwhile"} ELSE {})
  BY <1>2, WriteStep
<1>5. ~MidUpdate(w) /\ node[n] \in {NoNode, task[w].copy[n]}
  BY <1>2, <1>4
<1>6. \A m \in BoundIds : ~WillShow(w, m)
  BY <1>3 DEF WillShow, Is, Edits
<1>7. ASSUME NEW m \in BoundIds, m # n \/ node[n].kind = "none"
      PROVE  Placed(node'[m]) /\ Shows(m)'
  <2>1. node'[m] = node[m]
    BY <1>2, <1>3, <1>4, <1>7
  <2>2. QED
    BY <1>2, <1>3, <1>6, <2>1, StillShows
<1>8. ASSUME n \in BoundIds, node[n].kind # "none" PROVE Placed(node'[n]) /\ Shows(n)'
  <2> DEFINE k == task[w].kind
  <2>1. node[n] = task[w].copy[n]
    <3>1. NoNode.kind = "none"
      BY DEF NoNode
    <3>2. QED
      BY <1>5, <1>8, <3>1
  <2>2. node[n] \in Row /\ RowOK(node[n]) /\ k \in Edits
        /\ (k = "cancelRelay" => Relayed(node[n])) /\ Placed(node[n]) /\ Shows(n)
    BY <1>2, <1>4, <1>8, <2>1 DEF CopyOf
  <2>3. node'[n] = EditedNode(k, node[n])
    BY <1>3, <1>4, <1>8, <2>1
  <2> HIDE DEF k
  <2>4. /\ node'[n].family = node[n].family /\ node'[n].cfg = node[n].cfg
        /\ k = "edit" => node'[n] = node[n]
        /\ k = "cancelRelay" => node'[n].host = node[n].orig /\ node'[n].orig = ""
        /\ k = "setRelay" => /\ node'[n].host = "relay"
                             /\ node'[n].orig = IF node[n].orig = "" THEN node[n].host
                                                ELSE node[n].orig
    <3> DEFINE r == node[n]
    <3> HIDE DEF r
    <3>1. r \in Row /\ RowOK(r) /\ r.kind # "none" /\ k \in Edits
          /\ (k = "cancelRelay" => Relayed(r))
      BY <1>8, <2>2 DEF r
    <3>2. /\ EditedNode(k, r).family = r.family /\ EditedNode(k, r).cfg = r.cfg
          /\ k = "edit" => EditedNode(k, r) = r
          /\ k = "cancelRelay" => EditedNode(k, r).host = r.orig /\ EditedNode(k, r).orig = ""
          /\ k = "setRelay" => /\ EditedNode(k, r).host = "relay"
                               /\ EditedNode(k, r).orig = IF r.orig = "" THEN r.host ELSE r.orig
      BY <3>1, EditedRow
    <3>3. QED
      BY <2>3, <3>2 DEF r
  <2>5. Shows(n)'
    BY <1>2, <1>3, <1>6, <1>8, <2>2, <2>4, StillShows
  <2>6. Placed(node'[n])
    <3>1. CASE k = "edit"
      BY <2>2, <2>4, <3>1
    <3>2. CASE k = "cancelRelay"
      BY <2>2, <2>4, <3>2 DEF Placed, Restores, Relayed
    <3>3. CASE k = "setRelay"
      <4>1. OwnHost(node[n].family) # ""
        BY DEF OwnHost
      <4>2. node'[n].orig = OwnHost(node[n].family)
        BY <2>2, <2>4, <3>3, <4>1 DEF Placed, Restores, Relayed
      <4>3. QED
        BY <2>4, <3>3, <4>1, <4>2 DEF Placed, Restores, Relayed
    <3>4. QED
      BY <2>2, <3>1, <3>2, <3>3 DEF Edits
  <2>7. QED
    BY <2>5, <2>6
<1>9. Fits(w)'
  BY <1>3, TasksAreTasks DEF Fits, Is
<1>10. \A m \in BoundIds' : Placed(node'[m]) /\ Shows(m)'
  BY <1>2, <1>7, <1>8
<1>11. QED
  BY <1>2, <1>5, <1>9, <1>10, OthersFit

\* Rows stay in place, and show the inbound or are about to.
LEMMA ContentKept ==
    ASSUME NodesInv, NEW w \in Tasks, Works(w)
    PROVE  ContentInv'
<1> SUFFICES ASSUME Clear(ContentReasons)' PROVE ContentInv'
  BY DEF ContentInv
<1>1. /\ NodesTyped /\ \A x \in Tasks : Fits(x)
      /\ \A x \in Tasks : x # w => task'[x] = task[x]
      /\ \A n \in BoundIds : Placed(node[n]) /\ Shows(n)
      /\ blame' \cap {"late", "lost", "copied", "relayedMeanwhile", "kept", "sibling",
                     "origV4", "imported"} = {}
      /\ Quiet(w) => /\ BoundIds' = BoundIds
                     /\ \A n \in Ids : node'[n].kind = node[n].kind
      /\ \A n \in BoundIds : n \in Ids /\ node[n] \in Row /\ node[n].kind = "bound"
      /\ \A n \in BoundIds' : n \in Ids /\ node'[n].kind = "bound"
  BY ContentBefore
<1>2. NoTask.kind = "idle" /\ Refreshing.kind = "sync" /\ Refreshing.pc = "refresh"
  BY TasksAreTasks
<1>3. node' = node => BoundIds' = BoundIds
  BY DEF BoundIds, RowsOf
\* Rows and inbound are as they were.
<1>4. ASSUME \A n \in BoundIds' : n \in BoundIds /\ node'[n] = node[n], inbound' = inbound, Fits(w)',
             \A n \in BoundIds' : WillShow(w, n) => WillShow(w, n)' \/ node[n].cfg = inbound
      PROVE  ContentInv'
  <2>1. ASSUME NEW n \in BoundIds' PROVE Placed(node'[n]) /\ Shows(n)'
    <3>1. n \in BoundIds /\ node'[n] = node[n] /\ Placed(node[n]) /\ Shows(n)
      BY <1>1, <1>4
    <3>2. QED
      BY <1>1, <1>4, <3>1, StillShows
  <2>2. QED
    BY <1>1, <1>4, <2>1, OthersFit
\* The inbound goes.
<1>5. ASSUME inbound' = Gone, node' = node, Fits(w)' PROVE ContentInv'
  BY <1>1, <1>3, <1>5, OthersFit DEF Shows
<1>6. CASE UpdateRemoves(w)
  <2>1. inbound' = Gone /\ node' = node
        /\ (Is(w, {"update"}, {"call"})' \/ task'[w] = NoTask)
    BY <1>1, <1>6, CallSteps
  <2>2. QED
    BY <1>2, <1>5, <2>1 DEF Fits, Is
<1>7. CASE AgentAdds(w)
  <2>1. /\ node' = node /\ task'[w].v = inbound'
        /\ Is(w, {"add"}, {"match"})' \/ Is(w, {"update"}, {"relays"})'
    BY <1>1, <1>7, CallSteps DEF Is
  <2>2. \A n : WillShow(w, n)'
    BY <2>1 DEF WillShow, Is
  <2>3. Fits(w)'
    BY <2>1 DEF Fits, Is
  <2>4. QED
    BY <1>1, <1>3, <2>1, <2>2, <2>3, OthersFit DEF Shows
<1>8. CASE AgentRemoves(w)
  <2>1. inbound' = Gone /\ node' = node
        /\ (Is(w, {"remove"}, {"removed"})' \/ task'[w] = NoTask)
    BY <1>1, <1>8, CallSteps
  <2>2. QED
    BY <1>2, <1>5, <2>1 DEF Fits, Is
<1>9. CASE CallFails(w)
  <2>1. /\ inbound' = inbound /\ node' = node /\ task'[w] = NoTask
        /\ Is(w, {"add", "update", "remove"}, {"call", "remove"})
    BY <1>1, <1>9, CallSteps
  <2>2. Fits(w)' /\ \A n : ~WillShow(w, n)
    BY <1>2, <2>1 DEF Fits, WillShow, Is
  <2>3. QED
    BY <1>3, <1>4, <2>1, <2>2
<1>10. CASE Match(w)
  <2>1. /\ inbound' = inbound /\ node' = node /\ task'[w].v = task[w].v
        /\ Is(w, {"add", "sync"}, {"match"})
        /\ Is(w, {"add"}, {"match"}) => Is(w, {"add"}, {"list", "claim"})'
        /\ Is(w, {"sync"}, {"match"}) => Is(w, {"sync"}, {"create", "claim"})'
    BY <1>1, <1>10, ListenerSteps
  <2>2. Fits(w)' /\ \A n : WillShow(w, n) => WillShow(w, n)'
    BY <2>1 DEF Fits, WillShow, Is
  <2>3. QED
    BY <1>3, <1>4, <2>1, <2>2
<1>11. CASE List(w)
  <2>1. /\ Is(w, {"add"}, {"list"}) /\ inbound' = inbound /\ node' = node /\ ~Outdated(w)
        /\ task'[w] = NoTask \/ Is(w, {"add"}, {"create"})'
    BY <1>1, <1>11, ListenerSteps
  <2>2. \A n \in BoundIds : node[n].cfg = task[w].v
    BY <2>1 DEF Outdated, Is
  <2>3. Fits(w)' /\ \A n \in BoundIds : WillShow(w, n) => node[n].cfg = inbound
    BY <1>2, <2>1, <2>2 DEF Fits, WillShow, Is
  <2>4. QED
    BY <1>3, <1>4, <2>1, <2>3
<1>12. CASE ListRelays(w)
  <2>1. /\ Is(w, {"update"}, {"relays"}) /\ inbound' = inbound /\ node' = node
        /\ task'[w].v = task[w].v
        /\ IF RelaysToWrite(w) = {} THEN Is(w, {"update"}, {"v4"})'
           ELSE /\ Is(w, {"update"}, {"rewrite"})' /\ task'[w].ids = RelaysToWrite(w)
                /\ task'[w].relay = task[w].relay
                /\ \A n \in RelaysToWrite(w) : task'[w].copy[n] = node[n]
        /\ RelaysToWrite(w) \in {{}, BoundIds}
    BY <1>1, <1>12, ListenerSteps
  <2>2. CASE RelaysToWrite(w) = {}
    <3>1. \A n \in BoundIds : ~Relayed(node[n])
      BY <2>2 DEF RelaysToWrite
    <3>2. Fits(w)' /\ \A n : WillShow(w, n) => WillShow(w, n)'
      BY <1>3, <2>1, <2>2, <3>1 DEF Fits, WillShow, Is
    <3>3. QED
      BY <1>3, <1>4, <2>1, <3>2
  <2>3. CASE RelaysToWrite(w) # {}
    <3>1. RelaysToWrite(w) = BoundIds
      BY <2>1, <2>3
    <3>2. \A n \in BoundIds : task[w].relay \/ node[n].host = "relay"
      BY <1>1, <3>1 DEF RelaysToWrite, Placed
    <3>3. Fits(w)' /\ \A n \in BoundIds : WillShow(w, n) => WillShow(w, n)'
      BY <1>3, <2>1, <2>3, <3>1, <3>2 DEF Fits, WillShow, Is
    <3>4. QED
      BY <1>3, <1>4, <2>1, <3>3
  <2>4. QED
    BY <2>2, <2>3
<1>13. CASE SyncInbounds(w) \/ SyncNodes(w)
  <2>1. /\ Is(w, {"sync"}, {"inbounds", "nodes"}) /\ inbound' = inbound /\ node' = node
        /\ task'[w] = Refreshing \/ Is(w, {"sync"}, {"nodes", "match"})'
    BY <1>1, <1>13, ScanSteps DEF Is
  <2>2. Fits(w)' /\ \A n : ~WillShow(w, n)
    BY <1>2, <2>1 DEF Fits, WillShow, Is
  <2>3. QED
    BY <1>3, <1>4, <2>1, <2>2
<1>14. CASE RefreshHosts(w)
  <2>1. /\ Is(w, {"sync"}, {"refresh"}) /\ inbound' = inbound /\ task'[w] = NoTask
        /\ BoundIds' = BoundIds
    BY <1>1, <1>14, ScanSteps DEF Quiet
  <2>2. ASSUME NEW n \in BoundIds PROVE node'[n] = node[n]
    <3>1. node'[n] = IF node[n].family = "v4" /\ ~Relayed(node[n])
                     THEN [node[n] EXCEPT !.host = "own"] ELSE node[n]
      BY <1>1, <1>14, ScanSteps
    <3>2. node[n].family = "v4" /\ ~Relayed(node[n]) => node[n].host = "own"
      BY <1>1 DEF Placed, OwnHost
    <3>3. node[n] \in Row
      BY <1>1
    <3>4. node[n].host = "own" => [node[n] EXCEPT !.host = "own"] = node[n]
      BY <3>3 DEF Row
    <3>5. QED
      BY <3>1, <3>2, <3>4
  <2>3. Fits(w)' /\ \A n : ~WillShow(w, n)
    BY <1>2, <2>1 DEF Fits, WillShow, Is
  <2>4. QED
    BY <1>4, <2>1, <2>2, <2>3
<1>15. CASE RefreshOrig(w)
  <2>1. Is(w, {"sync"}, {"origs"})
    BY <1>1, <1>15, ScanSteps
  <2>2. QED
    BY <1>1, <2>1 DEF Fits
<1>16. CASE CheckSiblings(w)
  <2>1. /\ Is(w, Deletions, {"check"}) /\ inbound' = inbound /\ node' = node
        /\ task'[w].kind = task[w].kind
    BY <1>1, <1>16, NodeSteps
  <2>2. Fits(w)' /\ \A n : ~WillShow(w, n)
    BY <2>1 DEF Fits, WillShow, Is, Deletions
  <2>3. QED
    BY <1>3, <1>4, <2>1, <2>2
<1>17. CASE DeleteInbound(w)
  <2>1. Is(w, Deletions, {"call"}) /\ inbound' = Gone /\ node' = node
        /\ task'[w].kind = task[w].kind
    BY <1>1, <1>17, NodeSteps
  <2>2. QED
    BY <1>5, <2>1 DEF Fits, Is, Deletions
<1>18. CASE DeleteInboundFails(w)
  BY <1>1, <1>18, NodeSteps
<1>19. CASE Claim(w)
  <2>1. /\ Is(w, {"add", "sync"}, {"claim"}) /\ inbound' = inbound /\ inbound = task[w].v
        /\ ~Outdated(w)
    BY <1>1, <1>19, ClaimStep DEF Is
  <2>2. PICK n \in Ids :
           /\ \A m \in Ids : m # n => node'[m] = node[m]
           /\ node[n].kind # "external" => node'[n] = node[n] /\ "vanished" \in blame'
           /\ node[n].kind = "external" =>
                 /\ node'[n].kind = "bound" /\ node'[n].family = "v4"
                 /\ node'[n].host = "own" /\ node'[n].cfg = task[w].v
                 /\ node'[n].orig = node[n].orig
           /\ Relayed(node[n]) => "relayedMeanwhile" \in blame'
    BY <1>1, <1>19, ClaimStep
  <2>3. Fits(w)'
    BY <1>1, <1>19, ClaimsOn DEF Fits, Is
  <2>4. \A m \in BoundIds : WillShow(w, m) => node[m].cfg = inbound
    BY <2>1 DEF WillShow, Is, Outdated
  <2>5. CASE node[n].kind # "external"
    <3>1. \A m \in Ids : node'[m] = node[m]
      BY <2>2, <2>5
    <3>2. \A m \in BoundIds' : m \in BoundIds /\ node'[m] = node[m]
      BY <1>1, <3>1 DEF BoundIds, RowsOf
    <3>3. QED
      BY <1>4, <2>1, <2>3, <2>4, <3>2
  <2>6. CASE node[n].kind = "external"
    <3>1. ~Relayed(node'[n]) /\ Placed(node'[n]) /\ node'[n].cfg = inbound
      BY <1>1, <2>1, <2>2, <2>6 DEF Relayed, Placed, Restores, OwnHost
    <3>2. \A m \in BoundIds' : m # n => m \in BoundIds /\ node'[m] = node[m]
      BY <1>1, <2>2 DEF BoundIds, RowsOf
    <3>3. ASSUME NEW m \in BoundIds' PROVE Placed(node'[m]) /\ Shows(m)'
      <4>1. CASE m = n
        BY <2>1, <3>1, <4>1 DEF Shows
      <4>2. CASE m # n
        BY <1>1, <2>1, <2>4, <3>2, <4>2, StillShows
      <4>3. QED
        BY <4>1, <4>2
    <3>4. \A m \in BoundIds' : Relayed(node'[m]) => m \in BoundIds /\ Relayed(node[m])
      BY <3>1, <3>2
    <3>5. QED
      BY <1>1, <2>3, <3>3, <3>4, OthersFit
  <2>7. QED
    BY <2>5, <2>6
<1>20. CASE Create(w)
  <2>1. /\ Is(w, {"add", "sync"}, {"create"}) /\ inbound' = inbound /\ inbound = task[w].v
        /\ ~(task[w].relay /\ MidUpdate(w))
    BY <1>1, <1>20, CreateStep DEF Is
  <2>2. PICK n \in Ids, f \in task[w].families :
           /\ \A m \in Ids : m # n => node'[m] = node[m]
           /\ node'[n].cfg = task[w].v
           /\ Placed(node'[n]) /\ (Relayed(node'[n]) => task[w].relay)
           /\ task'[w] \in {NoTask, Refreshing} \/ Is(w, {"add"}, {"create"})'
    BY <1>1, <1>20, CreateStep DEF Is
  <2>3. Fits(w)' /\ \A m : ~WillShow(w, m)
    BY <1>2, <2>1, <2>2 DEF Fits, WillShow, Is
  <2>4. \A m \in BoundIds' : m # n => m \in BoundIds /\ node'[m] = node[m]
    BY <1>1, <2>2 DEF BoundIds, RowsOf
  <2>5. ASSUME NEW m \in BoundIds' PROVE Placed(node'[m]) /\ Shows(m)'
    <3>1. CASE m = n
      BY <2>1, <2>2, <3>1 DEF Shows
    <3>2. CASE m # n
      BY <1>1, <2>1, <2>3, <2>4, <3>2, StillShows
    <3>3. QED
      BY <3>1, <3>2
  <2>6. \/ ~MidUpdate(w)
        \/ \A m \in BoundIds' : Relayed(node'[m]) => m \in BoundIds /\ Relayed(node[m])
    BY <2>1, <2>2, <2>4
  <2>7. QED
    BY <1>1, <2>3, <2>5, <2>6, OthersFit
<1>21. CASE SyncSkips(w)
  <2>1. task[w].kind = "sync" /\ task'[w] = Refreshing /\ inbound' = inbound
    BY <1>1, <1>21, SkipStep
  <2>2. PICK found \in SUBSET Ids :
           /\ \A n \in Ids \ found : node'[n] = node[n]
           /\ \A n \in found : node'[n].kind = Tagged(node[n].kind)
           /\ \A n \in BoundIds : node'[n] = node[n]
           /\ (\E n \in found : node[n].kind = "untagged") => "imported" \in blame'
    BY <1>1, <1>21, SkipStep
  <2>3. ASSUME NEW n \in BoundIds' PROVE n \in BoundIds
    <3>1. CASE n \notin found
      BY <1>1, <2>2, <3>1 DEF BoundIds, RowsOf
    <3>2. CASE n \in found
      <4>1. Tagged(node[n].kind) = "bound" /\ node[n].kind # "untagged" /\ n \in Ids
        BY <1>1, <2>2, <3>2
      <4>2. node[n].kind = "bound"
        BY <4>1 DEF Tagged
      <4>3. QED
        BY <4>1, <4>2 DEF BoundIds, RowsOf
    <3>3. QED
      BY <3>1, <3>2
  <2>4. Fits(w)' /\ \A n : ~WillShow(w, n)
    BY <1>2, <2>1 DEF Fits, WillShow, Is
  <2>5. QED
    BY <1>4, <2>1, <2>2, <2>3, <2>4
<1>22. CASE HandleRemoved(w) \/ DropAll(w)
  <2>1. BoundIds' = {} /\ task'[w] = NoTask /\ inbound' = inbound
    BY <1>1, <1>22, AllGo
  <2>2. Fits(w)'
    BY <1>2, <2>1 DEF Fits, Is
  <2>3. QED
    BY <1>4, <2>1, <2>2
<1>23. CASE DropNode(w)
  <2>1. Is(w, {"delete"}, {"drop"}) /\ inbound' = inbound
    BY <1>1, <1>23, DropStep
  <2>2. /\ \A m \in BoundIds' : m \in BoundIds /\ node'[m] = node[m]
        /\ task'[w] = NoTask \/ Is(w, {"delete"}, {"drop"})'
    BY <1>1, <1>23, DropStep DEF Is
  <2>3. Fits(w)' /\ \A n : ~WillShow(w, n)
    BY <1>2, <2>1, <2>2 DEF Fits, WillShow, Is
  <2>4. QED
    BY <1>4, <2>1, <2>2, <2>3
<1>24. CASE \E f \in Families : UpdateFamily(w, f)
  BY <1>24, UpdateKeeps
<1>25. QED
  BY <1>6, <1>7, <1>8, <1>9, <1>10, <1>11, <1>12, <1>13, <1>14, <1>15, <1>16, <1>17, <1>18,
     <1>19, <1>20, <1>21, <1>22, <1>23, <1>24, RewriteKeeps, WriteKeeps DEF Works, Quiet

-----------------------------------------------------------------------------
(* The properties *)

\* Every step keeps the invariant.
LEMMA NodesKeep ==
    ASSUME NodesInv, NEW w \in Tasks,
           \/ /\ MayAsk(w)
              /\ \/ AskAdd(w) \/ AskUpdate(w) \/ AskRemove(w) \/ AskSync(w)
                 \/ AskDelete(w) \/ AskClear(w) \/ AskEdit(w)
           \/ Works(w)
    PROVE  KindInv' /\ FamilyInv' /\ DeletionInv' /\ StepInv' /\ ContentInv'
<1>1. NodesTyped
  BY DEF NodesInv
<1>2. CASE Works(w)
  BY <1>2, KindKept, FamilyKept, DeletionKept, StepKept, ContentKept
<1>3. CASE ~Works(w)
  <2>1. PICK t : AskedFor(t) /\ Starts(w, t)
    BY <1>1, <1>3, Asked
  <2>2. QED
    BY <1>3, <2>1, RequestsKeep
<1>4. QED
  BY <1>2, <1>3

\* What the nodes of an inbound owe their users, and what the requests under
\* way still owe them, holds in every state.
THEOREM NodesInvariant == NodesSpec => []NodesInv
<1>1. NodesInv /\ NodesNext => NodesInv'
  <2> SUFFICES ASSUME NodesInv, NodesNext PROVE NodesInv'
    OBVIOUS
  <2>1. PICK w \in Tasks :
           \/ /\ MayAsk(w)
              /\ \/ AskAdd(w) \/ AskUpdate(w) \/ AskRemove(w) \/ AskSync(w)
                 \/ AskDelete(w) \/ AskClear(w) \/ AskEdit(w)
           \/ Works(w)
    BY DEF NodesNext, Works, Quiet
  <2>2. NodesTyped'
    BY TypedNext DEF NodesInv
  <2>3. KindInv' /\ FamilyInv' /\ DeletionInv' /\ StepInv' /\ ContentInv'
    BY <2>1, NodesKeep
  <2>4. QED
    BY <2>2, <2>3 DEF NodesInv
<1>2. NodesInv /\ UNCHANGED nodeVars => NodesInv'
  <2> SUFFICES ASSUME NodesInv, UNCHANGED nodeVars PROVE NodesInv'
    OBVIOUS
  <2>1. UNCHANGED <<inbound, node, task, asks, blame>>
    BY DEF nodeVars
  <2>2. NodesTyped' /\ KindInv' /\ FamilyInv'
    BY <2>1 DEF NodesInv, NodesTyped, KindInv, FamilyInv, Clear, Is, Distinct, BoundIds, RowsOf
  <2>3. DeletionInv' /\ StepInv'
    BY <2>1 DEF NodesInv, DeletionInv, StepInv, TakesAll, RemovedIsGone, OneIsLeft, UpdateCalls,
                Dropping, Served, CallServed, InStep, Removing, Creating, Removes, Creates,
                Clear, Is, BoundIds, RowsOf
  <2>4. ContentInv'
    BY <2>1 DEF NodesInv, ContentInv, Shows, Fits, WillShow, Clear, Is, BoundIds, RowsOf
  <2>5. QED
    BY <2>2, <2>3, <2>4 DEF NodesInv
<1>3. QED
  BY <1>1, <1>2, NodesInitInv, PTL DEF NodesSpec

\* An inbound has one node per family, or a reason why not (handleAdded's
\* listing, the sync's fingerprints, UpdateNode).
THEOREM FamiliesStayDistinct == NodesSpec => []OneNodePerFamily
<1>1. NodesInv => OneNodePerFamily
  BY DEF NodesInv, FamilyInv, OneNodePerFamily, Explained, Clear, FamilyReasons
<1>2. QED
  BY <1>1, NodesInvariant, PTL

\* When nobody is at work, the inbound runs exactly if the panel has a node of
\* it, or there is a reason why not (HandleInbounds, the listener,
\* syncInboundsToNodes, cleanupRemoteInboundForNode).
THEOREM PanelAndAgentAgree == NodesSpec => []PanelMatchesAgent
<1>1. NodesInv => PanelMatchesAgent
  <2> SUFFICES ASSUME NodesInv, NobodyWorks, Clear(AgentReasons \cup {"unscanned"})
               PROVE  InStep
    BY DEF PanelMatchesAgent, Explained, Clear, AgentReasons
  <2>1. ~Creating /\ ~Removing
    BY DEF NobodyWorks, Creating, Removing, Creates, Removes, Is
  <2>2. QED
    BY <2>1 DEF NodesInv, StepInv, Served
<1>2. QED
  BY <1>1, NodesInvariant, PTL

\* When nobody is at work, a node shows the content of the inbound under the
\* right address, or there is a reason why not (handleUpdated,
\* applyRelayNodesOnUpdate, UpdateNode, refreshRelayOrigServerAddress).
THEOREM NodesShowContent == NodesSpec => []NodesShowTheirInbound
<1>1. NodesInv => NodesShowTheirInbound
  <2> SUFFICES ASSUME NodesInv, NobodyWorks, Clear(ContentReasons), NEW n \in BoundIds,
                      inbound # Gone
               PROVE  Shown(node[n])
    BY DEF NodesShowTheirInbound, Explained, Clear, ContentReasons
  <2>1. \A w \in Tasks : ~WillShow(w, n)
    BY DEF NobodyWorks, WillShow, Is
  <2>2. QED
    BY <2>1 DEF NodesInv, ContentInv, Shows, Shown, Placed
<1>2. QED
  BY <1>1, NodesInvariant, PTL
=============================================================================
