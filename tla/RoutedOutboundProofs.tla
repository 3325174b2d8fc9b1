------------------------ MODULE RoutedOutboundProofs ------------------------
(***************************************************************************)
(* What a panel says of its routed nodes and what the agent does, for any  *)
(* number of nodes, admins and background jobs.  A mark is looked at alone *)
(* until something hurts it: two tasks on it, a failed call, a rule        *)
(* removed by an old index or overwritten by an old copy.  Until then one  *)
(* task at most is at work there, and how far it has come says what the    *)
(* agent has of the node.  Every step is shown to leave the other marks as *)
(* they were (Serves), and its own as its task says.                       *)
(***************************************************************************)
EXTENDS RoutedOutbound, SequenceTheorems, FiniteSetTheorems, TLAPS

-----------------------------------------------------------------------------
(* The inductive invariant *)

RuleType == [mark : Marks, users : SUBSET Emails]
RoutedTasks == {"none", "create", "record", "delete", "suspend", "resume", "subscribe",
                "unsubscribe"}
RoutedPcs == {"idle", "stop", "client", "outbound", "rule", "row", "owner", "undoOutbound",
              "undoClient",
              "read", "remove", "clients", "flag", "batch", "upsert", "upsertThenSet",
              "get", "set"}
JobType  == [task : RoutedTasks, pc : RoutedPcs, id : Nat, mark : Marks, who : Emails,
             seen : Seq(RuleType)]

\* The types of all variables; ids are given out once, and the subaccounts of a node
\* may outlive it.
RoutedTyped ==
    /\ rules \in Seq(RuleType) /\ outs \subseteq Marks /\ clients \subseteq Marks \X Emails
    /\ ids \in Nat /\ DOMAIN routed \subseteq 1..ids /\ routed \in [DOMAIN routed -> Marks]
    /\ DOMAIN subs \subseteq (1..ids) \X Emails /\ subs \in [DOMAIN subs -> BOOLEAN]
    /\ job \in [Admins -> JobType] /\ \A a \in Admins : job[a].task = "none" => job[a] = NoJob
    /\ \A a \in Admins : /\ job[a].id \in 0..ids
                         /\ job[a].id \in DOMAIN routed => routed[job[a].id] = job[a].mark
                         /\ job[a].id = 0 => job[a].task \in {"none", "create"}
    /\ holder \in Admins \cup {Free} /\ dirty \in BOOLEAN /\ hurt \subseteq Marks
    /\ failures \in 0..MaxFailures

\* Whoever is between GET and SET holds the lock, and has the rules as they are
\* unless somebody wrote them without it.
LockInv ==
    /\ holder = Free => ~dirty
    /\ \A a \in Admins : (job[a].task = "subscribe" /\ job[a].pc = "set") <=> holder = a
    /\ \A a \in Admins : holder = a /\ ~dirty => job[a].seen = rules

On(a, m)  == job[a].task # "none" /\ job[a].mark = m
Here(m)   == \E i \in DOMAIN routed : routed[i] = m
KeysOf(m) == {key \in DOMAIN subs : key[1] \in DOMAIN routed /\ routed[key[1]] = m}
Nothing(m) == Users(rules, m) = {} /\ m \notin outs /\ clients \cap ({m} \X Emails) = {}
InRule(m, who) == \E us \in Users(rules, m) : who \in us

\* A node of the panel is on the agent, but for what is being done about some
\* of its users; a private node has a subaccount of its creator.
Stands(m, but) ==
    /\ m \in outs /\ (m \notin PrivateMarks => Users(rules, m) # {})
    /\ m \in PrivateMarks => \E key \in KeysOf(m) : key[2] = "creator"
    /\ \A key \in KeysOf(m) : subs[key] /\ key[2] \notin but =>
          <<m, key[2]>> \in clients /\ InRule(m, key[2])
    /\ \A e \in Emails : <<m, e>> \in clients =>
          e \in {"creator"} \cup but \/ \E key \in KeysOf(m) : key[2] = e

\* How far each task has come with its node.
Creating(a, m) ==
    /\ ~Here(m) /\ job[a].who = "creator"
    /\ job[a].pc \in {"client", "outbound", "rule", "row"}
    /\ <<m, "member">> \notin clients
    /\ <<m, "creator">> \in clients <=> job[a].pc # "client"
    /\ m \in outs <=> job[a].pc \in {"rule", "row"}
    /\ IF job[a].pc = "row" THEN InRule(m, "creator") ELSE Users(rules, m) = {}

\* The row is there, the subaccount of its creator not yet.
Recording(a, m) ==
    /\ job[a].who = "creator" /\ job[a].pc = "owner" /\ KeysOf(m) = {}
    /\ m \in outs /\ InRule(m, "creator")
    /\ <<m, "creator">> \in clients /\ <<m, "member">> \notin clients

Erasing(a, m) ==
    /\ job[a].who = "creator"
    /\ job[a].pc \in {"read", "remove", "outbound", "clients", "row"}
    /\ job[a].pc \in {"outbound", "clients", "row"} => Users(rules, m) = {}
    /\ job[a].pc \in {"clients", "row"} => m \notin outs
    /\ \A e \in Emails : <<m, e>> \in clients =>
          /\ job[a].pc # "row"
          /\ (e = "creator" /\ m \notin PrivateMarks) \/ \E key \in KeysOf(m) : key[2] = e

Suspending(a, m) ==
    /\ m \in PrivateMarks /\ job[a].who = "creator"
    /\ job[a].pc \in {"read", "remove", "client", "flag"}
    /\ Stands(m, {"creator"})

Resuming(a, m) ==
    /\ m \in PrivateMarks /\ job[a].who = "creator" /\ job[a].pc \in {"client", "rule", "flag"}
    /\ Stands(m, {"creator"})
    /\ job[a].pc # "client" => <<m, "creator">> \in clients
    /\ job[a].pc = "flag" => InRule(m, "creator")

Subscribing(a, m) ==
    /\ m \notin PrivateMarks /\ job[a].who = "member"
    /\ job[a].pc \in {"batch", "client", "upsert", "upsertThenSet", "get", "set", "stop"}
    /\ Stands(m, IF job[a].pc \in {"batch", "client", "stop"} THEN {} ELSE {"member"})
    /\ job[a].pc \in {"upsert", "upsertThenSet", "get", "set"} => <<m, "member">> \in clients
    /\ job[a].pc = "upsert" => InRule(m, "member")
    /\ job[a].pc \in {"get", "set"} => <<job[a].id, "member">> \in DOMAIN subs

Unsubscribing(a, m) ==
    /\ job[a].pc \in {"rule", "client", "flag"} /\ Stands(m, {job[a].who})
    /\ <<job[a].id, job[a].who>> \in DOMAIN subs

Works(a, m) ==
    \/ job[a].task = "create" /\ Creating(a, m)
    \/ /\ job[a].id \in DOMAIN routed /\ routed[job[a].id] = m
       /\ \/ job[a].task = "record" /\ Recording(a, m)
          \/ job[a].task = "delete" /\ Erasing(a, m)
          \/ job[a].task = "suspend" /\ Suspending(a, m)
          \/ job[a].task = "resume" /\ Resuming(a, m)
          \/ job[a].task = "subscribe" /\ Subscribing(a, m)
          \/ job[a].task = "unsubscribe" /\ Unsubscribing(a, m)

\* A mark that nothing went over: one task, one row and one rule at most, and
\* what is on the agent is what the panel has and the task has done.
MarkInv(m) ==
    /\ \A a, b \in Admins : On(a, m) /\ On(b, m) => a = b
    /\ \A i, j \in DOMAIN routed : routed[i] = m /\ routed[j] = m => i = j
    /\ ~Several(rules, m)
    /\ m \in PrivateMarks => \A key \in KeysOf(m) : key[2] = "creator"
    /\ (\A a \in Admins : ~On(a, m)) => IF Here(m) THEN Stands(m, {}) ELSE Nothing(m)
    /\ \A a \in Admins : On(a, m) => Works(a, m)

MarksInv == \A m \in Marks \ hurt : MarkInv(m)

-----------------------------------------------------------------------------
(* Lists of rules *)

\* RemoveAt, element by element.
LEMMA RemovedElements ==
    ASSUME NEW S, NEW s \in Seq(S), NEW k \in 1..Len(s)
    PROVE  /\ RemoveAt(s, k) \in Seq(S) /\ Len(RemoveAt(s, k)) = Len(s) - 1
           /\ \A i \in 1..(Len(s) - 1) :
                 RemoveAt(s, k)[i] = IF i < k THEN s[i] ELSE s[i + 1]
<1> DEFINE l == SubSeq(s, 1, k-1)
           r == SubSeq(s, k+1, Len(s))
<1>0. Len(s) \in Nat /\ \A i \in 1..Len(s) : s[i] \in S
  BY ElementOfSeq, LenProperties
<1>1. l \in Seq(S) /\ Len(l) = k-1 /\ \A i \in 1..(k-1) : l[i] = s[i]
  BY <1>0, SubSeqProperties
<1>2. r \in Seq(S) /\ Len(r) = Len(s) - k /\ \A i \in 1..(Len(s)-k) : r[i] = s[k+i]
  BY <1>0, SubSeqProperties
<1>3. RemoveAt(s, k) = l \o r
  BY DEF RemoveAt
<1> HIDE DEF l, r
<1>4. /\ l \o r \in Seq(S) /\ Len(l \o r) = Len(l) + Len(r)
      /\ \A i \in 1..(Len(l)+Len(r)) : (l \o r)[i] = IF i <= Len(l) THEN l[i] ELSE r[i - Len(l)]
  BY <1>1, <1>2, ConcatProperties
<1>5. k \in Int /\ Len(l) + Len(r) = Len(s) - 1
  BY <1>0, <1>1, <1>2
<1>6. ASSUME NEW i \in 1..(Len(s) - 1)
      PROVE  (l \o r)[i] = IF i < k THEN s[i] ELSE s[i + 1]
  <2>1. CASE i < k
    BY <1>1, <1>4, <1>5, <2>1
  <2>2. CASE ~(i < k)
    <3>1. i - Len(l) \in 1..(Len(s)-k) /\ k + (i - Len(l)) = i + 1
      BY <1>0, <1>1, <1>5, <2>2
    <3>2. (l \o r)[i] = r[i - Len(l)]
      BY <1>1, <1>4, <1>5, <2>2
    <3>3. r[i - Len(l)] = s[k + (i - Len(l))]
      BY <1>2, <3>1
    <3> QED BY <2>2, <3>1, <3>2, <3>3
  <2> QED BY <2>1, <2>2
<1> QED BY <1>3, <1>4, <1>5, <1>6

\* Removing a rule leaves those of the other marks, and no other of its own.
LEMMA RemovedRule ==
    ASSUME NEW rs \in Seq(RuleType), NEW k \in DOMAIN rs, NEW m
    PROVE  /\ RemoveAt(rs, k) \in Seq(RuleType)
           /\ m # rs[k].mark => /\ Users(RemoveAt(rs, k), m) = Users(rs, m)
                                /\ Several(RemoveAt(rs, k), m) = Several(rs, m)
           /\ m = rs[k].mark /\ ~Several(rs, m) => /\ Users(RemoveAt(rs, k), m) = {}
                                                   /\ ~Several(RemoveAt(rs, k), m)
<1> DEFINE qs == RemoveAt(rs, k)
<1>1. /\ Len(rs) \in Nat /\ DOMAIN rs = 1..Len(rs) /\ k \in 1..Len(rs)
      /\ qs \in Seq(RuleType) /\ Len(qs) = Len(rs) - 1
      /\ \A i \in 1..(Len(rs) - 1) : qs[i] = IF i < k THEN rs[i] ELSE rs[i + 1]
  BY LenProperties, RemovedElements
<1>2. DOMAIN qs = 1..(Len(rs) - 1)
  BY <1>1, LenProperties
<1> HIDE DEF qs
<1> DEFINE from(i) == IF i < k THEN i ELSE i + 1
           to(i)   == IF i < k THEN i ELSE i - 1
<1>3. \A i \in DOMAIN qs : from(i) \in DOMAIN rs /\ from(i) # k /\ qs[i] = rs[from(i)]
  BY <1>1, <1>2
<1>4. \A i, j \in DOMAIN qs : i # j => from(i) # from(j)
  BY <1>1, <1>2
<1>5. \A i \in DOMAIN rs : i # k => to(i) \in DOMAIN qs /\ qs[to(i)] = rs[i]
  BY <1>1, <1>2
<1>6. \A i, j \in DOMAIN rs : i # k /\ j # k /\ i # j => to(i) # to(j)
  BY <1>1
<1> HIDE DEF from, to
<1>7. CASE m # rs[k].mark
  <2>1. \A i \in Positions(rs, m) : to(i) \in Positions(qs, m) /\ qs[to(i)] = rs[i] /\ i # k
    BY <1>5, <1>7 DEF Positions
  <2>2. \A i \in Positions(qs, m) : from(i) \in Positions(rs, m) /\ qs[i] = rs[from(i)]
    BY <1>3 DEF Positions
  <2>3. Users(qs, m) = Users(rs, m)
    BY <2>1, <2>2 DEF Users
  <2>4. Several(qs, m) = Several(rs, m)
    BY <1>4, <1>6, <2>1, <2>2 DEF Several, Positions
  <2> QED BY <1>1, <1>7, <2>3, <2>4 DEF qs
<1>8. CASE m = rs[k].mark /\ ~Several(rs, m)
  <2>1. \A i \in Positions(rs, m) : i = k
    BY <1>8 DEF Several, Positions
  <2>2. Positions(qs, m) = {}
    BY <1>3, <2>1 DEF Positions
  <2> QED BY <1>1, <1>8, <2>2 DEF Users, Several, qs
<1> QED BY <1>1, <1>7, <1>8 DEF qs

\* From one list to another nothing changes but for one mark; there, this user is
\* the only one, joins those of the one rule there was, or leaves them.
Elsewhere(rs, qs, mark) ==
    \A m : m # mark => Users(qs, m) = Users(rs, m) /\ Several(qs, m) = Several(rs, m)
Starts(rs, qs, mark, who) ==
    ~HasRule(rs, mark) => ~Several(qs, mark) /\ Users(qs, mark) = {{who}}
Joins(rs, qs, mark, who) ==
    ~Several(rs, mark) =>
       ~Several(qs, mark) /\ \A us \in Users(rs, mark) : us \cup {who} \in Users(qs, mark)
Leaves(rs, qs, mark, who) ==
    ~Several(rs, mark) =>
       ~Several(qs, mark) /\ \A us \in Users(rs, mark) : us \ {who} \in Users(qs, mark)

\* Lists that agree at the positions of a mark agree on its users.
LEMMA SameUsers ==
    ASSUME NEW rs, NEW qs, NEW m, Positions(qs, m) = Positions(rs, m),
           \A i \in Positions(rs, m) : qs[i].users = rs[i].users
    PROVE  Users(qs, m) = Users(rs, m) /\ Several(qs, m) = Several(rs, m)
<1>1. \A us : us \in Users(qs, m) <=> us \in Users(rs, m)
  BY DEF Users
<1> QED BY <1>1 DEF Several

\* One position, one set of users.
LEMMA OnlyRule ==
    ASSUME NEW rs, NEW m, NEW k, Positions(rs, m) = {k}
    PROVE  Users(rs, m) = {rs[k].users} /\ ~Several(rs, m)
<1>1. \A us : us \in Users(rs, m) <=> us = rs[k].users
  BY DEF Users
<1>2. \A i \in Positions(rs, m) : i = k
  OBVIOUS
<1>3. Users(rs, m) = {rs[k].users}
  BY <1>1
<1> QED BY <1>2, <1>3 DEF Several

\* Appending a rule starts it, if there was none, and leaves the other marks.
LEMMA AppendedRule ==
    ASSUME NEW rs \in Seq(RuleType), NEW mark \in Marks, NEW who \in Emails,
           NEW qs, qs = Append(rs, Rule(mark, who))
    PROVE  qs \in Seq(RuleType) /\ Elsewhere(rs, qs, mark) /\ Starts(rs, qs, mark, who)
<1>1. Rule(mark, who) \in RuleType /\ Rule(mark, who).mark = mark /\ Rule(mark, who).users = {who}
  BY DEF Rule, RuleType
<1>2. /\ qs \in Seq(RuleType) /\ Len(qs) = Len(rs) + 1 /\ Len(rs) \in Nat
      /\ \A i \in 1..Len(rs) : qs[i] = rs[i]
      /\ qs[Len(rs) + 1] = Rule(mark, who)
      /\ DOMAIN rs = 1..Len(rs) /\ DOMAIN qs = 1..(Len(rs) + 1)
  BY <1>1, AppendProperties, LenProperties
<1>3. ASSUME NEW m, m # mark
      PROVE  Users(qs, m) = Users(rs, m) /\ Several(qs, m) = Several(rs, m)
  <2>1. Positions(qs, m) = Positions(rs, m) /\ \A i \in Positions(rs, m) : qs[i] = rs[i]
    BY <1>1, <1>2, <1>3 DEF Positions
  <2>2. Positions(qs, m) = Positions(rs, m)
        /\ \A i \in Positions(rs, m) : qs[i].users = rs[i].users
    BY <2>1
  <2> QED BY <2>2, SameUsers, Zenon
<1>4. ASSUME ~HasRule(rs, mark)
      PROVE  ~Several(qs, mark) /\ Users(qs, mark) = {{who}}
  <2>1. \A i : i \in Positions(qs, mark) <=> i = Len(rs) + 1
    BY <1>1, <1>2, <1>4 DEF Positions, HasRule
  <2>2. qs[Len(rs) + 1].users = {who}
    BY <1>1, <1>2
  <2>3. PICK k : k = Len(rs) + 1
    OBVIOUS
  <2>4. Positions(qs, mark) = {k} /\ qs[k].users = {who}
    BY <2>1, <2>2, <2>3
  <2>5. \A ps : Positions(ps, mark) = {k} => Users(ps, mark) = {ps[k].users} /\ ~Several(ps, mark)
    BY OnlyRule, Zenon
  <2> QED BY <2>4, <2>5, Zenon
<1>5. Elsewhere(rs, qs, mark)
  BY <1>3, Zenon DEF Elsewhere
<1>6. Starts(rs, qs, mark, who)
  BY <1>4, Zenon DEF Starts
<1> QED BY <1>2, <1>5, <1>6

\* The position First chooses is one.
LEMMA FirstIsOne ==
    ASSUME NEW rs \in Seq(RuleType), NEW m, HasRule(rs, m)
    PROVE  First(rs, m) \in Positions(rs, m)
<1>1. Positions(rs, m) \subseteq Nat /\ Positions(rs, m) # {}
  BY LenProperties DEF Positions, HasRule
<1>2. PICK i \in Positions(rs, m) :
         \A j \in Positions(rs, m) : ~(<<j, i>> \in OpToRel(<, Nat))
  BY <1>1, NatLessThanWellFounded, WFMin
<1>3. ASSUME NEW j \in Positions(rs, m) PROVE i <= j
  <2>1. i \in Nat /\ j \in Nat
    BY <1>1
  <2>2. CASE j < i
    <3>1. <<j, i>> \in Nat \X Nat /\ <<j, i>>[1] = j /\ <<j, i>>[2] = i
      BY <2>1
    <3>2. <<j, i>>[1] < <<j, i>>[2]
      BY <2>2, <3>1
    <3>3. <<j, i>> \in OpToRel(<, Nat)
      BY <3>1, <3>2, Zenon DEF OpToRel
    <3> QED BY <1>2, <3>3
  <2> QED BY <2>1, <2>2
<1> QED BY <1>3 DEF First

\* What LeaveRule writes.
WithoutUser(rs, m, who) ==
    IF HasRule(rs, m) THEN [rs EXCEPT ![First(rs, m)].users = @ \ {who}] ELSE rs

\* Changing the users of a rule: from rs to qs, at k.
LEMMA ChangedElsewhere ==
    ASSUME NEW rs, NEW qs, DOMAIN qs = DOMAIN rs, NEW k \in DOMAIN rs,
           \A i \in DOMAIN rs : i # k => qs[i] = rs[i],
           NEW m, rs[k].mark # m, qs[k].mark # m
    PROVE  Users(qs, m) = Users(rs, m) /\ Several(qs, m) = Several(rs, m)
<1>1. Positions(qs, m) = Positions(rs, m)
  BY DEF Positions
<1>2. \A i \in Positions(rs, m) : qs[i].users = rs[i].users
  BY DEF Positions
<1> QED BY <1>1, <1>2, SameUsers

\* The user is in the rule of the mark afterwards, with those who were.
LEMMA UserJoins ==
    ASSUME NEW rs \in Seq(RuleType), NEW mark \in Marks, NEW who \in Emails,
           NEW qs, qs = WithUser(rs, mark, who)
    PROVE  qs \in Seq(RuleType) /\ Elsewhere(rs, qs, mark) /\ Joins(rs, qs, mark, who)
<1>1. CASE HasRule(rs, mark)
  <2>1. PICK k \in DOMAIN rs : rs[k].mark = mark /\ k = First(rs, mark)
    BY <1>1, FirstIsOne DEF Positions
  <2>2. rs[k] \in RuleType
    BY LenProperties, ElementOfSeq
  <2>3. PICK r : r = [rs[k] EXCEPT !.users = @ \cup {who}]
    OBVIOUS
  <2>4. r \in RuleType /\ r.mark = mark /\ r.users = rs[k].users \cup {who}
    BY <2>1, <2>2, <2>3 DEF RuleType
  <2>5. qs = [rs EXCEPT ![k] = r]
    BY <1>1, <2>1, <2>3 DEF WithUser
  <2>6. [rs EXCEPT ![k] = r] \in Seq(RuleType)
    BY <2>4, LenProperties, ExceptSeq
  <2>7. /\ DOMAIN qs = DOMAIN rs /\ \A i \in DOMAIN rs : i # k => qs[i] = rs[i]
        /\ qs[k].mark = mark /\ qs[k].users = r.users
    BY <2>4, <2>5
  <2>8. ASSUME NEW m, m # mark
        PROVE  Users(qs, m) = Users(rs, m) /\ Several(qs, m) = Several(rs, m)
    BY <2>1, <2>7, <2>8, ChangedElsewhere
  <2>9. ASSUME ~Several(rs, mark)
        PROVE  ~Several(qs, mark) /\ \A us \in Users(rs, mark) : us \cup {who} \in Users(qs, mark)
    <3>1. \A i : i \in Positions(rs, mark) <=> i = k
      BY <2>1, <2>9 DEF Several, Positions
    <3>2. \A i : i \in Positions(qs, mark) <=> i = k
      BY <2>1, <2>7, <3>1 DEF Positions
    <3>3. /\ \A us : us \in Users(rs, mark) <=> us = rs[k].users
          /\ \A us : us \in Users(qs, mark) <=> us = qs[k].users
          /\ ~Several(qs, mark)
      BY <3>1, <3>2 DEF Users, Several
    <3>4. \A v : v \in Users(qs, mark) <=> v = rs[k].users \cup {who}
      BY <2>4, <2>7, <3>3
    <3> QED BY <3>3, <3>4
  <2>10. Elsewhere(rs, qs, mark) /\ Joins(rs, qs, mark, who)
    BY <2>8, <2>9, Zenon DEF Elsewhere, Joins
  <2> QED BY <2>5, <2>6, <2>10
<1>2. CASE ~HasRule(rs, mark)
  <2>1. qs = rs /\ Users(rs, mark) = {}
    BY <1>2 DEF HasRule, Users, WithUser
  <2> QED BY <2>1 DEF Elsewhere, Joins
<1> QED BY <1>1, <1>2

\* The user is in no rule of the mark afterwards, the others are as before.
LEMMA UserLeaves ==
    ASSUME NEW rs \in Seq(RuleType), NEW mark \in Marks, NEW who \in Emails,
           NEW qs, qs = WithoutUser(rs, mark, who)
    PROVE  qs \in Seq(RuleType) /\ Elsewhere(rs, qs, mark) /\ Leaves(rs, qs, mark, who)
<1>1. CASE HasRule(rs, mark)
  <2>1. PICK k \in DOMAIN rs : rs[k].mark = mark /\ k = First(rs, mark)
    BY <1>1, FirstIsOne DEF Positions
  <2>2. rs[k] \in RuleType
    BY LenProperties, ElementOfSeq
  <2>3. PICK r : r = [rs[k] EXCEPT !.users = @ \ {who}]
    OBVIOUS
  <2>4. r \in RuleType /\ r.mark = mark /\ r.users = rs[k].users \ {who}
    BY <2>1, <2>2, <2>3 DEF RuleType
  <2>5. qs = [rs EXCEPT ![k] = r]
    BY <1>1, <2>1, <2>3 DEF WithoutUser
  <2>6. [rs EXCEPT ![k] = r] \in Seq(RuleType)
    BY <2>4, LenProperties, ExceptSeq
  <2>7. /\ DOMAIN qs = DOMAIN rs /\ \A i \in DOMAIN rs : i # k => qs[i] = rs[i]
        /\ qs[k].mark = mark /\ qs[k].users = r.users
    BY <2>4, <2>5
  <2>8. ASSUME NEW m, m # mark
        PROVE  Users(qs, m) = Users(rs, m) /\ Several(qs, m) = Several(rs, m)
    BY <2>1, <2>7, <2>8, ChangedElsewhere
  <2>9. ASSUME ~Several(rs, mark)
        PROVE  ~Several(qs, mark) /\ \A us \in Users(rs, mark) : us \ {who} \in Users(qs, mark)
    <3>1. \A i : i \in Positions(rs, mark) <=> i = k
      BY <2>1, <2>9 DEF Several, Positions
    <3>2. \A i : i \in Positions(qs, mark) <=> i = k
      BY <2>1, <2>7, <3>1 DEF Positions
    <3>3. /\ \A us : us \in Users(rs, mark) <=> us = rs[k].users
          /\ \A us : us \in Users(qs, mark) <=> us = qs[k].users
          /\ ~Several(qs, mark)
      BY <3>1, <3>2 DEF Users, Several
    <3>4. \A v : v \in Users(qs, mark) <=> v = rs[k].users \ {who}
      BY <2>4, <2>7, <3>3
    <3> QED BY <3>3, <3>4
  <2>10. Elsewhere(rs, qs, mark) /\ Leaves(rs, qs, mark, who)
    BY <2>8, <2>9, Zenon DEF Elsewhere, Leaves
  <2> QED BY <2>5, <2>6, <2>10
<1>2. CASE ~HasRule(rs, mark)
  <2>1. qs = rs /\ Users(rs, mark) = {}
    BY <1>2 DEF HasRule, Users, WithoutUser
  <2> QED BY <2>1 DEF Elsewhere, Leaves
<1> QED BY <1>1, <1>2

\* Who is in some rule afterwards.
LEMMA JoinedUsers ==
    ASSUME NEW m, NEW who, \A us \in Users(rules, m) : us \cup {who} \in Users(rules', m)
    PROVE  /\ \A e : InRule(m, e) => InRule(m, e)'
           /\ Users(rules, m) # {} => InRule(m, who)' /\ Users(rules', m) # {}
<1>1. ASSUME NEW e, InRule(m, e) PROVE InRule(m, e)'
  <2>1. PICK us \in Users(rules, m) : e \in us
    BY <1>1 DEF InRule
  <2>2. us \cup {who} \in Users(rules', m) /\ e \in us \cup {who}
    BY <2>1
  <2> QED BY <2>2 DEF InRule
<1>2. ASSUME NEW us \in Users(rules, m) PROVE InRule(m, who)'
  <2>1. us \cup {who} \in Users(rules', m) /\ who \in us \cup {who}
    OBVIOUS
  <2> QED BY <2>1 DEF InRule
<1> QED BY <1>1, <1>2

LEMMA LeftUsers ==
    ASSUME NEW m, NEW who, \A us \in Users(rules, m) : us \ {who} \in Users(rules', m)
    PROVE  /\ \A e : e # who /\ InRule(m, e) => InRule(m, e)'
           /\ Users(rules, m) # {} => Users(rules', m) # {}
<1>1. ASSUME NEW e, e # who, InRule(m, e) PROVE InRule(m, e)'
  <2>1. PICK us \in Users(rules, m) : e \in us
    BY <1>1 DEF InRule
  <2>2. us \ {who} \in Users(rules', m) /\ e \in us \ {who}
    BY <1>1, <2>1
  <2> QED BY <2>2 DEF InRule
<1> QED BY <1>1

-----------------------------------------------------------------------------
(* One admin moves *)

Alone(a) == \A b \in Admins : b # a => job'[b] = job[b]

\* The task goes on, at pc.
Moves(a, pc) ==
    /\ Alone(a) /\ job' \in [Admins -> JobType]
    /\ job'[a].pc = pc /\ job'[a].task = job[a].task /\ job'[a].id = job[a].id
    /\ job'[a].mark = job[a].mark /\ job'[a].who = job[a].who

Rests(a) == Alone(a) /\ job' \in [Admins -> JobType] /\ job'[a] = NoJob

\* The same mark, or none.
Carries(a) == Rests(a) \/ \E pc : Moves(a, pc)

\* The job of nobody.
LEMMA NobodyTyped ==
    NoJob \in JobType /\ NoJob.task = "none" /\ NoJob.id = 0 /\ NoJob.pc = "idle"
<1>1. (CHOOSE m \in Marks : TRUE) \in Marks
  BY RoutedAssumption
<1> DEFINE m0 == CHOOSE m \in Marks : TRUE
           none == <<>>
<1>2. NoJob = [task |-> "none", pc |-> "idle", id |-> 0, mark |-> m0, who |-> "creator",
               seen |-> none]
  BY DEF NoJob
<1>3. m0 \in Marks
  BY <1>1
<1>4. none \in Seq(RuleType)
  BY EmptySeq
<1> HIDE DEF m0, none
<1>5. "none" \in RoutedTasks
  BY DEF RoutedTasks
<1>6. "creator" \in Emails
  BY DEF Emails
<1>7. "idle" \in RoutedPcs
  BY DEF RoutedPcs
<1>8. NoJob \in JobType
  BY <1>2, <1>3, <1>4, <1>5, <1>6, <1>7 DEF JobType
<1>9. NoJob.task = "none" /\ NoJob.id = 0 /\ NoJob.pc = "idle"
  BY <1>2
<1> QED BY <1>8, <1>9

\* What Goto, reading the rules and Done do to a job.
LEMMA JobGoes ==
    ASSUME RoutedTyped, NEW a \in Admins, NEW pc \in RoutedPcs, Goto(a, pc)
    PROVE  Moves(a, pc)
BY DEF RoutedTyped, JobType, Goto, Moves, Alone

LEMMA JobSees ==
    ASSUME RoutedTyped, NEW a \in Admins, NEW pc \in RoutedPcs, NEW seen \in Seq(RuleType),
           job' = [job EXCEPT ![a].pc = pc, ![a].seen = seen]
    PROVE  Moves(a, pc) /\ job'[a].seen = seen
<1> DEFINE i == [job[a] EXCEPT !.pc = pc]
           j == [i EXCEPT !.seen = seen]
<1>1. job \in [Admins -> JobType] /\ job[a] \in JobType
  BY DEF RoutedTyped
<1>2. job' = [job EXCEPT ![a] = j]
  BY <1>1
<1>3. /\ i \in JobType /\ i.pc = pc /\ i.task = job[a].task /\ i.id = job[a].id
      /\ i.mark = job[a].mark /\ i.who = job[a].who
  BY <1>1 DEF JobType
<1> HIDE DEF i
<1>4. /\ j \in JobType /\ j.seen = seen /\ j.pc = i.pc /\ j.task = i.task /\ j.id = i.id
      /\ j.mark = i.mark /\ j.who = i.who
  BY <1>3 DEF JobType
<1> HIDE DEF j
<1>5. job'[a] = j /\ job' \in [Admins -> JobType] /\ \A b \in Admins : b # a => job'[b] = job[b]
  BY <1>1, <1>2, <1>4
<1> QED BY <1>3, <1>4, <1>5 DEF Moves, Alone

LEMMA JobEnds ==
    ASSUME RoutedTyped, NEW a \in Admins, Done(a)
    PROVE  Rests(a)
BY NobodyTyped DEF RoutedTyped, Done, Rests, Alone

\* What RoutedTyped says of one admin's job.
JobFits(b) == /\ job[b].task = "none" => job[b] = NoJob
              /\ job[b].id \in 0..ids
              /\ job[b].id \in DOMAIN routed => routed[job[b].id] = job[b].mark
              /\ job[b].id = 0 => job[b].task \in {"none", "create"}

\* The jobs keep their types when one goes on, or is over.
LEMMA JobsAfter ==
    ASSUME RoutedTyped, NEW a \in Admins, job[a].task # "none", Carries(a), UNCHANGED <<routed, ids>>
    PROVE  job' \in [Admins -> JobType] /\ \A b \in Admins : JobFits(b)'
<1>1. job' \in [Admins -> JobType] /\ Alone(a)
  BY DEF Carries, Rests, Moves
<1>2. \A b \in Admins : JobFits(b)
  BY DEF RoutedTyped, JobFits
<1>3. 0 \in 0..ids /\ 0 \notin DOMAIN routed
  BY DEF RoutedTyped
<1>4. ASSUME NEW b \in Admins, b # a PROVE JobFits(b)'
  <2>1. job'[b] = job[b]
    BY <1>1, <1>4 DEF Alone
  <2> QED BY <1>2, <2>1 DEF JobFits
<1>5. CASE Rests(a)
  <2>1. JobFits(a)'
    BY <1>3, <1>5, NobodyTyped DEF Rests, JobFits
  <2> QED BY <1>1, <1>4, <2>1
<1>6. CASE \E pc : Moves(a, pc)
  <2>1. /\ job'[a].task = job[a].task /\ job'[a].id = job[a].id
        /\ job'[a].mark = job[a].mark
    BY <1>6 DEF Moves
  <2>2. JobFits(a)'
    BY <1>2, <2>1 DEF JobFits
  <2> QED BY <1>1, <1>4, <2>2
<1> QED BY <1>5, <1>6 DEF Carries

\* A step of a task that leaves the rows alone keeps the types.
LEMMA TypedAfter ==
    ASSUME RoutedTyped, NEW a \in Admins, job[a].task # "none", Carries(a),
           rules' \in Seq(RuleType), outs' \subseteq Marks, clients' \subseteq Marks \X Emails,
           UNCHANGED <<routed, subs, ids>>, holder' \in Admins \cup {Free}, dirty' \in BOOLEAN,
           hurt' \subseteq Marks, failures' \in 0..MaxFailures
    PROVE  RoutedTyped'
<1>1. job' \in [Admins -> JobType] /\ \A b \in Admins : JobFits(b)'
  BY JobsAfter
<1> QED BY <1>1 DEF RoutedTyped, JobFits

\* Whoever is not between GET and SET writes the rules as Unlocked says, or while
\* nobody holds the lock, or not at all.
LEMMA LockAfter ==
    ASSUME RoutedTyped, LockInv, NEW a \in Admins, Rests(a) \/ \E pc : Moves(a, pc) /\ pc # "set",
           job[a].task # "subscribe" \/ job[a].pc # "set", holder' = holder,
           \/ rules' = rules /\ dirty' = dirty
           \/ Unlocked
           \/ holder = Free /\ dirty' = dirty
    PROVE  LockInv'
<1>1. holder # a
  BY DEF LockInv
<1>2. ~(job'[a].task = "subscribe" /\ job'[a].pc = "set")
  BY NobodyTyped DEF Rests, Moves
<1>3. \A b \in Admins : b # a => job'[b] = job[b]
  BY DEF Rests, Moves, Alone
<1>4. Free \notin Admins
  BY RoutedAssumption
<1>5. holder' = Free => ~dirty'
  BY <1>1 DEF LockInv, Unlocked
<1>6. ASSUME NEW b \in Admins
      PROVE  (job'[b].task = "subscribe" /\ job'[b].pc = "set") <=> holder' = b
  BY <1>1, <1>2, <1>3 DEF LockInv
<1>7. ASSUME NEW b \in Admins, holder' = b, ~dirty' PROVE job'[b].seen = rules'
  <2>1. b # a /\ holder = b /\ holder # Free /\ job'[b] = job[b]
    BY <1>1, <1>3, <1>4, <1>7
  <2>2. rules' = rules /\ ~dirty
    <3>1. ~Unlocked
      BY <1>7, <2>1, Zenon DEF Unlocked
    <3>2. rules' = rules /\ dirty' = dirty
      BY <2>1, <3>1
    <3>3. ~dirty
      BY <1>7, <3>2, Zenon
    <3> QED BY <3>2, <3>3
  <2> QED BY <2>1, <2>2 DEF LockInv
<1> QED BY <1>5, <1>6, <1>7 DEF LockInv

-----------------------------------------------------------------------------
(* One mark *)

\* Nothing of the mark changes.
LEMMA MarkStays ==
    ASSUME RoutedTyped, NEW m, MarkInv(m), DOMAIN routed' \subseteq Nat,
           \A b \in Admins : On(b, m)' = On(b, m) /\ (On(b, m) =>
              /\ job'[b].task = job[b].task /\ job'[b].pc = job[b].pc
              /\ job'[b].id = job[b].id /\ job'[b].who = job[b].who),
           \A i \in Nat : i \in DOMAIN routed' /\ routed'[i] = m <=>
                          i \in DOMAIN routed /\ routed[i] = m,
           KeysOf(m)' = KeysOf(m), \A key \in KeysOf(m) : subs'[key] = subs[key],
           Users(rules', m) = Users(rules, m), Several(rules', m) = Several(rules, m),
           m \in outs' <=> m \in outs,
           \A e \in Emails : <<m, e>> \in clients' <=> <<m, e>> \in clients
    PROVE  MarkInv(m)'
<1>0. DOMAIN routed \subseteq Nat /\ \A b \in Admins : job[b].id \in Nat
  BY DEF RoutedTyped
<1>1. Here(m)' = Here(m)
  BY <1>0 DEF Here
<1>2. \A who : InRule(m, who)' = InRule(m, who)
  BY DEF InRule
<1>3. Nothing(m)' = Nothing(m)
  <2>1. clients \cap ({m} \X Emails) = {} <=> \A e \in Emails : <<m, e>> \notin clients
    OBVIOUS
  <2>2. clients' \cap ({m} \X Emails) = {} <=> \A e \in Emails : <<m, e>> \notin clients'
    OBVIOUS
  <2> QED BY <2>1, <2>2 DEF Nothing
<1>4. \A but : Stands(m, but)' = Stands(m, but)
  <2> SUFFICES ASSUME NEW but PROVE Stands(m, but)' = Stands(m, but)
    OBVIOUS
  <2>1. KeysOf(m)' = KeysOf(m) /\ \A key \in KeysOf(m) : subs'[key] = subs[key] /\ key[2] \in Emails
    BY DEF KeysOf, RoutedTyped
  <2>2. m \in outs' <=> m \in outs
    OBVIOUS
  <2>3. (Users(rules, m) # {})' <=> Users(rules, m) # {}
    OBVIOUS
  <2>4. \A key \in KeysOf(m) : <<m, key[2]>> \in clients' <=> <<m, key[2]>> \in clients
    BY <2>1
  <2>5. Stands(m, but)' => Stands(m, but)
    BY <1>2, <2>1, <2>2, <2>3, <2>4 DEF Stands
  <2>6. Stands(m, but) => Stands(m, but)'
    BY <1>2, <2>1, <2>2, <2>3, <2>4 DEF Stands
  <2>7. Stands(m, but) \in BOOLEAN /\ Stands(m, but)' \in BOOLEAN
    BY DEF Stands
  <2> QED BY <2>5, <2>6, <2>7
<1>5. ASSUME NEW b \in Admins, On(b, m), Works(b, m) PROVE Works(b, m)'
  <2>1. /\ job'[b].task = job[b].task /\ job'[b].pc = job[b].pc
        /\ job'[b].id = job[b].id /\ job'[b].who = job[b].who
    BY <1>5
  <2>2. CASE job[b].task = "create" /\ Creating(b, m)
    <3>1. {"creator", "member"} \subseteq Emails
      BY DEF Emails
    <3>2. Creating(b, m)'
      BY <1>1, <1>2, <2>1, <2>2, <3>1 DEF Creating
    <3> QED BY <2>1, <2>2, <3>2 DEF Works
  <2>3. CASE job[b].id \in DOMAIN routed /\ routed[job[b].id] = m
    <3>1. job'[b].id \in DOMAIN routed' /\ routed'[job'[b].id] = m
      BY <1>0, <2>1, <2>3
    <3>2. \A who : <<job[b].id, who>> \in DOMAIN subs <=> <<job[b].id, who>> \in KeysOf(m)
      BY <2>3 DEF KeysOf
    <3>3. \A who : <<job[b].id, who>> \in DOMAIN subs' <=> <<job[b].id, who>> \in KeysOf(m)'
      BY <2>1, <3>1 DEF KeysOf
    <3>4. \A who : <<job'[b].id, who>> \in DOMAIN subs' <=> <<job[b].id, who>> \in DOMAIN subs
      BY <2>1, <3>2, <3>3
    <3>5. Erasing(b, m) => Erasing(b, m)'
      BY <2>1 DEF Erasing
    <3>11. Recording(b, m) => Recording(b, m)'
      <4>1. {"creator", "member"} \subseteq Emails
        BY DEF Emails
      <4> QED BY <1>2, <2>1, <4>1 DEF Recording
    <3>6. Suspending(b, m) => Suspending(b, m)'
      BY <1>4, <2>1 DEF Suspending
    <3>7. Resuming(b, m) => Resuming(b, m)'
      <4>1. <<m, "creator">> \in clients' <=> <<m, "creator">> \in clients
        BY DEF Emails
      <4> QED BY <1>2, <1>4, <2>1, <4>1 DEF Resuming
    <3>8. Subscribing(b, m) => Subscribing(b, m)'
      <4>1. <<m, "member">> \in clients' <=> <<m, "member">> \in clients
        BY DEF Emails
      <4> QED BY <1>2, <1>4, <2>1, <3>4, <4>1 DEF Subscribing
    <3>9. Unsubscribing(b, m) => Unsubscribing(b, m)'
      BY <1>4, <2>1, <3>4 DEF Unsubscribing
    <3>10. \/ job[b].task = "create" /\ Creating(b, m)
           \/ job[b].task = "record" /\ Recording(b, m)
           \/ job[b].task = "delete" /\ Erasing(b, m)
           \/ job[b].task = "suspend" /\ Suspending(b, m)
           \/ job[b].task = "resume" /\ Resuming(b, m)
           \/ job[b].task = "subscribe" /\ Subscribing(b, m)
           \/ job[b].task = "unsubscribe" /\ Unsubscribing(b, m)
      BY <1>5 DEF Works
    <3> QED BY <2>1, <2>2, <3>1, <3>5, <3>6, <3>7, <3>8, <3>9, <3>10, <3>11 DEF Works
  <2> QED BY <1>5, <2>2, <2>3 DEF Works
<1>6. \A i, j \in DOMAIN routed' : routed'[i] = m /\ routed'[j] = m => i = j
  BY <1>0 DEF MarkInv
<1> QED BY <1>1, <1>3, <1>4, <1>5, <1>6 DEF MarkInv

\* A step on one mark changes nothing of another.
LEMMA MarkElsewhere ==
    ASSUME RoutedTyped, NEW a \in Admins, job[a].task # "none", NEW m, MarkInv(m), m # job[a].mark,
           Carries(a), UNCHANGED <<routed, subs>>,
           Users(rules', m) = Users(rules, m), Several(rules', m) = Several(rules, m),
           m \in outs' <=> m \in outs,
           \A e \in Emails : <<m, e>> \in clients' <=> <<m, e>> \in clients
    PROVE  MarkInv(m)'
<1>1. ~On(a, m) /\ ~On(a, m)'
  BY NobodyTyped DEF On, Carries, Rests, Moves
<1>2. \A b \in Admins : b # a => job'[b] = job[b]
  BY DEF Carries, Rests, Moves, Alone
<1>3. \A b \in Admins : On(b, m)' = On(b, m) /\ (On(b, m) => job'[b] = job[b])
  BY <1>1, <1>2 DEF On
<1>4. KeysOf(m)' = KeysOf(m) /\ DOMAIN routed \subseteq Nat
  BY DEF KeysOf, RoutedTyped
<1> QED BY <1>3, <1>4, MarkStays

\* The task on a mark goes on.
LEMMA MarkGoesOn ==
    ASSUME NEW a \in Admins, NEW m, MarkInv(m), On(a, m), NEW pc, Moves(a, pc), UNCHANGED routed,
           ~Several(rules', m), UNCHANGED subs \/ m \notin PrivateMarks, Works(a, m)'
    PROVE  MarkInv(m)'
<1>1. On(a, m)' /\ \A b \in Admins : b # a => ~On(b, m)'
  BY DEF MarkInv, On, Moves, Alone
<1>2. m \in PrivateMarks => KeysOf(m)' = KeysOf(m)
  BY DEF KeysOf
<1> QED BY <1>1, <1>2 DEF MarkInv

\* The task on a mark ends.
LEMMA MarkIsLeft ==
    ASSUME NEW a \in Admins, NEW m, MarkInv(m), On(a, m), Rests(a),
           \A i, j \in DOMAIN routed' : routed'[i] = m /\ routed'[j] = m => i = j,
           ~Several(rules', m),
           m \in PrivateMarks => \A key \in KeysOf(m)' : key[2] = "creator",
           IF Here(m)' THEN Stands(m, {})' ELSE Nothing(m)'
    PROVE  MarkInv(m)'
<1>1. \A b \in Admins : ~On(b, m)'
  BY NobodyTyped DEF MarkInv, On, Rests, Alone
<1> QED BY <1>1 DEF MarkInv

-----------------------------------------------------------------------------
(* The steps of the agent *)

RoutedInv == RoutedTyped /\ LockInv /\ MarksInv

\* What a step on a mark leaves to be shown is its own mark.
Serves(a) == /\ RoutedTyped' /\ LockInv' /\ hurt \subseteq hurt'
             /\ \A m \in Marks \ hurt' : m # job[a].mark => MarkInv(m)'

LEMMA Served ==
    ASSUME NEW a \in Admins, NEW m, m = job[a].mark, Serves(a), m \notin hurt' => MarkInv(m)'
    PROVE  RoutedInv'
BY DEF Serves, RoutedInv, MarksInv

LEMMA StepServes ==
    ASSUME RoutedInv, NEW a \in Admins, job[a].task # "none",
           job[a].task # "subscribe" \/ job[a].pc # "set",
           Rests(a) \/ \E pc : Moves(a, pc) /\ pc # "set",
           UNCHANGED <<routed, subs, ids, holder>>,
           rules' \in Seq(RuleType), outs' \subseteq Marks, clients' \subseteq Marks \X Emails,
           hurt \subseteq hurt', hurt' \subseteq Marks, failures' \in 0..MaxFailures,
           \/ rules' = rules /\ dirty' = dirty
           \/ Unlocked
           \/ holder = Free /\ dirty' = dirty,
           \A m \in Marks \ hurt' : m # job[a].mark =>
              /\ Users(rules', m) = Users(rules, m) /\ Several(rules', m) = Several(rules, m)
              /\ m \in outs' <=> m \in outs
              /\ \A e \in Emails : <<m, e>> \in clients' <=> <<m, e>> \in clients
    PROVE  Serves(a)
<1>1. RoutedTyped /\ LockInv /\ MarksInv
  BY DEF RoutedInv
<1>2. Carries(a)
  BY DEF Carries
<1>3. dirty' \in BOOLEAN /\ holder' \in Admins \cup {Free}
  BY <1>1 DEF RoutedTyped, Unlocked
<1>4. RoutedTyped'
  BY <1>1, <1>2, <1>3, TypedAfter
<1>5. LockInv'
  BY <1>1, LockAfter
<1>6. ASSUME NEW m \in Marks \ hurt', m # job[a].mark PROVE MarkInv(m)'
  <2>1. MarkInv(m)
    BY <1>1 DEF MarksInv
  <2> QED BY <1>1, <1>2, <1>6, <2>1, MarkElsewhere
<1> QED BY <1>4, <1>5, <1>6 DEF Serves

\* The types a step on the agent needs.
LEMMA MarkTyped ==
    ASSUME RoutedInv, NEW a \in Admins
    PROVE  /\ job[a].mark \in Marks /\ job[a].who \in Emails /\ job[a].pc \in RoutedPcs
           /\ job[a].seen \in Seq(RuleType) /\ rules \in Seq(RuleType) /\ outs \subseteq Marks
           /\ clients \subseteq Marks \X Emails /\ hurt \subseteq Marks
           /\ failures \in 0..MaxFailures
           /\ failures < MaxFailures => failures + 1 \in 0..MaxFailures
BY RoutedAssumption DEF RoutedInv, RoutedTyped, JobType

\* Each step of the agent serves, and says what it has done unless its mark is hurt.
LEMMA PutClientDoes ==
    ASSUME RoutedInv, NEW a \in Admins, job[a].task # "none",
           job[a].task # "subscribe" \/ job[a].pc # "set",
           NEW next \in RoutedPcs \ {"set"}, NEW onError \in RoutedPcs \ {"set"},
           PutClient(a, next, onError)
    PROVE  /\ Serves(a)
           /\ job[a].mark \notin hurt' =>
                 /\ Moves(a, next) /\ clients' = clients \cup {<<job[a].mark, job[a].who>>}
                 /\ UNCHANGED <<rules, outs, routed, subs>>
<1>1. /\ clients' = clients \cup {<<job[a].mark, job[a].who>>} \/ clients' = clients
      /\ UNCHANGED <<rules, outs, routed, subs, ids, holder, dirty>>
      /\ \/ hurt' = hurt /\ failures' = failures
         \/ /\ hurt' = hurt \cup {job[a].mark} /\ failures < MaxFailures
            /\ failures' = failures + 1
      /\ Goto(a, next) \/ Goto(a, onError)
      /\ job[a].mark \notin hurt' =>
            Goto(a, next) /\ clients' = clients \cup {<<job[a].mark, job[a].who>>}
  BY DEF PutClient, Calls, Answered, Failed
<1>2. \E pc : Moves(a, pc) /\ pc # "set"
  BY <1>1, JobGoes DEF RoutedInv
<1>3. Serves(a)
  BY <1>1, <1>2, MarkTyped, StepServes
<1> QED BY <1>1, <1>3, JobGoes DEF RoutedInv

LEMMA TakeClientsDoes ==
    ASSUME RoutedInv, NEW a \in Admins, job[a].task # "none",
           job[a].task # "subscribe" \/ job[a].pc # "set",
           NEW next \in RoutedPcs \ {"set"}, NEW who, TakeClients(a, who, next)
    PROVE  /\ Serves(a)
           /\ job[a].mark \notin hurt' =>
                 /\ Moves(a, next) /\ clients' = clients \ ({job[a].mark} \X who)
                 /\ UNCHANGED <<rules, outs, routed, subs>>
<1>1. /\ clients' = clients \ ({job[a].mark} \X who) \/ clients' = clients
      /\ UNCHANGED <<rules, outs, routed, subs, ids, holder, dirty>>
      /\ \/ hurt' = hurt /\ failures' = failures
         \/ /\ hurt' = hurt \cup {job[a].mark} /\ failures < MaxFailures
            /\ failures' = failures + 1
      /\ Goto(a, next)
      /\ job[a].mark \notin hurt' => clients' = clients \ ({job[a].mark} \X who)
  BY DEF TakeClients, Calls, Answered, Failed
<1>2. Moves(a, next)
  BY <1>1, JobGoes DEF RoutedInv
<1>3. Serves(a)
  BY <1>1, <1>2, MarkTyped, StepServes
<1> QED BY <1>1, <1>2, <1>3

LEMMA PutOutboundDoes ==
    ASSUME RoutedInv, NEW a \in Admins, job[a].task # "none",
           job[a].task # "subscribe" \/ job[a].pc # "set",
           NEW next \in RoutedPcs \ {"set"}, NEW onError \in RoutedPcs \ {"set"},
           PutOutbound(a, next, onError)
    PROVE  /\ Serves(a)
           /\ job[a].mark \notin hurt' /\ job[a].mark \notin outs =>
                 /\ Moves(a, next) /\ outs' = outs \cup {job[a].mark}
                 /\ UNCHANGED <<rules, clients, routed, subs>>
<1>1. /\ outs' = outs \cup {job[a].mark} \/ outs' = outs
      /\ UNCHANGED <<rules, clients, routed, subs, ids, holder, dirty>>
      /\ \/ hurt' = hurt /\ failures' = failures
         \/ /\ hurt' = hurt \cup {job[a].mark} /\ failures < MaxFailures
            /\ failures' = failures + 1
      /\ Goto(a, next) \/ Goto(a, onError)
      /\ job[a].mark \notin hurt' /\ job[a].mark \notin outs =>
            Goto(a, next) /\ outs' = outs \cup {job[a].mark}
  BY DEF PutOutbound, Calls, Answered, Failed
<1>2. \E pc : Moves(a, pc) /\ pc # "set"
  BY <1>1, JobGoes DEF RoutedInv
<1>3. Serves(a)
  BY <1>1, <1>2, MarkTyped, StepServes
<1> QED BY <1>1, <1>3, JobGoes DEF RoutedInv

LEMMA TakeOutboundDoes ==
    ASSUME RoutedInv, NEW a \in Admins, job[a].task # "none",
           job[a].task # "subscribe" \/ job[a].pc # "set",
           NEW next \in RoutedPcs \ {"set"}, TakeOutbound(a, next)
    PROVE  /\ Serves(a)
           /\ job[a].mark \notin hurt' =>
                 /\ Moves(a, next) /\ outs' = outs \ {job[a].mark}
                 /\ UNCHANGED <<rules, clients, routed, subs>>
<1>1. /\ outs' = outs \ {job[a].mark} \/ outs' = outs
      /\ UNCHANGED <<rules, clients, routed, subs, ids, holder, dirty>>
      /\ \/ hurt' = hurt /\ failures' = failures
         \/ /\ hurt' = hurt \cup {job[a].mark} /\ failures < MaxFailures
            /\ failures' = failures + 1
      /\ Goto(a, next)
      /\ job[a].mark \notin hurt' => outs' = outs \ {job[a].mark}
  BY DEF TakeOutbound, Calls, Answered, Failed
<1>2. Moves(a, next)
  BY <1>1, JobGoes DEF RoutedInv
<1>3. Serves(a)
  BY <1>1, <1>2, MarkTyped, StepServes
<1> QED BY <1>1, <1>2, <1>3

LEMMA PutRuleDoes ==
    ASSUME RoutedInv, NEW a \in Admins, job[a].task # "none",
           job[a].task # "subscribe" \/ job[a].pc # "set",
           NEW next \in RoutedPcs \ {"set"}, NEW onError \in RoutedPcs \ {"set"},
           PutRule(a, next, onError)
    PROVE  /\ Serves(a)
           /\ job[a].mark \notin hurt' =>
                 /\ Moves(a, next) /\ UNCHANGED <<outs, clients, routed, subs>>
                 /\ Users(rules', job[a].mark) = {{job[a].who}}
                 /\ ~Several(rules', job[a].mark)
<1>9. PICK qs : qs = Append(rules, Rule(job[a].mark, job[a].who))
  OBVIOUS
<1>0. /\ qs \in Seq(RuleType) /\ Elsewhere(rules, qs, job[a].mark)
      /\ Starts(rules, qs, job[a].mark, job[a].who)
  BY <1>9, MarkTyped, AppendedRule
<1>1. /\ rules' = qs \/ rules' = rules
      /\ Unlocked
      /\ UNCHANGED <<outs, clients, routed, subs, ids, holder>>
      /\ \/ hurt' = hurt /\ failures' = failures
         \/ hurt' = hurt \cup {job[a].mark} /\ failures' = failures
         \/ /\ hurt' = hurt \cup {job[a].mark} /\ failures < MaxFailures
            /\ failures' = failures + 1
      /\ Goto(a, next) \/ Goto(a, onError)
      /\ job[a].mark \notin hurt' =>
            Goto(a, next) /\ rules' = qs /\ ~HasRule(rules, job[a].mark)
  BY <1>9 DEF PutRule, Calls, Answered, Failed
<1>2. \E pc : Moves(a, pc) /\ pc # "set"
  BY <1>1, JobGoes DEF RoutedInv
<1>3. Serves(a)
  BY <1>0, <1>1, <1>2, MarkTyped, StepServes DEF Elsewhere
<1> QED BY <1>0, <1>1, <1>3, JobGoes DEF RoutedInv, Starts

LEMMA ReadRulesDoes ==
    ASSUME RoutedInv, NEW a \in Admins, job[a].task # "none",
           job[a].task # "subscribe" \/ job[a].pc # "set",
           NEW next \in RoutedPcs \ {"set"}, NEW none \in RoutedPcs \ {"set"},
           ReadRules(a, next, none)
    PROVE  /\ Serves(a)
           /\ UNCHANGED <<rules, outs, clients, routed, subs>>
           /\ job[a].mark \notin hurt' =>
                 \/ Moves(a, next)
                 \/ Moves(a, none) /\ Users(rules, job[a].mark) = {}
<1>1. /\ UNCHANGED <<rules, outs, clients, routed, subs, ids, holder, dirty>>
      /\ \/ hurt' = hurt /\ failures' = failures
         \/ /\ hurt' = hurt \cup {job[a].mark} /\ failures < MaxFailures
            /\ failures' = failures + 1
      /\ \/ job' = [job EXCEPT ![a].pc = next, ![a].seen = rules]
         \/ Goto(a, none)
      /\ job[a].mark \notin hurt' =>
            \/ job' = [job EXCEPT ![a].pc = next, ![a].seen = rules]
            \/ Goto(a, none) /\ ~HasRule(rules, job[a].mark)
  BY DEF ReadRules, Failed
<1>2. \/ Moves(a, next) 
      \/ Moves(a, none) /\ (job[a].mark \notin hurt' => ~HasRule(rules, job[a].mark))
  BY <1>1, JobGoes, JobSees, MarkTyped DEF RoutedInv
<1>3. Serves(a)
  BY <1>1, <1>2, MarkTyped, StepServes
<1> QED BY <1>1, <1>2, <1>3 DEF HasRule, Users

LEMMA RemoveAtIndexDoes ==
    ASSUME RoutedInv, NEW a \in Admins, job[a].task # "none",
           job[a].task # "subscribe" \/ job[a].pc # "set",
           NEW next \in RoutedPcs \ {"set"}, RemoveAtIndex(a, next)
    PROVE  /\ Serves(a)
           /\ job[a].mark \notin hurt' =>
                 /\ Moves(a, next) /\ UNCHANGED <<outs, clients, routed, subs>>
                 /\ ~Several(rules, job[a].mark) => /\ Users(rules', job[a].mark) = {}
                                                    /\ ~Several(rules', job[a].mark)
<1> DEFINE i == First(job[a].seen, job[a].mark)
<1>1. /\ \/ /\ i \in DOMAIN rules /\ rules' = RemoveAt(rules, i) /\ failures' = failures
            /\ \/ rules[i].mark = job[a].mark /\ hurt' = hurt
               \/ rules[i].mark # job[a].mark /\ hurt' = hurt \cup {rules[i].mark, job[a].mark}
         \/ /\ hurt' = hurt \cup {job[a].mark} /\ rules' = rules /\ failures' = failures
         \/ /\ hurt' = hurt \cup {job[a].mark} /\ rules' = rules
            /\ failures < MaxFailures /\ failures' = failures + 1
      /\ Unlocked /\ job' = [job EXCEPT ![a].pc = next, ![a].seen = <<>>]
      /\ UNCHANGED <<outs, clients, routed, subs, ids, holder>>
  BY DEF RemoveAtIndex, Failed
<1> HIDE DEF i
<1>2. Moves(a, next)
  BY <1>1, EmptySeq, JobSees DEF RoutedInv
<1>3. CASE /\ i \in DOMAIN rules /\ rules' = RemoveAt(rules, i) /\ failures' = failures
           /\ \/ rules[i].mark = job[a].mark /\ hurt' = hurt
              \/ rules[i].mark # job[a].mark /\ hurt' = hurt \cup {rules[i].mark, job[a].mark}
  <2>1. rules[i] \in RuleType
    BY <1>3, MarkTyped, LenProperties, ElementOfSeq
  <2>2. rules[i].mark \in Marks
    BY <2>1 DEF RuleType
  <2>3. /\ rules' \in Seq(RuleType)
        /\ \A m : /\ m # rules[i].mark => /\ Users(rules', m) = Users(rules, m)
                                          /\ Several(rules', m) = Several(rules, m)
                  /\ m = rules[i].mark /\ ~Several(rules, m) => /\ Users(rules', m) = {}
                                                                /\ ~Several(rules', m)
    BY <1>3, MarkTyped, RemovedRule
  <2>4. Serves(a)
    BY <1>1, <1>2, <1>3, <2>2, <2>3, MarkTyped, StepServes
  <2> QED BY <1>1, <1>2, <1>3, <2>3, <2>4
<1>4. CASE rules' = rules /\ hurt' = hurt \cup {job[a].mark}
  <2>1. Serves(a)
    BY <1>1, <1>2, <1>4, MarkTyped, StepServes
  <2> QED BY <1>4, <2>1
<1> QED BY <1>1, <1>3, <1>4

-----------------------------------------------------------------------------
(* The tasks *)

\* What is known of the mark of whoever is at work.
LEMMA AtWork ==
    ASSUME RoutedInv, NEW a \in Admins, job[a].task # "none"
    PROVE  /\ hurt \subseteq Marks /\ job[a].mark \in Marks
           /\ job[a].mark \notin hurt =>
              /\ MarkInv(job[a].mark) /\ On(a, job[a].mark) /\ ~Several(rules, job[a].mark)
              /\ \A i, j \in DOMAIN routed :
                    routed[i] = job[a].mark /\ routed[j] = job[a].mark => i = j
              /\ job[a].mark \in PrivateMarks => \A key \in KeysOf(job[a].mark) : key[2] = "creator"
              /\ job[a].task = "create" => Creating(a, job[a].mark)
              /\ job[a].task # "create" =>
                    job[a].id \in DOMAIN routed /\ routed[job[a].id] = job[a].mark
              /\ job[a].task = "record" => Recording(a, job[a].mark)
              /\ job[a].task = "delete" => Erasing(a, job[a].mark)
              /\ job[a].task = "suspend" => Suspending(a, job[a].mark)
              /\ job[a].task = "resume" => Resuming(a, job[a].mark)
              /\ job[a].task = "subscribe" => Subscribing(a, job[a].mark)
              /\ job[a].task = "unsubscribe" => Unsubscribing(a, job[a].mark)
<1>1. hurt \subseteq Marks /\ job[a].mark \in Marks
  BY MarkTyped
<1>2. ASSUME job[a].mark \notin hurt
      PROVE  MarkInv(job[a].mark) /\ On(a, job[a].mark) /\ Works(a, job[a].mark)
  BY <1>1, <1>2 DEF RoutedInv, MarksInv, MarkInv, On
<1> QED BY <1>1, <1>2 DEF MarkInv, Works

\* The part of a task that is not creating or deleting works on a node that stays.
LEMMA SameNode ==
    ASSUME NEW a \in Admins, NEW pc, Moves(a, pc), UNCHANGED <<routed, subs>>, NEW m
    PROVE  Here(m)' = Here(m) /\ KeysOf(m)' = KeysOf(m)
BY DEF Here, KeysOf

\* Creating a node up to its row.
LEMMA CreateKeeps ==
    ASSUME RoutedInv, NEW a \in Admins, NEW m, m = job[a].mark, CreateStep(a)
    PROVE  RoutedInv'
<1>0. job[a].task = "create" /\ job[a].task # "none" /\ job[a].task # "subscribe"
  BY DEF CreateStep
<1>1. m \notin hurt => MarkInv(m) /\ On(a, m) /\ ~Several(rules, m) /\ Creating(a, m)
  BY <1>0, AtWork
<1>2. ASSUME NEW pc \in {"outbound", "rule", "row"}, Moves(a, pc), UNCHANGED <<routed, subs>>,
             m \notin hurt, ~Several(rules', m), Creating(a, m)'
      PROVE  MarkInv(m)'
  <2>1. Works(a, m)'
    BY <1>0, <1>2 DEF Works, Moves
  <2> QED BY <1>1, <1>2, <2>1, MarkGoesOn
<1>3. CASE job[a].pc = "client" /\ PutClient(a, "outbound", "stop")
  <2>1. /\ Serves(a)
        /\ m \notin hurt' => /\ Moves(a, "outbound") /\ clients' = clients \cup {<<m, job[a].who>>}
                             /\ UNCHANGED <<rules, outs, routed, subs>>
    BY <1>0, <1>3, PutClientDoes DEF RoutedPcs
  <2>2. ASSUME m \notin hurt' PROVE MarkInv(m)'
    <3>1. Creating(a, m) /\ m \notin hurt
      BY <1>1, <2>1, <2>2 DEF Serves
    <3>2. Creating(a, m)'
      BY <1>3, <2>1, <2>2, <3>1 DEF Creating, Moves, Here, InRule
    <3> QED BY <1>1, <1>2, <2>1, <2>2, <3>1, <3>2
  <2> QED BY <2>1, <2>2, Served
<1>4. CASE job[a].pc = "outbound" /\ PutOutbound(a, "rule", "undoClient")
  <2>1. /\ Serves(a)
        /\ m \notin hurt' /\ m \notin outs =>
              /\ Moves(a, "rule") /\ outs' = outs \cup {m}
              /\ UNCHANGED <<rules, clients, routed, subs>>
    BY <1>0, <1>4, PutOutboundDoes DEF RoutedPcs
  <2>2. ASSUME m \notin hurt' PROVE MarkInv(m)'
    <3>1. Creating(a, m) /\ m \notin hurt
      BY <1>1, <2>1, <2>2 DEF Serves
    <3>2. m \notin outs
      BY <1>4, <3>1 DEF Creating
    <3>3. Creating(a, m)'
      BY <1>4, <2>1, <2>2, <3>1, <3>2 DEF Creating, Moves, Here, InRule
    <3> QED BY <1>1, <1>2, <2>1, <2>2, <3>1, <3>2, <3>3
  <2> QED BY <2>1, <2>2, Served
<1>5. CASE job[a].pc = "rule" /\ PutRule(a, "row", "undoOutbound")
  <2>1. /\ Serves(a)
        /\ m \notin hurt' => /\ Moves(a, "row") /\ UNCHANGED <<outs, clients, routed, subs>>
                             /\ Users(rules', m) = {{job[a].who}} /\ ~Several(rules', m)
    BY <1>0, <1>5, PutRuleDoes DEF RoutedPcs
  <2>2. ASSUME m \notin hurt' PROVE MarkInv(m)'
    <3>1. Creating(a, m) /\ m \notin hurt
      BY <1>1, <2>1, <2>2 DEF Serves
    <3>2. Creating(a, m)'
      BY <1>5, <2>1, <2>2, <3>1 DEF Creating, Moves, Here, InRule
    <3> QED BY <1>1, <1>2, <2>1, <2>2, <3>1, <3>2
  <2> QED BY <2>1, <2>2, Served
<1>6. CASE job[a].pc = "undoOutbound" /\ TakeOutbound(a, "undoClient")
  <2>1. Serves(a)
    BY <1>0, <1>6, TakeOutboundDoes DEF RoutedPcs
  <2>2. m \in hurt'
    BY <1>1, <1>6, <2>1 DEF Creating, Serves
  <2> QED BY <2>1, <2>2, Served
<1>7. CASE job[a].pc = "undoClient" /\ TakeClients(a, {"creator"}, "stop")
  <2>1. Serves(a)
    BY <1>0, <1>7, TakeClientsDoes DEF RoutedPcs
  <2>2. m \in hurt'
    BY <1>1, <1>7, <2>1 DEF Creating, Serves
  <2> QED BY <2>1, <2>2, Served
<1> QED BY <1>3, <1>4, <1>5, <1>6, <1>7 DEF CreateStep

\* Deleting a node up to its row.
LEMMA DeleteKeeps ==
    ASSUME RoutedInv, NEW a \in Admins, NEW m, m = job[a].mark, DeleteStep(a)
    PROVE  RoutedInv'
<1>0. job[a].task = "delete" /\ job[a].task # "none" /\ job[a].task # "subscribe"
  BY DEF DeleteStep
<1>1. m \notin hurt => /\ MarkInv(m) /\ On(a, m) /\ ~Several(rules, m) /\ Erasing(a, m)
                       /\ job[a].id \in DOMAIN routed /\ routed[job[a].id] = m
                       /\ \A i, j \in DOMAIN routed : routed[i] = m /\ routed[j] = m => i = j
  BY <1>0, AtWork
<1>2. ASSUME NEW pc \in {"remove", "outbound", "clients", "row"}, Moves(a, pc),
             UNCHANGED <<routed, subs>>, m \notin hurt, ~Several(rules', m), Erasing(a, m)'
      PROVE  MarkInv(m)'
  <2>1. Works(a, m)'
    BY <1>0, <1>1, <1>2 DEF Works, Moves
  <2> QED BY <1>1, <1>2, <2>1, MarkGoesOn
<1>3. CASE job[a].pc = "read" /\ ReadRules(a, "remove", "outbound")
  <2>1. /\ Serves(a) /\ UNCHANGED <<rules, outs, clients, routed, subs>>
        /\ m \notin hurt' => \/ Moves(a, "remove")
                             \/ Moves(a, "outbound") /\ Users(rules, m) = {}
    BY <1>0, <1>3, ReadRulesDoes DEF RoutedPcs
  <2>2. ASSUME m \notin hurt' PROVE MarkInv(m)'
    <3>1. Erasing(a, m) /\ m \notin hurt /\ ~Several(rules', m)
      BY <1>1, <2>1, <2>2 DEF Serves
    <3>2. KeysOf(m)' = KeysOf(m)
      BY <2>1 DEF KeysOf
    <3>3. PICK pc \in {"remove", "outbound"} :
              Moves(a, pc) /\ (pc = "outbound" => Users(rules, m) = {})
      BY <2>1, <2>2
    <3>4. Erasing(a, m)'
      BY <1>3, <2>1, <3>1, <3>2, <3>3 DEF Erasing, Moves
    <3> QED BY <1>2, <2>1, <3>1, <3>3, <3>4
  <2> QED BY <2>1, <2>2, Served
<1>4. CASE job[a].pc = "remove" /\ RemoveAtIndex(a, "outbound")
  <2>1. /\ Serves(a)
        /\ m \notin hurt' =>
              /\ Moves(a, "outbound") /\ UNCHANGED <<outs, clients, routed, subs>>
              /\ ~Several(rules, m) => Users(rules', m) = {} /\ ~Several(rules', m)
    BY <1>0, <1>4, RemoveAtIndexDoes DEF RoutedPcs
  <2>2. ASSUME m \notin hurt' PROVE MarkInv(m)'
    <3>1. Erasing(a, m) /\ m \notin hurt /\ ~Several(rules', m) /\ Users(rules', m) = {}
      BY <1>1, <2>1, <2>2 DEF Serves
    <3>2. KeysOf(m)' = KeysOf(m)
      BY <2>1, <2>2 DEF KeysOf
    <3>3. Erasing(a, m)'
      BY <1>4, <2>1, <2>2, <3>1, <3>2 DEF Erasing, Moves
    <3> QED BY <1>2, <2>1, <2>2, <3>1, <3>3
  <2> QED BY <2>1, <2>2, Served
<1>5. CASE job[a].pc = "outbound" /\ TakeOutbound(a, "clients")
  <2>1. /\ Serves(a)
        /\ m \notin hurt' => /\ Moves(a, "clients") /\ outs' = outs \ {m}
                             /\ UNCHANGED <<rules, clients, routed, subs>>
    BY <1>0, <1>5, TakeOutboundDoes DEF RoutedPcs
  <2>2. ASSUME m \notin hurt' PROVE MarkInv(m)'
    <3>1. Erasing(a, m) /\ m \notin hurt /\ ~Several(rules', m)
      BY <1>1, <2>1, <2>2 DEF Serves
    <3>2. KeysOf(m)' = KeysOf(m)
      BY <2>1, <2>2 DEF KeysOf
    <3>3. Erasing(a, m)'
      BY <1>5, <2>1, <2>2, <3>1, <3>2 DEF Erasing, Moves
    <3> QED BY <1>2, <2>1, <2>2, <3>1, <3>3
  <2> QED BY <2>1, <2>2, Served
<1>6. CASE /\ job[a].pc = "clients"
           /\ TakeClients(a, Placeholder(job[a].mark) \cup Subscribers(a), "row")
  <2> DEFINE W == Placeholder(job[a].mark) \cup Subscribers(a)
  <2>0. TakeClients(a, W, "row")
    BY <1>6
  <2> HIDE DEF W
  <2>1. /\ Serves(a)
        /\ m \notin hurt' => /\ Moves(a, "row") /\ clients' = clients \ ({m} \X W)
                             /\ UNCHANGED <<rules, outs, routed, subs>>
    BY <1>0, <1>6, <2>0, TakeClientsDoes DEF RoutedPcs
  <2>2. ASSUME m \notin hurt' PROVE MarkInv(m)'
    <3>1. Erasing(a, m) /\ m \notin hurt /\ ~Several(rules', m)
      BY <1>1, <2>1, <2>2 DEF Serves
    <3>2. ASSUME NEW e \in Emails, <<m, e>> \in clients PROVE e \in W
      <4>1. CASE e = "creator" /\ m \notin PrivateMarks
        BY <4>1 DEF W, Placeholder
      <4>2. CASE \E key \in KeysOf(m) : key[2] = e
        <5>1. PICK key \in KeysOf(m) : key[2] = e
          BY <4>2
        <5>2. /\ key \in DOMAIN subs /\ key[1] \in DOMAIN routed /\ routed[key[1]] = m
              /\ key = <<key[1], key[2]>>
          BY <5>1 DEF KeysOf, RoutedInv, RoutedTyped
        <5>3. key[1] = job[a].id
          BY <1>1, <3>1, <5>2
        <5>4. key = <<job[a].id, e>>
          BY <5>1, <5>2, <5>3
        <5> QED BY <5>2, <5>4 DEF W, Subscribers
      <4> QED BY <3>1, <3>2, <4>1, <4>2 DEF Erasing
    <3>3. \A e \in Emails : <<m, e>> \notin clients'
      BY <2>1, <2>2, <3>2
    <3>4. Erasing(a, m)'
      BY <1>6, <2>1, <2>2, <3>1, <3>3 DEF Erasing, Moves
    <3> QED BY <1>2, <2>1, <2>2, <3>1, <3>4
  <2> QED BY <2>1, <2>2, Served
<1> QED BY <1>3, <1>4, <1>5, <1>6 DEF DeleteStep

\* Suspending a private node up to its flag.
LEMMA SuspendKeeps ==
    ASSUME RoutedInv, NEW a \in Admins, NEW m, m = job[a].mark, SuspendStep(a)
    PROVE  RoutedInv'
<1>0. job[a].task = "suspend" /\ job[a].task # "none" /\ job[a].task # "subscribe"
  BY DEF SuspendStep
<1>1. m \notin hurt => /\ MarkInv(m) /\ On(a, m) /\ ~Several(rules, m) /\ Suspending(a, m)
                       /\ job[a].id \in DOMAIN routed /\ routed[job[a].id] = m
                       /\ m \in PrivateMarks => \A key \in KeysOf(m) : key[2] = "creator"
  BY <1>0, AtWork
<1>2. ASSUME NEW pc \in {"remove", "client", "flag"}, Moves(a, pc),
             UNCHANGED <<routed, subs, outs>>, m \notin hurt, ~Several(rules', m),
             \A e \in Emails : <<m, e>> \in clients' => <<m, e>> \in clients
      PROVE  MarkInv(m)'
  <2>1. KeysOf(m)' = KeysOf(m)
    BY <1>2 DEF KeysOf
  <2>2. Stands(m, {"creator"})'
    BY <1>1, <1>2, <2>1 DEF Stands, Suspending
  <2>3. Suspending(a, m)'
    BY <1>1, <1>2, <2>2 DEF Suspending, Moves
  <2>4. Works(a, m)'
    BY <1>0, <1>1, <1>2, <2>3 DEF Works, Moves
  <2> QED BY <1>1, <1>2, <2>4, MarkGoesOn
<1>3. CASE job[a].pc = "read" /\ ReadRules(a, "remove", "client")
  <2>1. /\ Serves(a) /\ UNCHANGED <<rules, outs, clients, routed, subs>>
        /\ m \notin hurt' => Moves(a, "remove") \/ Moves(a, "client")
    BY <1>0, <1>3, ReadRulesDoes DEF RoutedPcs
  <2>2. ASSUME m \notin hurt' PROVE MarkInv(m)'
    <3>1. m \notin hurt /\ ~Several(rules', m)
      BY <1>1, <2>1, <2>2 DEF Serves
    <3> QED BY <1>2, <2>1, <2>2, <3>1
  <2> QED BY <2>1, <2>2, Served
<1>4. CASE job[a].pc = "remove" /\ RemoveAtIndex(a, "client")
  <2>1. /\ Serves(a)
        /\ m \notin hurt' =>
              /\ Moves(a, "client") /\ UNCHANGED <<outs, clients, routed, subs>>
              /\ ~Several(rules, m) => Users(rules', m) = {} /\ ~Several(rules', m)
    BY <1>0, <1>4, RemoveAtIndexDoes DEF RoutedPcs
  <2>2. ASSUME m \notin hurt' PROVE MarkInv(m)'
    <3>1. m \notin hurt /\ ~Several(rules', m)
      BY <1>1, <2>1, <2>2 DEF Serves
    <3> QED BY <1>2, <2>1, <2>2, <3>1
  <2> QED BY <2>1, <2>2, Served
<1>5. CASE job[a].pc = "client" /\ TakeClients(a, {"creator"} \cap Subscribers(a), "flag")
  <2> DEFINE W == {"creator"} \cap Subscribers(a)
  <2>0. TakeClients(a, W, "flag")
    BY <1>5
  <2> HIDE DEF W
  <2>1. /\ Serves(a)
        /\ m \notin hurt' => /\ Moves(a, "flag") /\ clients' = clients \ ({m} \X W)
                             /\ UNCHANGED <<rules, outs, routed, subs>>
    BY <1>0, <1>5, <2>0, TakeClientsDoes DEF RoutedPcs
  <2>2. ASSUME m \notin hurt' PROVE MarkInv(m)'
    <3>1. m \notin hurt /\ ~Several(rules', m)
      BY <1>1, <2>1, <2>2 DEF Serves
    <3> QED BY <1>2, <2>1, <2>2, <3>1
  <2> QED BY <2>1, <2>2, Served
<1> QED BY <1>3, <1>4, <1>5 DEF SuspendStep

\* Resuming a private node up to its flag.
LEMMA ResumeKeeps ==
    ASSUME RoutedInv, NEW a \in Admins, NEW m, m = job[a].mark, ResumeStep(a)
    PROVE  RoutedInv'
<1>0. job[a].task = "resume" /\ job[a].task # "none" /\ job[a].task # "subscribe"
  BY DEF ResumeStep
<1>1. m \notin hurt => /\ MarkInv(m) /\ On(a, m) /\ ~Several(rules, m) /\ Resuming(a, m)
                       /\ job[a].id \in DOMAIN routed /\ routed[job[a].id] = m
                       /\ m \in PrivateMarks => \A key \in KeysOf(m) : key[2] = "creator"
  BY <1>0, AtWork
<1>2. ASSUME NEW pc \in {"rule", "flag"}, Moves(a, pc), UNCHANGED <<routed, subs, outs>>,
             m \notin hurt, ~Several(rules', m),
             \A e \in Emails : <<m, e>> \in clients' => <<m, e>> \in clients \/ e = "creator",
             <<m, "creator">> \in clients', pc = "flag" => InRule(m, "creator")'
      PROVE  MarkInv(m)'
  <2>1. KeysOf(m)' = KeysOf(m)
    BY <1>2 DEF KeysOf
  <2>2. Stands(m, {"creator"})'
    BY <1>1, <1>2, <2>1 DEF Stands, Resuming
  <2>3. Resuming(a, m)'
    BY <1>1, <1>2, <2>2 DEF Resuming, Moves
  <2>4. Works(a, m)'
    BY <1>0, <1>1, <1>2, <2>3 DEF Works, Moves
  <2> QED BY <1>1, <1>2, <2>4, MarkGoesOn
<1>3. CASE job[a].pc = "client" /\ PutClient(a, "rule", "stop")
  <2>1. /\ Serves(a)
        /\ m \notin hurt' => /\ Moves(a, "rule") /\ clients' = clients \cup {<<m, job[a].who>>}
                             /\ UNCHANGED <<rules, outs, routed, subs>>
    BY <1>0, <1>3, PutClientDoes DEF RoutedPcs
  <2>2. ASSUME m \notin hurt' PROVE MarkInv(m)'
    <3>1. m \notin hurt /\ ~Several(rules', m) /\ job[a].who = "creator"
      BY <1>1, <2>1, <2>2 DEF Serves, Resuming
    <3> QED BY <1>2, <2>1, <2>2, <3>1
  <2> QED BY <2>1, <2>2, Served
<1>4. CASE job[a].pc = "rule" /\ PutRule(a, "flag", "undoClient")
  <2>1. /\ Serves(a)
        /\ m \notin hurt' => /\ Moves(a, "flag") /\ UNCHANGED <<outs, clients, routed, subs>>
                             /\ Users(rules', m) = {{job[a].who}} /\ ~Several(rules', m)
    BY <1>0, <1>4, PutRuleDoes DEF RoutedPcs
  <2>2. ASSUME m \notin hurt' PROVE MarkInv(m)'
    <3>1. m \notin hurt /\ job[a].who = "creator" /\ <<m, "creator">> \in clients
      BY <1>1, <1>4, <2>1, <2>2 DEF Serves, Resuming
    <3>2. InRule(m, "creator")'
      BY <2>1, <2>2, <3>1 DEF InRule
    <3> QED BY <1>2, <2>1, <2>2, <3>1, <3>2
  <2> QED BY <2>1, <2>2, Served
<1>5. CASE job[a].pc = "undoClient" /\ TakeClients(a, {"creator"}, "stop")
  <2>1. Serves(a)
    BY <1>0, <1>5, TakeClientsDoes DEF RoutedPcs
  <2>2. m \in hurt'
    BY <1>1, <1>5, <2>1 DEF Resuming, Serves
  <2> QED BY <2>1, <2>2, Served
<1> QED BY <1>3, <1>4, <1>5 DEF ResumeStep

\* A member leaves the rule and the inbound.
LEMMA UnsubscribeKeeps ==
    ASSUME RoutedInv, NEW a \in Admins, NEW m, m = job[a].mark, LeaveRule(a) \/ UnsubscribeStep(a)
    PROVE  RoutedInv'
<1>0. job[a].task = "unsubscribe" /\ job[a].task # "none" /\ job[a].task # "subscribe"
  BY DEF LeaveRule, UnsubscribeStep
<1>1. m \notin hurt => /\ MarkInv(m) /\ On(a, m) /\ ~Several(rules, m) /\ Unsubscribing(a, m)
                       /\ job[a].id \in DOMAIN routed /\ routed[job[a].id] = m
  BY <1>0, AtWork
<1>2. ASSUME NEW pc \in {"client", "flag"}, Moves(a, pc), UNCHANGED <<routed, subs, outs>>,
             m \notin hurt, ~Several(rules', m),
             \A e \in Emails : e # job[a].who =>
                /\ <<m, e>> \in clients' <=> <<m, e>> \in clients
                /\ InRule(m, e) => InRule(m, e)',
             \A e \in Emails : <<m, e>> \in clients' => <<m, e>> \in clients,
             Users(rules, m) # {} => Users(rules', m) # {}
      PROVE  MarkInv(m)'
  <2>1. KeysOf(m)' = KeysOf(m) /\ \A key \in KeysOf(m) : key[2] \in Emails
    BY <1>2 DEF KeysOf, RoutedInv, RoutedTyped
  <2>2. Stands(m, {job[a].who})
    BY <1>1, <1>2 DEF Unsubscribing
  <2>3. job'[a].who = job[a].who /\ job'[a].id = job[a].id /\ job'[a].pc = pc
        /\ job'[a].task = job[a].task
    BY <1>2 DEF Moves
  <2> DEFINE but == {job[a].who}
  <2>4. /\ m \in outs' /\ (m \notin PrivateMarks => Users(rules', m) # {})
        /\ m \in PrivateMarks => \E key \in KeysOf(m)' : key[2] = "creator"
        /\ \A key \in KeysOf(m)' : subs'[key] /\ key[2] \notin but =>
              <<m, key[2]>> \in clients' /\ InRule(m, key[2])'
        /\ \A e \in Emails : <<m, e>> \in clients' =>
              e \in {"creator"} \cup but \/ \E key \in KeysOf(m)' : key[2] = e
    BY <1>2, <2>1, <2>2 DEF Stands
  <2>5. Unsubscribing(a, m)'
    <3>1. \A w : w = job[a].who => {w} = but
      OBVIOUS
    <3>2. {job'[a].who} = but
      BY <2>3
    <3> HIDE DEF but
    <3>3. Stands(m, {job[a].who})'
      BY <2>4, <3>2 DEF Stands
    <3> QED BY <1>1, <1>2, <2>3, <3>3 DEF Unsubscribing
  <2>6. Works(a, m)'
    BY <1>0, <1>1, <1>2, <2>3, <2>5 DEF Works
  <2> QED BY <1>1, <1>2, <2>6, MarkGoesOn
<1>3. CASE LeaveRule(a)
  <2> DEFINE qs == IF HasRule(rules, job[a].mark)
                   THEN [rules EXCEPT ![First(rules, job[a].mark)].users = @ \ {job[a].who}]
                   ELSE rules
  <2>1. /\ rules' = qs \/ rules' = rules
        /\ Unlocked /\ Goto(a, "client")
        /\ UNCHANGED <<outs, clients, routed, subs, ids, holder>>
        /\ \/ hurt' = hurt /\ failures' = failures
           \/ /\ hurt' = hurt \cup {job[a].mark} /\ failures < MaxFailures
              /\ failures' = failures + 1
        /\ job[a].mark \notin hurt' => rules' = qs
    BY <1>3 DEF LeaveRule, Calls, Answered, Failed
  <2>2. /\ qs \in Seq(RuleType) /\ Elsewhere(rules, qs, m)
        /\ Leaves(rules, qs, m, job[a].who)
    <3>1. qs = WithoutUser(rules, m, job[a].who)
      BY DEF WithoutUser
    <3> HIDE DEF qs
    <3> QED BY <3>1, MarkTyped, UserLeaves
  <2> HIDE DEF qs
  <2>3. Moves(a, "client")
    BY <2>1, JobGoes DEF RoutedInv, RoutedPcs
  <2>4. Serves(a)
    BY <1>0, <2>1, <2>2, <2>3, MarkTyped, StepServes DEF Elsewhere
  <2>5. ASSUME m \notin hurt' PROVE MarkInv(m)'
    <3>1. /\ m \notin hurt /\ ~Several(rules', m)
          /\ \A us \in Users(rules, m) : us \ {job[a].who} \in Users(rules', m)
      BY <1>1, <2>1, <2>2, <2>4, <2>5 DEF Serves, Leaves
    <3>2. \A e \in Emails : e # job[a].who /\ InRule(m, e) => InRule(m, e)'
      BY <3>1, LeftUsers
    <3>3. Users(rules, m) # {} => Users(rules', m) # {}
      BY <3>1, LeftUsers
    <3> QED BY <1>2, <2>1, <2>3, <3>1, <3>2, <3>3
  <2> QED BY <2>4, <2>5, Served
<1>4. CASE UnsubscribeStep(a)
  <2>1. job[a].pc = "client" /\ TakeClients(a, {job[a].who}, "flag")
    BY <1>4 DEF UnsubscribeStep
  <2>2. /\ Serves(a)
        /\ m \notin hurt' => /\ Moves(a, "flag") /\ clients' = clients \ ({m} \X {job[a].who})
                             /\ UNCHANGED <<rules, outs, routed, subs>>
    BY <1>0, <2>1, TakeClientsDoes DEF RoutedPcs
  <2>3. ASSUME m \notin hurt' PROVE MarkInv(m)'
    <3>1. m \notin hurt /\ ~Several(rules', m)
      BY <1>1, <2>2, <2>3 DEF Serves
    <3>2. \A e \in Emails : InRule(m, e) => InRule(m, e)'
      BY <2>2, <2>3 DEF InRule
    <3> QED BY <1>2, <2>2, <2>3, <3>1, <3>2
  <2> QED BY <2>2, <2>3, Served
<1> QED BY <1>3, <1>4

\* The goal a task of a member has reached, whichever way it goes on.
LEMMA SubscribingGoesOn ==
    ASSUME RoutedInv, NEW a \in Admins, NEW m, m = job[a].mark, m \notin hurt,
           job[a].task = "subscribe", NEW pc, Moves(a, pc), UNCHANGED routed,
           ~Several(rules', m), Subscribing(a, m)'
    PROVE  MarkInv(m)'
<1>1. /\ MarkInv(m) /\ On(a, m) /\ Subscribing(a, m)
      /\ job[a].id \in DOMAIN routed /\ routed[job[a].id] = m
  BY AtWork
<1>2. Works(a, m)'
  BY <1>1 DEF Works, Moves
<1>3. m \notin PrivateMarks
  BY <1>1 DEF Subscribing
<1> QED BY <1>1, <1>2, <1>3, MarkGoesOn

\* The client of a member on an old agent.
LEMMA FallbackKeeps ==
    ASSUME RoutedInv, NEW a \in Admins, NEW m, m = job[a].mark, FallbackClient(a)
    PROVE  RoutedInv'
<1>0. job[a].task = "subscribe" /\ job[a].pc = "client" /\ PutClient(a, "upsertThenSet", "stop")
  BY DEF FallbackClient
<1>1. /\ Serves(a)
      /\ m \notin hurt' =>
            /\ Moves(a, "upsertThenSet") /\ clients' = clients \cup {<<m, job[a].who>>}
            /\ UNCHANGED <<rules, outs, routed, subs>>
  BY <1>0, PutClientDoes DEF RoutedPcs
<1>2. ASSUME m \notin hurt' PROVE MarkInv(m)'
  <2>1. m \notin hurt /\ Subscribing(a, m) /\ ~Several(rules', m)
    BY <1>0, <1>1, <1>2, AtWork DEF Serves
  <2>2. Stands(m, {}) /\ job[a].who = "member" /\ KeysOf(m)' = KeysOf(m)
    BY <1>0, <1>1, <1>2, <2>1 DEF Subscribing, KeysOf
  <2>3. \A e : InRule(m, e)' = InRule(m, e)
    BY <1>1, <1>2 DEF InRule
  <2>4. Stands(m, {"member"})'
    BY <1>1, <1>2, <2>2, <2>3 DEF Stands
  <2>5. Subscribing(a, m)'
    BY <1>1, <1>2, <2>1, <2>2, <2>4 DEF Subscribing, Moves
  <2> QED BY <1>0, <1>1, <1>2, <2>1, <2>5, SubscribingGoesOn
<1> QED BY <1>1, <1>2, Served

\* Client and rule of a member in one call.
LEMMA BatchKeeps ==
    ASSUME RoutedInv, NEW a \in Admins, NEW m, m = job[a].mark, Batch(a)
    PROVE  RoutedInv'
<1> DEFINE qs == WithUser(rules, job[a].mark, job[a].who)
           next == IF HasRule(rules, m) THEN "upsert" ELSE "stop"
<1>0. job[a].task = "subscribe" /\ job[a].pc = "batch" /\ holder = Free
  BY DEF Batch
<1>1. /\ \/ clients' = clients \cup {<<m, job[a].who>>} /\ rules' = qs
         \/ clients' = clients /\ rules' = rules
      /\ UNCHANGED <<outs, routed, subs, ids, holder, dirty>>
      /\ \/ hurt' = hurt /\ failures' = failures
         \/ /\ hurt' = hurt \cup {m} /\ failures < MaxFailures
            /\ failures' = failures + 1
      /\ Goto(a, next) \/ Goto(a, "stop")
      /\ m \notin hurt' => /\ Goto(a, next) /\ clients' = clients \cup {<<m, job[a].who>>}
                           /\ rules' = qs
  BY DEF Batch, Answered, Failed
<1>2. qs \in Seq(RuleType) /\ Elsewhere(rules, qs, m) /\ Joins(rules, qs, m, job[a].who)
  BY MarkTyped, UserJoins
<1> HIDE DEF qs
<1>3. next \in RoutedPcs \ {"set"}
  BY DEF RoutedPcs
<1>4. \E pc : Moves(a, pc) /\ pc # "set"
  BY <1>1, <1>3, JobGoes DEF RoutedInv, RoutedPcs
<1>5. Serves(a)
  BY <1>0, <1>1, <1>2, <1>4, MarkTyped, StepServes DEF Elsewhere
<1>6. ASSUME m \notin hurt' PROVE MarkInv(m)'
  <2>1. /\ m \notin hurt /\ Subscribing(a, m) /\ ~Several(rules, m)
        /\ Stands(m, {}) /\ job[a].who = "member" /\ m \notin PrivateMarks
    BY <1>0, <1>5, <1>6, AtWork DEF Serves, Subscribing
  <2>2. Users(rules, m) # {}
    BY <2>1 DEF Stands
  <2>3. HasRule(rules, m)
    BY <2>2 DEF HasRule, Users
  <2>4. Moves(a, "upsert")
    BY <1>1, <1>6, <2>3, JobGoes DEF RoutedInv, RoutedPcs
  <2>5. ~Several(rules', m) /\ \A us \in Users(rules, m) : us \cup {"member"} \in Users(rules', m)
    BY <1>1, <1>2, <1>6, <2>1 DEF Joins
  <2>6. InRule(m, "member")' /\ \A e : InRule(m, e) => InRule(m, e)'
    BY <2>2, <2>5, JoinedUsers
  <2>7. KeysOf(m)' = KeysOf(m)
    BY <1>1 DEF KeysOf
  <2>8. Stands(m, {"member"})'
    <3>1. UNCHANGED <<outs, subs>> /\ clients' = clients \cup {<<m, "member">>}
      BY <1>1, <1>6, <2>1
    <3>2. m \in outs' /\ (m \notin PrivateMarks => Users(rules', m) # {})
      BY <2>1, <2>2, <2>6, <3>1, JoinedUsers DEF Stands, InRule
    <3>3. ASSUME NEW key \in KeysOf(m)', subs'[key], key[2] # "member"
          PROVE  <<m, key[2]>> \in clients' /\ InRule(m, key[2])'
      BY <2>1, <2>6, <2>7, <3>1, <3>3 DEF Stands
    <3>4. ASSUME NEW e \in Emails, <<m, e>> \in clients'
          PROVE  e \in {"creator", "member"} \/ \E key \in KeysOf(m)' : key[2] = e
      BY DEF Emails
    <3> QED BY <2>1, <3>2, <3>3, <3>4 DEF Stands
  <2>9. Subscribing(a, m)'
    BY <1>1, <1>6, <2>1, <2>4, <2>6, <2>8 DEF Subscribing, Moves
  <2> QED BY <1>0, <1>1, <2>1, <2>4, <2>5, <2>9, SubscribingGoesOn
<1> QED BY <1>5, <1>6, Served

\* Reading the rules under the lock.
LEMMA GetKeeps ==
    ASSUME RoutedInv, NEW a \in Admins, NEW m, m = job[a].mark, GetRouting(a)
    PROVE  RoutedInv'
<1>0. /\ job[a].task = "subscribe" /\ job[a].pc = "get" /\ holder = Free /\ holder' = a
      /\ UNCHANGED <<rules, outs, clients, routed, subs, ids, dirty, failures, hurt>>
      /\ job' = [job EXCEPT ![a].pc = "set", ![a].seen = rules]
  BY DEF GetRouting
<1>1. Moves(a, "set") /\ job'[a].seen = rules
  BY <1>0, MarkTyped, JobSees DEF RoutedInv, RoutedPcs
<1>2. RoutedTyped'
  <2>1. Carries(a) /\ RoutedTyped
    BY <1>1 DEF Carries, RoutedInv
  <2>2. dirty' \in BOOLEAN /\ holder' \in Admins \cup {Free}
    BY <1>0, <2>1 DEF RoutedTyped
  <2> QED BY <1>0, <2>1, <2>2, MarkTyped, TypedAfter
<1>3. LockInv'
  <2>1. LockInv /\ Free \notin Admins
    BY RoutedAssumption DEF RoutedInv
  <2>2. /\ ~dirty' /\ rules' = rules
        /\ job'[a].task = "subscribe" /\ job'[a].pc = "set" /\ job'[a].seen = rules
        /\ \A b \in Admins : b # a => job'[b] = job[b]
    BY <1>0, <1>1, <2>1 DEF LockInv, Moves, Alone
  <2>3. \A b \in Admins : holder # b
    BY <1>0, <2>1
  <2> QED BY <1>0, <2>1, <2>2, <2>3 DEF LockInv
<1>4. Serves(a)
  <2>1. ASSUME NEW k \in Marks \ hurt', k # m PROVE MarkInv(k)'
    <3>1. Carries(a) /\ RoutedTyped /\ MarkInv(k)
      BY <1>0, <1>1 DEF Carries, RoutedInv, MarksInv
    <3> QED BY <1>0, <2>1, <3>1, MarkElsewhere
  <2> QED BY <1>0, <1>2, <1>3, <2>1 DEF Serves
<1>5. ASSUME m \notin hurt' PROVE MarkInv(m)'
  <2>1. m \notin hurt /\ Subscribing(a, m) /\ ~Several(rules', m)
    BY <1>0, <1>5, AtWork
  <2>2. /\ Stands(m, {"member"})
        /\ <<m, "member">> \in clients /\ <<job[a].id, "member">> \in DOMAIN subs
        /\ m \notin PrivateMarks /\ job[a].who = "member"
    BY <1>0, <2>1 DEF Subscribing
  <2>3. Stands(m, {"member"})'
    <3>1. KeysOf(m)' = KeysOf(m)
      BY <1>0 DEF KeysOf
    <3>2. \A e : InRule(m, e)' = InRule(m, e)
      BY <1>0 DEF InRule
    <3> QED BY <1>0, <2>2, <3>1, <3>2 DEF Stands
  <2>4. Subscribing(a, m)'
    BY <1>0, <1>1, <2>2, <2>3 DEF Subscribing, Moves
  <2> QED BY <1>0, <1>1, <2>1, <2>4, SubscribingGoesOn
<1> QED BY <1>4, <1>5, Served

\* What is written under the lock is what was read, but for marks that are then hurt.
LEMMA SetKeeps ==
    ASSUME RoutedInv, NEW a \in Admins, NEW m, m = job[a].mark, SetRouting(a)
    PROVE  RoutedInv'
<1> DEFINE old == job[a].seen
           qs == WithUser(old, job[a].mark, job[a].who)
<1>0. /\ job[a].task = "subscribe" /\ job[a].task # "none" /\ job[a].pc = "set" /\ holder = a
      /\ holder' = Free /\ dirty' = FALSE /\ Done(a)
      /\ UNCHANGED <<outs, clients, routed, subs, ids>>
  BY DEF SetRouting
<1>1. \/ /\ rules' = qs /\ failures' = failures
         /\ hurt' = (IF dirty THEN hurt \cup Differ(rules, old) ELSE hurt)
                    \cup (IF HasRule(old, m) THEN {} ELSE {m})
      \/ /\ rules' = rules /\ hurt' = hurt \cup {m} /\ failures < MaxFailures
         /\ failures' = failures + 1
  BY DEF SetRouting, Failed
<1>2. qs \in Seq(RuleType) /\ Elsewhere(old, qs, m) /\ Joins(old, qs, m, job[a].who)
  BY MarkTyped, UserJoins
<1> HIDE DEF qs
<1>3. ASSUME NEW k \in Marks \ hurt', rules' = qs
      PROVE  Users(old, k) = Users(rules, k) /\ Several(old, k) = Several(rules, k)
  <2>1. CASE dirty
    <3>1. k \notin Differ(rules, old) \/ (rules' = rules /\ k # m)
      BY <1>1, <1>3, <2>1
    <3>2. CASE k \notin Differ(rules, old)
      BY <3>2, <1>3 DEF Differ
    <3>3. CASE rules' = rules /\ k # m
      BY <1>2, <1>3, <3>3 DEF Elsewhere
    <3> QED BY <3>1, <3>2, <3>3
  <2>2. CASE ~dirty
    <3>1. old = rules
      BY <1>0, <2>2 DEF RoutedInv, LockInv
    <3> QED BY <3>1
  <2> QED BY <2>1, <2>2
<1>4. Rests(a)
  BY <1>0, JobEnds DEF RoutedInv
<1>5. hurt \subseteq hurt' /\ hurt' \subseteq Marks
  BY <1>1, MarkTyped DEF Differ
<1>6. RoutedTyped'
  <2>1. Carries(a) /\ RoutedTyped /\ holder' \in Admins \cup {Free} /\ dirty' \in BOOLEAN
    BY <1>0, <1>4 DEF Carries, RoutedInv
  <2>2. rules' \in Seq(RuleType) /\ failures' \in 0..MaxFailures
    BY <1>1, <1>2, MarkTyped
  <2> QED BY <1>0, <1>5, <2>1, <2>2, MarkTyped, TypedAfter
<1>7. LockInv'
  <2>1. LockInv /\ Free \notin Admins
    BY RoutedAssumption DEF RoutedInv
  <2>2. job'[a].task = "none" /\ \A b \in Admins : b # a => job'[b] = job[b]
    BY <1>4, NobodyTyped DEF Rests, Alone
  <2> QED BY <1>0, <2>1, <2>2 DEF LockInv
<1>8. ASSUME NEW k \in Marks \ hurt', k # m PROVE MarkInv(k)'
  <2>1. Carries(a) /\ RoutedTyped /\ MarkInv(k)
    BY <1>4, <1>5, <1>8 DEF Carries, RoutedInv, MarksInv
  <2>2. Users(rules', k) = Users(rules, k) /\ Several(rules', k) = Several(rules, k)
    BY <1>1, <1>2, <1>3, <1>8 DEF Elsewhere
  <2> QED BY <1>0, <1>8, <2>1, <2>2, MarkElsewhere
<1>9. ASSUME m \notin hurt' PROVE MarkInv(m)'
  <2>1. /\ m \in Marks \ hurt' /\ m \notin hurt /\ MarkInv(m) /\ On(a, m) /\ Subscribing(a, m)
        /\ job[a].id \in DOMAIN routed /\ routed[job[a].id] = m /\ ~Several(rules, m)
        /\ \A i, j \in DOMAIN routed : routed[i] = m /\ routed[j] = m => i = j
    BY <1>0, <1>5, <1>9, AtWork
  <2>2. /\ Stands(m, {"member"}) /\ job[a].who = "member" /\ m \notin PrivateMarks
        /\ <<m, "member">> \in clients /\ <<job[a].id, "member">> \in DOMAIN subs
    BY <1>0, <2>1 DEF Subscribing
  <2>3. rules' = qs
    BY <1>1, <1>9
  <2>4. ~Several(rules', m) /\ \A us \in Users(rules, m) : us \cup {"member"} \in Users(rules', m)
    BY <1>2, <1>3, <2>1, <2>2, <2>3 DEF Joins
  <2>5. Users(rules, m) # {}
    BY <2>2 DEF Stands
  <2>6. InRule(m, "member")' /\ \A e : InRule(m, e) => InRule(m, e)'
    BY <2>4, <2>5, JoinedUsers
  <2>7. KeysOf(m)' = KeysOf(m) /\ <<job[a].id, "member">> \in KeysOf(m)
    BY <1>0, <2>1, <2>2 DEF KeysOf
  <2>8. Stands(m, {})'
    <3>1. m \in outs' /\ (m \notin PrivateMarks => Users(rules', m) # {})
      BY <1>0, <2>2, <2>4, <2>5, JoinedUsers DEF Stands
    <3>2. ASSUME NEW key \in KeysOf(m)', subs'[key]
          PROVE  <<m, key[2]>> \in clients' /\ InRule(m, key[2])'
      BY <1>0, <2>2, <2>6, <2>7, <3>2 DEF Stands
    <3>3. ASSUME NEW e \in Emails, <<m, e>> \in clients'
          PROVE  e = "creator" \/ \E key \in KeysOf(m)' : key[2] = e
      <4>1. <<job[a].id, "member">> \in KeysOf(m)' /\ <<job[a].id, "member">>[2] = "member"
        BY <2>7
      <4>2. e = "creator" \/ e = "member"
        BY DEF Emails
      <4> QED BY <4>1, <4>2
    <3> QED BY <2>2, <3>1, <3>2, <3>3 DEF Stands
  <2>9. Here(m)'
    BY <1>0, <2>1 DEF Here
  <2> QED BY <1>0, <1>4, <2>1, <2>2, <2>4, <2>8, <2>9, MarkIsLeft
<1>10. Serves(a)
  BY <1>5, <1>6, <1>7, <1>8 DEF Serves
<1> QED BY <1>9, <1>10, Served

-----------------------------------------------------------------------------
(* The rows *)

IsFun(f) == f = [x \in DOMAIN f |-> f[x]]

\* A function by its values.
LEMMA FunInto ==
    ASSUME NEW f, IsFun(f), NEW S, \A x \in DOMAIN f : f[x] \in S
    PROVE  f \in [DOMAIN f -> S]
BY DEF IsFun

\* A step on the rows of one mark changes nothing of another.
LEMMA RowElsewhere ==
    ASSUME RoutedTyped, NEW a \in Admins, job[a].task # "none", NEW k, MarkInv(k),
           k # job[a].mark, Alone(a), job'[a].task = "none" \/ job'[a].mark = job[a].mark,
           UNCHANGED <<rules, outs, clients>>, DOMAIN routed' \subseteq Nat,
           \A i \in Nat : i \in DOMAIN routed' /\ routed'[i] = k <=>
                          i \in DOMAIN routed /\ routed[i] = k,
           KeysOf(k)' = KeysOf(k), \A key \in KeysOf(k) : subs'[key] = subs[key]
    PROVE  MarkInv(k)'
<1>1. ~On(a, k) /\ ~On(a, k)'
  BY DEF On
<1>2. \A b \in Admins : b # a => job'[b] = job[b]
  BY DEF Alone
<1>3. \A b \in Admins : On(b, k)' = On(b, k) /\ (On(b, k) => job'[b] = job[b])
  BY <1>1, <1>2 DEF On
<1> QED BY <1>3, MarkStays

\* A statement fails: its mark is hurt, the tables and the agent are as they were.
LEMMA StatementFails ==
    ASSUME RoutedInv, NEW a \in Admins, job[a].task # "none",
           job[a].task # "subscribe" \/ job[a].pc # "set", Done(a) \/ Goto(a, "stop"),
           failures < MaxFailures, failures' = failures + 1, hurt' = hurt \cup {job[a].mark},
           UNCHANGED <<rules, outs, clients, routed, subs, ids, holder, dirty>>
    PROVE  RoutedInv'
<1>1. job[a].mark \in hurt'
  OBVIOUS
<1>2. Rests(a) \/ \E pc : Moves(a, pc) /\ pc # "set"
  BY JobEnds, JobGoes DEF RoutedInv, RoutedPcs
<1>3. Serves(a)
  BY <1>2, MarkTyped, StepServes
<1> QED BY <1>1, <1>3, Served

\* The flag of one subaccount is set, or the subaccount is made.
LEMMA SubsElsewhere ==
    ASSUME RoutedInv, NEW a \in Admins, job[a].task # "none", NEW k \in Marks \ hurt,
           k # job[a].mark, Carries(a), UNCHANGED <<rules, outs, clients, routed>>,
           DOMAIN subs \subseteq DOMAIN subs',
           DOMAIN subs' \subseteq DOMAIN subs \cup {<<job[a].id, job[a].who>>},
           \A key \in DOMAIN subs : key # <<job[a].id, job[a].who>> => subs'[key] = subs[key]
    PROVE  MarkInv(k)'
<1>1. RoutedTyped /\ MarkInv(k) /\ DOMAIN routed \subseteq Nat
  BY DEF RoutedInv, MarksInv, RoutedTyped
<1>2. job[a].id \in DOMAIN routed => routed[job[a].id] # k
  BY <1>1 DEF RoutedTyped
<1>3. KeysOf(k)' = KeysOf(k) /\ \A key \in KeysOf(k) : subs'[key] = subs[key]
  <2> DEFINE own == <<job[a].id, job[a].who>>
  <2>1. own[1] \in DOMAIN routed => routed[own[1]] # k
    BY <1>2
  <2> HIDE DEF own
  <2>2. /\ DOMAIN subs \subseteq DOMAIN subs' /\ DOMAIN subs' \subseteq DOMAIN subs \cup {own}
        /\ \A key \in DOMAIN subs : key # own => subs'[key] = subs[key]
    BY DEF own
  <2> QED BY <2>1, <2>2 DEF KeysOf
<1>4. Alone(a) /\ (job'[a].task = "none" \/ job'[a].mark = job[a].mark)
  BY NobodyTyped DEF Carries, Rests, Moves
<1> QED BY <1>1, <1>3, <1>4, RowElsewhere

\* The row of a new node.
LEMMA CreateRowKeeps ==
    ASSUME RoutedInv, NEW a \in Admins, NEW m, m = job[a].mark, CreateRow(a)
    PROVE  RoutedInv'
<1> DEFINE new == ids + 1
<1>0. /\ job[a].task = "create" /\ job[a].task # "none" /\ job[a].pc = "row"
      /\ \/ /\ ids' = new /\ routed' = Define(routed, new, m) /\ UNCHANGED <<failures, hurt>>
            /\ job' = [job EXCEPT ![a].task = "record", ![a].pc = "owner", ![a].id = new]
         \/ /\ UNCHANGED <<ids, routed>> /\ Done(a) /\ failures < MaxFailures
            /\ failures' = failures + 1 /\ hurt' = hurt \cup {job[a].mark}
      /\ UNCHANGED <<rules, outs, clients, subs, holder, dirty>>
  BY DEF CreateRow, Answered, Failed
<1> SUFFICES ASSUME ids' = new, routed' = Define(routed, new, m), UNCHANGED <<failures, hurt>>,
                    job' = [job EXCEPT ![a].task = "record", ![a].pc = "owner", ![a].id = new]
             PROVE  RoutedInv'
  BY <1>0, StatementFails
<1>1. RoutedTyped /\ LockInv /\ m \in Marks /\ hurt \subseteq Marks
  BY MarkTyped DEF RoutedInv
<1>2. /\ ids \in Nat /\ new \in Nat /\ new \in 1..new /\ DOMAIN routed \subseteq 1..ids
      /\ new \notin DOMAIN routed /\ DOMAIN routed \subseteq 1..new
      /\ DOMAIN subs \subseteq (1..ids) \X Emails /\ \A key \in DOMAIN subs : key[1] # new
      /\ DOMAIN subs \subseteq (1..new) \X Emails
      /\ \A b \in Admins : job[b].id \in 0..ids /\ job[b].id \in 0..new /\ job[b].id # new
  BY <1>1 DEF RoutedTyped
<1> HIDE DEF new
<1>3. /\ DOMAIN routed' = DOMAIN routed \cup {new} /\ routed'[new] = m
      /\ \A i \in DOMAIN routed : routed'[i] = routed[i]
      /\ IsFun(routed')
  BY <1>2 DEF Define, IsFun
<1>4. /\ job' \in [Admins -> JobType] /\ Alone(a)
      /\ job'[a].task = "record" /\ job'[a].pc = "owner" /\ job'[a].id = new
      /\ job'[a].mark = m /\ job'[a].who = job[a].who
  <2> DEFINE h == [job[a] EXCEPT !.task = "record"]
             i == [h EXCEPT !.pc = "owner"]
             j == [i EXCEPT !.id = new]
  <2>1. /\ job \in [Admins -> JobType] /\ job[a] \in JobType /\ new \in Nat
        /\ "record" \in RoutedTasks /\ "owner" \in RoutedPcs
    BY <1>1, <1>2 DEF RoutedTyped, RoutedTasks, RoutedPcs
  <2>2. job' = [job EXCEPT ![a] = j]
    OBVIOUS
  <2>3. h \in JobType /\ h.task = "record" /\ h.mark = m /\ h.who = job[a].who
    BY <2>1 DEF JobType
  <2> HIDE DEF h
  <2>4. i \in JobType /\ i.pc = "owner" /\ i.task = h.task /\ i.mark = h.mark /\ i.who = h.who
    BY <2>1, <2>3 DEF JobType
  <2> HIDE DEF i
  <2>5. /\ j \in JobType /\ j.id = new /\ j.pc = i.pc /\ j.task = i.task /\ j.mark = i.mark
        /\ j.who = i.who
    BY <2>1, <2>4 DEF JobType
  <2> HIDE DEF j
  <2>6. job'[a] = j /\ job' \in [Admins -> JobType] /\ Alone(a)
    <3>1. job'[a] = j /\ \A b \in Admins : b # a => job'[b] = job[b]
      BY ONLY <2>1, <2>2, a \in Admins
    <3>2. job' \in [Admins -> JobType]
      BY ONLY <2>1, <2>2, <2>5
    <3> QED BY <3>1, <3>2 DEF Alone
  <2> QED BY <2>3, <2>4, <2>5, <2>6
<1>5. RoutedTyped'
  <2>1. routed' \in [DOMAIN routed' -> Marks]
    <3>1. \A i \in DOMAIN routed' : routed'[i] \in Marks
      BY <1>1, <1>3 DEF RoutedTyped
    <3> QED BY <1>3, <3>1, FunInto
  <2>2. ASSUME NEW b \in Admins
        PROVE  /\ job'[b].task = "none" => job'[b] = NoJob
               /\ job'[b].id \in 0..ids'
               /\ job'[b].id \in DOMAIN routed' => routed'[job'[b].id] = job'[b].mark
               /\ job'[b].id = 0 => job'[b].task \in {"none", "create"}
    <3>1. CASE b = a
      BY <1>2, <1>3, <1>4, <3>1
    <3>2. CASE b # a
      <4>1. job'[b] = job[b] /\ job[b].id # new /\ job[b].id \in 0..new
        BY <1>2, <1>4, <3>2 DEF Alone
      <4>2. /\ job[b].task = "none" => job[b] = NoJob
            /\ job[b].id \in DOMAIN routed => routed[job[b].id] = job[b].mark
            /\ job[b].id = 0 => job[b].task \in {"none", "create"}
        BY <1>1 DEF RoutedTyped
      <4> QED BY <1>3, <4>1, <4>2
    <3> QED BY <3>1, <3>2
  <2> QED BY <1>0, <1>1, <1>2, <1>3, <1>4, <2>1, <2>2 DEF RoutedTyped
<1>6. LockInv'
  <2>1. holder # a /\ ~(job'[a].task = "subscribe" /\ job'[a].pc = "set")
    BY <1>0, <1>1, <1>4 DEF LockInv
  <2> QED BY <1>0, <1>1, <1>4, <2>1 DEF LockInv, Alone
<1>7. ASSUME NEW k \in Marks \ hurt', k # m PROVE MarkInv(k)'
  <2>1. MarkInv(k) /\ job'[a].mark = job[a].mark
    BY <1>4, <1>7 DEF RoutedInv, MarksInv
  <2>2. \A i \in Nat : i \in DOMAIN routed' /\ routed'[i] = k <=>
                       i \in DOMAIN routed /\ routed[i] = k
    BY <1>3, <1>7
  <2>3. KeysOf(k)' = KeysOf(k)
    BY <1>0, <1>2, <1>3 DEF KeysOf
  <2>4. DOMAIN routed' \subseteq Nat
    BY <1>2, <1>3
  <2> QED BY <1>0, <1>1, <1>4, <1>7, <2>1, <2>2, <2>3, <2>4, RowElsewhere
<1>8. ASSUME m \notin hurt' PROVE MarkInv(m)'
  <2>1. /\ MarkInv(m) /\ On(a, m) /\ ~Several(rules, m) /\ Creating(a, m)
    BY <1>0, <1>8, AtWork
  <2>2. /\ ~Here(m) /\ <<m, "member">> \notin clients /\ <<m, "creator">> \in clients
        /\ m \in outs /\ InRule(m, "creator") /\ job[a].who = "creator"
    BY <1>0, <2>1 DEF Creating
  <2>3. \A i \in DOMAIN routed' : routed'[i] = m => i = new
    BY <1>3, <2>2 DEF Here
  <2>4. KeysOf(m)' = {}
    BY <1>0, <1>2, <2>3 DEF KeysOf
  <2>5. InRule(m, "creator")' /\ ~Several(rules', m)
    BY <1>0, <2>1, <2>2 DEF InRule
  <2>6. Recording(a, m)'
    BY <1>0, <1>4, <2>2, <2>4, <2>5 DEF Recording
  <2>7. Works(a, m)'
    BY <1>3, <1>4, <2>6 DEF Works
  <2>8. On(a, m)' /\ \A b \in Admins : b # a => ~On(b, m)'
    BY <1>4, <2>1 DEF MarkInv, On, Alone
  <2> QED BY <2>3, <2>4, <2>5, <2>7, <2>8 DEF MarkInv
<1>9. Serves(a)
  BY <1>0, <1>5, <1>6, <1>7 DEF Serves
<1> QED BY <1>8, <1>9, Served

\* The row of a deleted node.
LEMMA DeleteRowKeeps ==
    ASSUME RoutedInv, NEW a \in Admins, NEW m, m = job[a].mark, DeleteRow(a)
    PROVE  RoutedInv'
<1> DEFINE n == job[a].id
<1>0. /\ job[a].task = "delete" /\ job[a].task # "none" /\ job[a].pc = "row" /\ Done(a)
      /\ \/ routed' = Undefine(routed, {n}) /\ UNCHANGED <<failures, hurt>>
         \/ /\ routed' = routed /\ failures < MaxFailures
            /\ failures' = failures + 1 /\ hurt' = hurt \cup {job[a].mark}
      /\ UNCHANGED <<rules, outs, clients, subs, ids, holder, dirty>>
  BY DEF DeleteRow, Answered, Failed
<1> SUFFICES ASSUME routed' = Undefine(routed, {n}), UNCHANGED <<failures, hurt>>
             PROVE  RoutedInv'
  BY <1>0, StatementFails
<1>1. Rests(a) /\ RoutedTyped /\ LockInv /\ m \in Marks /\ hurt \subseteq Marks
  BY <1>0, JobEnds, MarkTyped DEF RoutedInv
<1>2. ids \in Nat /\ DOMAIN routed \subseteq 1..ids /\ (n \in DOMAIN routed => routed[n] = m)
  BY <1>1 DEF RoutedTyped
<1> HIDE DEF n
<1>3. /\ DOMAIN routed' = DOMAIN routed \ {n} /\ \A i \in DOMAIN routed' : routed'[i] = routed[i]
      /\ IsFun(routed')
  BY <1>0 DEF Undefine, IsFun
<1>6. RoutedTyped'
  <2>1. DOMAIN routed' \subseteq 1..ids'
    BY <1>0, <1>2, <1>3
  <2>2. routed' \in [DOMAIN routed' -> Marks]
    <3>1. \A i \in DOMAIN routed' : routed'[i] \in Marks
      BY <1>1, <1>3 DEF RoutedTyped
    <3> QED BY <1>3, <3>1, FunInto
  <2>3. ASSUME NEW b \in Admins
        PROVE  /\ job'[b].task = "none" => job'[b] = NoJob
               /\ job'[b].id \in 0..ids'
               /\ job'[b].id \in DOMAIN routed' => routed'[job'[b].id] = job'[b].mark
               /\ job'[b].id = 0 => job'[b].task \in {"none", "create"}
    <3>1. CASE b = a
      <4>1. job'[b] = NoJob /\ job'[b].id = 0 /\ 0 \notin DOMAIN routed' /\ job'[b].task = "none"
        BY <1>1, <1>2, <1>3, <3>1, NobodyTyped DEF Rests
      <4> QED BY <1>0, <1>2, <4>1
    <3>2. CASE b # a
      <4>1. job'[b] = job[b]
        BY <1>1, <3>2 DEF Rests, Alone
      <4>2. /\ job[b].task = "none" => job[b] = NoJob
            /\ job[b].id \in 0..ids
            /\ job[b].id \in DOMAIN routed => routed[job[b].id] = job[b].mark
            /\ job[b].id = 0 => job[b].task \in {"none", "create"}
        BY <1>1 DEF RoutedTyped
      <4> QED BY <1>0, <1>3, <4>1, <4>2
    <3> QED BY <3>1, <3>2
  <2>4. job' \in [Admins -> JobType]
    BY <1>1 DEF Rests
  <2> QED BY <1>0, <1>1, <2>1, <2>2, <2>3, <2>4 DEF RoutedTyped
<1>7. LockInv'
  BY <1>0, <1>1, LockAfter
<1>8. ASSUME NEW k \in Marks \ hurt', k # m PROVE MarkInv(k)'
  <2>1. MarkInv(k)
    BY <1>8 DEF RoutedInv, MarksInv
  <2>2. \A i \in Nat : i \in DOMAIN routed' /\ routed'[i] = k <=>
                       i \in DOMAIN routed /\ routed[i] = k
    BY <1>2, <1>3, <1>8
  <2>3. KeysOf(k)' = KeysOf(k)
    BY <1>0, <1>2, <1>3, <1>8 DEF KeysOf
  <2>4. DOMAIN routed' \subseteq Nat
    BY <1>2, <1>3
  <2>5. Alone(a) /\ job'[a].task = "none"
    BY <1>1, NobodyTyped DEF Rests
  <2> QED BY <1>0, <1>1, <1>8, <2>1, <2>2, <2>3, <2>4, <2>5, RowElsewhere
<1>9. ASSUME m \notin hurt' PROVE MarkInv(m)'
  <2>1. /\ MarkInv(m) /\ On(a, m) /\ ~Several(rules, m) /\ Erasing(a, m)
        /\ n \in DOMAIN routed /\ routed[n] = m
        /\ \A i, j \in DOMAIN routed : routed[i] = m /\ routed[j] = m => i = j
    BY <1>0, <1>9, AtWork DEF n
  <2>2. ~Here(m)'
    BY <1>3, <2>1 DEF Here
  <2>3. Nothing(m)'
    <3>1. Users(rules, m) = {} /\ m \notin outs /\ \A e \in Emails : <<m, e>> \notin clients
      BY <1>0, <2>1 DEF Erasing
    <3> QED BY <1>0, <3>1 DEF Nothing
  <2>4. \A key \in KeysOf(m)' : FALSE
    BY <2>2 DEF KeysOf, Here
  <2>5. \A i, j \in DOMAIN routed' : routed'[i] = m /\ routed'[j] = m => i = j
    BY <2>2 DEF Here
  <2> QED BY <1>0, <1>1, <2>1, <2>2, <2>3, <2>4, <2>5, MarkIsLeft
<1>10. Serves(a)
  BY <1>0, <1>6, <1>7, <1>8 DEF Serves
<1> QED BY <1>9, <1>10, Served

\* Setting a flag or making a subaccount keeps the types.
LEMMA SubsTyped ==
    ASSUME RoutedTyped, NEW a \in Admins, job[a].task # "none", Carries(a),
           DOMAIN subs' \subseteq (1..ids) \X Emails, subs' \in [DOMAIN subs' -> BOOLEAN],
           UNCHANGED <<rules, outs, clients, routed, ids, holder, dirty, failures, hurt>>
    PROVE  RoutedTyped'
<1>1. job' \in [Admins -> JobType] /\ \A b \in Admins : JobFits(b)'
  BY JobsAfter
<1> QED BY <1>1 DEF RoutedTyped, JobFits

\* The flag of a subaccount, the last step of three tasks.
LEMMA FlagKeeps ==
    ASSUME RoutedInv, NEW a \in Admins, NEW m, m = job[a].mark, NEW active \in BOOLEAN,
           Flag(a, active), active => job[a].task = "resume",
           ~active => job[a].task \in {"suspend", "unsubscribe"}
    PROVE  RoutedInv'
<1> DEFINE own == <<job[a].id, job[a].who>>
<1>0. /\ job[a].task \in {"resume", "suspend", "unsubscribe"} /\ job[a].task # "none"
      /\ job[a].pc = "flag" /\ Done(a)
      /\ \/ /\ subs' = IF own \in DOMAIN subs THEN [subs EXCEPT ![own] = active] ELSE subs
            /\ UNCHANGED <<failures, hurt>>
         \/ /\ subs' = subs /\ failures < MaxFailures
            /\ failures' = failures + 1 /\ hurt' = hurt \cup {job[a].mark}
      /\ UNCHANGED <<rules, outs, clients, routed, ids, holder, dirty>>
  BY DEF Flag, Answered, Failed
<1> SUFFICES ASSUME subs' = IF own \in DOMAIN subs THEN [subs EXCEPT ![own] = active] ELSE subs,
                    UNCHANGED <<failures, hurt>>
             PROVE  RoutedInv'
  BY <1>0, StatementFails
<1>1. Rests(a) /\ Carries(a) /\ RoutedTyped /\ LockInv /\ hurt \subseteq Marks
  BY <1>0, JobEnds, MarkTyped DEF RoutedInv, Carries
<1>2. DOMAIN subs \subseteq (1..ids) \X Emails /\ subs \in [DOMAIN subs -> BOOLEAN]
  BY <1>1 DEF RoutedTyped
<1>3. own[1] = job[a].id /\ own[2] = job[a].who
  OBVIOUS
<1> HIDE DEF own
<1>5. /\ DOMAIN subs' = DOMAIN subs /\ subs' \in [DOMAIN subs' -> BOOLEAN]
      /\ \A key \in DOMAIN subs : key # own => subs'[key] = subs[key]
      /\ own \in DOMAIN subs => subs'[own] = active
  BY <1>0, <1>2
<1>6. RoutedTyped'
  BY <1>0, <1>1, <1>2, <1>5, SubsTyped
<1>7. LockInv'
  BY <1>0, <1>1, LockAfter
<1>8. ASSUME NEW k \in Marks \ hurt', k # m PROVE MarkInv(k)'
  BY <1>0, <1>1, <1>5, <1>8, SubsElsewhere DEF own
<1>9. ASSUME m \notin hurt' PROVE MarkInv(m)'
  <2>1. /\ MarkInv(m) /\ On(a, m) /\ ~Several(rules, m)
        /\ job[a].id \in DOMAIN routed /\ routed[job[a].id] = m
        /\ \A i, j \in DOMAIN routed : routed[i] = m /\ routed[j] = m => i = j
        /\ m \in PrivateMarks => \A key \in KeysOf(m) : key[2] = "creator"
        /\ job[a].task = "suspend" => Suspending(a, m)
        /\ job[a].task = "resume" => Resuming(a, m)
        /\ job[a].task = "unsubscribe" => Unsubscribing(a, m)
    BY <1>0, <1>9, AtWork
  <2>2. KeysOf(m)' = KeysOf(m)
    BY <1>0, <1>5 DEF KeysOf
  <2>3. \A key \in KeysOf(m) : key \in DOMAIN subs /\ (key[2] = job[a].who => key = own)
    <3> SUFFICES ASSUME NEW key \in KeysOf(m), key[2] = job[a].who PROVE key = own
      BY DEF KeysOf
    <3>1. key = <<key[1], key[2]>> /\ key[1] \in DOMAIN routed /\ routed[key[1]] = m
      BY <1>2 DEF KeysOf
    <3>2. key[1] = job[a].id
      BY <2>1, <3>1
    <3> QED BY <3>1, <3>2 DEF own
  <2>4. \A e : InRule(m, e)' = InRule(m, e)
    BY <1>0 DEF InRule
  <2>5. Stands(m, {job[a].who})
    BY <1>0, <2>1 DEF Suspending, Resuming, Unsubscribing
  <2>6. active => <<m, job[a].who>> \in clients /\ InRule(m, job[a].who)
    BY <1>0, <2>1 DEF Resuming
  <2>7. job[a].who = "creator" \/ \E key \in KeysOf(m) : key[2] = job[a].who
    <3>1. CASE job[a].task = "unsubscribe"
      <4>1. own \in KeysOf(m)
        BY <1>3, <2>1, <3>1 DEF Unsubscribing, KeysOf, own
      <4> QED BY <1>3, <4>1
    <3>2. CASE job[a].task # "unsubscribe"
      BY <1>0, <2>1, <3>2 DEF Suspending, Resuming
    <3> QED BY <3>1, <3>2
  <2>8. ASSUME NEW key \in KeysOf(m), subs'[key]
        PROVE  <<m, key[2]>> \in clients /\ InRule(m, key[2])
    <3>1. CASE key[2] = job[a].who
      <4>1. active
        BY <1>5, <2>3, <2>8, <3>1
      <4> QED BY <2>6, <3>1, <4>1
    <3>2. CASE key[2] # job[a].who
      <4>1. key # own /\ subs[key]
        BY <1>3, <1>5, <2>3, <2>8, <3>2
      <4> QED BY <2>5, <3>2, <4>1 DEF Stands
    <3> QED BY <3>1, <3>2
  <2>9. \A e \in Emails : <<m, e>> \in clients => e = "creator" \/ \E key \in KeysOf(m) : key[2] = e
    BY <2>5, <2>7 DEF Stands
  <2>10. /\ m \in outs /\ (m \notin PrivateMarks => Users(rules, m) # {})
         /\ m \in PrivateMarks => \E key \in KeysOf(m) : key[2] = "creator"
    BY <2>5 DEF Stands
  <2>11. Stands(m, {})'
    BY <1>0, <2>2, <2>4, <2>8, <2>9, <2>10 DEF Stands
  <2>12. Here(m)' /\ ~Several(rules', m)
    BY <1>0, <2>1 DEF Here
  <2>13. m \in PrivateMarks => \A key \in KeysOf(m)' : key[2] = "creator"
    BY <2>1, <2>2
  <2>14. \A i, j \in DOMAIN routed' : routed'[i] = m /\ routed'[j] = m => i = j
    BY <1>0, <2>1
  <2> QED BY <1>1, <2>1, <2>11, <2>12, <2>13, <2>14, MarkIsLeft
<1>10. Serves(a)
  BY <1>0, <1>6, <1>7, <1>8 DEF Serves
<1> QED BY <1>9, <1>10, Served

\* The subaccount of a member.
LEMMA UpsertKeeps ==
    ASSUME RoutedInv, NEW a \in Admins, NEW m, m = job[a].mark, Upsert(a)
    PROVE  RoutedInv'
<1> DEFINE own  == <<job[a].id, job[a].who>>
           next == IF job[a].pc = "upsert" THEN "stop" ELSE "get"
<1>0. /\ job[a].task = "subscribe" /\ job[a].task # "none"
      /\ job[a].pc \in {"upsert", "upsertThenSet"}
      /\ \/ subs' = Define(subs, own, TRUE) /\ Goto(a, next) /\ UNCHANGED <<failures, hurt>>
         \/ /\ subs' = subs /\ Goto(a, "stop") /\ failures < MaxFailures
            /\ failures' = failures + 1 /\ hurt' = hurt \cup {job[a].mark}
      /\ UNCHANGED <<rules, outs, clients, routed, ids, holder, dirty>>
  BY DEF Upsert, Answered, Failed
<1> SUFFICES ASSUME subs' = Define(subs, own, TRUE), Goto(a, next), UNCHANGED <<failures, hurt>>
             PROVE  RoutedInv'
  BY <1>0, StatementFails
<1>1. RoutedTyped /\ LockInv /\ hurt \subseteq Marks /\ job[a].who \in Emails
  BY MarkTyped DEF RoutedInv
<1>2. /\ DOMAIN subs \subseteq (1..ids) \X Emails /\ subs \in [DOMAIN subs -> BOOLEAN]
      /\ ids \in Nat /\ job[a].id \in 0..ids /\ job[a].id # 0
  BY <1>0, <1>1 DEF RoutedTyped
<1>3. own[1] = job[a].id /\ own[2] = job[a].who /\ own \in (1..ids) \X Emails
  BY <1>1, <1>2
<1>4. next \in RoutedPcs /\ next # "set"
  BY DEF RoutedPcs
<1>5. Moves(a, next)
  BY <1>1, <1>4, JobGoes
<1> HIDE DEF own
<1>6. /\ DOMAIN subs' = DOMAIN subs \cup {own} /\ subs'[own] = TRUE
      /\ \A key \in DOMAIN subs : key # own => subs'[key] = subs[key]
      /\ IsFun(subs')
  BY DEF Define, IsFun
<1>7. RoutedTyped'
  <2>1. Carries(a)
    BY <1>5 DEF Carries
  <2>2. \A key \in DOMAIN subs' : subs'[key] \in BOOLEAN
    BY <1>2, <1>6
  <2>3. subs' \in [DOMAIN subs' -> BOOLEAN]
    BY <1>6, <2>2, FunInto
  <2>4. DOMAIN subs' \subseteq (1..ids) \X Emails
    BY <1>2, <1>3, <1>6
  <2> QED BY <1>0, <1>1, <2>1, <2>3, <2>4, SubsTyped
<1>8. LockInv'
  BY <1>0, <1>1, <1>4, <1>5, LockAfter
<1>9. ASSUME NEW k \in Marks \ hurt', k # m PROVE MarkInv(k)'
  <2>1. Carries(a) /\ k \in Marks \ hurt
    BY <1>5, <1>9 DEF Carries
  <2>2. /\ DOMAIN subs \subseteq DOMAIN subs' /\ DOMAIN subs' \subseteq DOMAIN subs \cup {own}
        /\ \A key \in DOMAIN subs : key # own => subs'[key] = subs[key]
    BY <1>6
  <2> QED BY <1>0, <1>9, <2>1, <2>2, SubsElsewhere DEF own
<1>10. ASSUME m \notin hurt' PROVE MarkInv(m)'
  <2>1. /\ m \notin hurt /\ ~Several(rules', m) /\ Subscribing(a, m)
        /\ job[a].id \in DOMAIN routed /\ routed[job[a].id] = m
        /\ \A i, j \in DOMAIN routed : routed[i] = m /\ routed[j] = m => i = j
    BY <1>0, <1>10, AtWork
  <2>2. /\ Stands(m, {"member"}) /\ job[a].who = "member" /\ m \notin PrivateMarks
        /\ <<m, "member">> \in clients /\ (job[a].pc = "upsert" => InRule(m, "member"))
    BY <1>0, <2>1 DEF Subscribing
  <2>3. KeysOf(m)' = KeysOf(m) \cup {own}
    <3>1. own[1] \in DOMAIN routed' /\ routed'[own[1]] = m /\ routed' = routed
      BY <1>0, <1>3, <2>1
    <3>2. \A key : key \in DOMAIN subs' <=> key \in DOMAIN subs \/ key = own
      BY <1>6
    <3>3. \A key : key \in KeysOf(m)' <=> key \in KeysOf(m) \/ key = own
      BY <3>1, <3>2 DEF KeysOf
    <3> QED BY <3>3
  <2>4. own[2] = "member" /\ own = <<job[a].id, "member">> /\ own \in DOMAIN subs'
    BY <1>3, <1>6, <2>1, <2>2 DEF own
  <2>5. \A e : InRule(m, e)' = InRule(m, e)
    BY <1>0 DEF InRule
  <2>6. Stands(m, {"member"})'
    <3>1. \A key \in KeysOf(m)' : key[2] # "member" => key \in KeysOf(m) /\ subs'[key] = subs[key]
      BY <1>6, <2>1, <2>3, <2>4 DEF KeysOf
    <3>2. \A key \in KeysOf(m)' : subs'[key] /\ key[2] \notin {"member"} =>
             <<m, key[2]>> \in clients' /\ InRule(m, key[2])'
      BY <1>0, <2>2, <2>5, <3>1 DEF Stands
    <3>3. \A e \in Emails : <<m, e>> \in clients' =>
             e \in {"creator"} \cup {"member"} \/ \E key \in KeysOf(m)' : key[2] = e
      BY DEF Emails
    <3> QED BY <1>0, <2>2, <3>2, <3>3 DEF Stands
  <2>7. CASE job[a].pc = "upsert"
    <3>1. Moves(a, "stop")
      BY <1>5, <2>1, <2>7
    <3>2. Stands(m, {})'
      <4>1. \A key \in KeysOf(m)' : subs'[key] => <<m, key[2]>> \in clients' /\ InRule(m, key[2])'
        <5>1. <<m, "member">> \in clients' /\ InRule(m, "member")'
          BY <1>0, <2>2, <2>5, <2>7
        <5> QED BY <2>6, <5>1 DEF Stands
      <4>2. \A e \in Emails : <<m, e>> \in clients' =>
               e \in {"creator"} \cup {} \/ \E key \in KeysOf(m)' : key[2] = e
        BY <2>3, <2>4 DEF Emails
      <4>3. m \in outs' /\ (m \notin PrivateMarks => Users(rules', m) # {})
        BY <2>6 DEF Stands
      <4> QED BY <2>2, <4>1, <4>2, <4>3 DEF Stands
    <3>3. Subscribing(a, m)'
      BY <2>2, <3>1, <3>2 DEF Subscribing, Moves
    <3> QED BY <1>0, <2>1, <3>1, <3>3, SubscribingGoesOn
  <2>8. CASE job[a].pc = "upsertThenSet"
    <3>1. Moves(a, "get")
      BY <1>5, <2>1, <2>8
    <3>2. Subscribing(a, m)'
      BY <1>0, <2>2, <2>4, <2>6, <3>1 DEF Subscribing, Moves
    <3> QED BY <1>0, <2>1, <3>1, <3>2, SubscribingGoesOn
  <2> QED BY <1>0, <2>7, <2>8
<1>11. Serves(a)
  BY <1>0, <1>7, <1>8, <1>9 DEF Serves
<1> QED BY <1>10, <1>11, Served

\* The subaccount of the creator of a new node.
LEMMA OwnerRowKeeps ==
    ASSUME RoutedInv, NEW a \in Admins, NEW m, m = job[a].mark, OwnerRow(a)
    PROVE  RoutedInv'
<1> DEFINE own == <<job[a].id, "creator">>
<1>0. /\ job[a].task = "record" /\ job[a].task # "none" /\ job[a].task # "subscribe" /\ Done(a)
      /\ \/ subs' = Define(subs, own, TRUE) /\ UNCHANGED <<failures, hurt>>
         \/ /\ subs' = subs /\ failures < MaxFailures
            /\ failures' = failures + 1 /\ hurt' = hurt \cup {job[a].mark}
      /\ UNCHANGED <<rules, outs, clients, routed, ids, holder, dirty>>
  BY DEF OwnerRow, Answered, Failed
<1> SUFFICES ASSUME subs' = Define(subs, own, TRUE), UNCHANGED <<failures, hurt>>
             PROVE  RoutedInv'
  BY <1>0, StatementFails
<1>1. Rests(a) /\ Carries(a) /\ RoutedTyped /\ LockInv /\ hurt \subseteq Marks
  BY <1>0, JobEnds, MarkTyped DEF RoutedInv, Carries
<1>2. /\ DOMAIN subs \subseteq (1..ids) \X Emails /\ subs \in [DOMAIN subs -> BOOLEAN]
      /\ ids \in Nat /\ job[a].id \in 0..ids /\ job[a].id # 0
      /\ job[a].id \in DOMAIN routed => routed[job[a].id] = m
  BY <1>0, <1>1 DEF RoutedTyped
<1>3. own[1] = job[a].id /\ own[2] = "creator" /\ own \in (1..ids) \X Emails
  BY <1>2 DEF Emails
<1> HIDE DEF own
<1>4. /\ DOMAIN subs' = DOMAIN subs \cup {own} /\ subs'[own] = TRUE
      /\ \A key \in DOMAIN subs : key # own => subs'[key] = subs[key]
      /\ IsFun(subs')
  BY DEF Define, IsFun
<1>5. RoutedTyped'
  <2>1. \A key \in DOMAIN subs' : subs'[key] \in BOOLEAN
    BY <1>2, <1>4
  <2>2. subs' \in [DOMAIN subs' -> BOOLEAN]
    BY <1>4, <2>1, FunInto
  <2>3. DOMAIN subs' \subseteq (1..ids) \X Emails
    BY <1>2, <1>3, <1>4
  <2> QED BY <1>0, <1>1, <2>2, <2>3, SubsTyped
<1>6. LockInv'
  BY <1>0, <1>1, LockAfter
<1>7. ASSUME NEW k \in Marks \ hurt', k # m PROVE MarkInv(k)'
  <2>1. MarkInv(k) /\ DOMAIN routed \subseteq Nat /\ Alone(a) /\ job'[a].task = "none"
    BY <1>1, <1>7, NobodyTyped DEF RoutedInv, MarksInv, RoutedTyped, Rests
  <2>2. own[1] \in DOMAIN routed => routed[own[1]] # k
    BY <1>2, <1>3, <1>7
  <2>3. KeysOf(k)' = KeysOf(k) /\ \A key \in KeysOf(k) : subs'[key] = subs[key]
    BY <1>0, <1>4, <2>2 DEF KeysOf
  <2> QED BY <1>0, <1>1, <1>7, <2>1, <2>3, RowElsewhere
<1>8. ASSUME m \notin hurt' PROVE MarkInv(m)'
  <2>1. /\ MarkInv(m) /\ On(a, m) /\ ~Several(rules, m) /\ Recording(a, m)
        /\ job[a].id \in DOMAIN routed /\ routed[job[a].id] = m
        /\ \A i, j \in DOMAIN routed : routed[i] = m /\ routed[j] = m => i = j
    BY <1>0, <1>8, AtWork
  <2>2. /\ KeysOf(m) = {} /\ m \in outs /\ InRule(m, "creator")
        /\ <<m, "creator">> \in clients /\ <<m, "member">> \notin clients
    BY <2>1 DEF Recording
  <2>3. KeysOf(m)' = {own}
    <3>1. own[1] \in DOMAIN routed' /\ routed'[own[1]] = m /\ routed' = routed
      BY <1>0, <1>3, <2>1
    <3>2. \A key : key \in DOMAIN subs' <=> key \in DOMAIN subs \/ key = own
      BY <1>4
    <3>3. \A key : key \in KeysOf(m)' <=> key \in KeysOf(m) \/ key = own
      BY <3>1, <3>2 DEF KeysOf
    <3> QED BY <2>2, <3>3
  <2>4. InRule(m, "creator")' /\ Users(rules', m) # {}
    BY <1>0, <2>2 DEF InRule
  <2>5. \A e \in Emails : <<m, e>> \in clients' => e = "creator"
    BY <1>0, <2>2 DEF Emails
  <2>6. Stands(m, {})'
    BY <1>0, <1>3, <2>2, <2>3, <2>4, <2>5 DEF Stands
  <2>7. Here(m)' /\ ~Several(rules', m)
    BY <1>0, <2>1 DEF Here
  <2>8. \A i, j \in DOMAIN routed' : routed'[i] = m /\ routed'[j] = m => i = j
    BY <1>0, <2>1
  <2>9. \A key \in KeysOf(m)' : key[2] = "creator"
    BY <1>3, <2>3
  <2> QED BY <1>1, <2>1, <2>6, <2>7, <2>8, <2>9, MarkIsLeft
<1>9. Serves(a)
  BY <1>0, <1>5, <1>6, <1>7 DEF Serves
<1> QED BY <1>8, <1>9, Served

\* A task that has failed or is through.
LEMMA StopKeeps ==
    ASSUME RoutedInv, NEW a \in Admins, NEW m, m = job[a].mark, Stop(a)
    PROVE  RoutedInv'
<1>0. /\ job[a].pc = "stop" /\ Done(a)
      /\ UNCHANGED <<rules, outs, clients, routed, subs, ids, holder, dirty, failures, hurt>>
  BY DEF Stop
<1>1. Rests(a) /\ RoutedTyped /\ hurt \subseteq Marks
  BY <1>0, JobEnds, MarkTyped DEF RoutedInv
<1>2. job[a].task # "none"
  BY <1>0, <1>1, NobodyTyped DEF RoutedTyped
<1>3. Serves(a)
  BY <1>0, <1>1, <1>2, MarkTyped, StepServes
<1>4. ASSUME m \notin hurt' PROVE MarkInv(m)'
  <2>1. /\ MarkInv(m) /\ On(a, m) /\ ~Several(rules, m) /\ Works(a, m)
        /\ job[a].task = "subscribe" => Subscribing(a, m)
    BY <1>0, <1>2, <1>4, AtWork DEF MarkInv
  <2>2. Subscribing(a, m) /\ job[a].id \in DOMAIN routed /\ routed[job[a].id] = m
    BY <1>0, <2>1 DEF Works, Creating, Recording, Erasing, Suspending, Resuming, Unsubscribing
  <2>3. Stands(m, {}) /\ m \notin PrivateMarks
    BY <1>0, <2>2 DEF Subscribing
  <2>4. Stands(m, {})'
    <3>1. KeysOf(m)' = KeysOf(m)
      BY <1>0 DEF KeysOf
    <3>2. \A e : InRule(m, e)' = InRule(m, e)
      BY <1>0 DEF InRule
    <3> QED BY <1>0, <2>3, <3>1, <3>2 DEF Stands
  <2>5. Here(m)' /\ ~Several(rules', m)
    BY <1>0, <2>1, <2>2 DEF Here
  <2>6. \A i, j \in DOMAIN routed' : routed'[i] = m /\ routed'[j] = m => i = j
    BY <1>0, <2>1 DEF MarkInv
  <2> QED BY <1>1, <2>1, <2>3, <2>4, <2>5, <2>6, MarkIsLeft
<1> QED BY <1>3, <1>4, Served

-----------------------------------------------------------------------------
(* A task begins *)

\* Starting changes nothing of a node.
LEMMA SameThings ==
    ASSUME UNCHANGED <<rules, outs, clients, routed, subs>>, NEW m, NEW but
    PROVE  /\ Here(m)' = Here(m) /\ KeysOf(m)' = KeysOf(m) /\ Nothing(m)' = Nothing(m)
           /\ Stands(m, but)' = Stands(m, but) /\ Users(rules', m) = Users(rules, m)
           /\ Several(rules', m) = Several(rules, m)
<1>1. Here(m)' = Here(m) /\ KeysOf(m)' = KeysOf(m) /\ Nothing(m)' = Nothing(m)
  BY DEF Here, KeysOf, Nothing
<1>2. Stands(m, but)' = Stands(m, but)
  BY <1>1 DEF Stands, InRule
<1> QED BY <1>1, <1>2

\* Started on a mark that is not hurt by it, the task is alone there, and the node
\* stands, or there is none.
LEMMA StartDoes ==
    ASSUME RoutedInv, NEW a \in Admins, NEW m \in Marks, NEW task \in RoutedTasks \ {"none"},
           NEW pc \in RoutedPcs \ {"set"}, NEW id \in 0..ids, NEW who \in Emails,
           id \in DOMAIN routed => routed[id] = m, id = 0 => task = "create",
           Start(a, task, pc, id, m, who)
    PROVE  /\ UNCHANGED <<rules, outs, clients, routed, subs>>
           /\ job'[a].task = task /\ job'[a].pc = pc /\ job'[a].id = id /\ job'[a].who = who
           /\ m \notin hurt' => IF Here(m) THEN Stands(m, {}) ELSE Nothing(m)
           /\ (m \notin hurt' => Works(a, m)') => RoutedInv'
<1> DEFINE none == <<>>
           new  == [task |-> task, pc |-> pc, id |-> id, mark |-> m, who |-> who, seen |-> none]
<1>0. /\ job[a] = NoJob /\ job' = [job EXCEPT ![a] = new]
      /\ hurt' = IF OthersOn(a, m) THEN hurt \cup {m} ELSE hurt
      /\ UNCHANGED <<rules, outs, clients, routed, subs, ids, holder, dirty, failures>>
  BY DEF Start
<1>1. RoutedTyped /\ LockInv /\ MarksInv
  BY DEF RoutedInv
<1>2. none \in Seq(RuleType)
  BY EmptySeq
<1> HIDE DEF none
<1>3. ids \in Nat /\ id \in Nat
  BY <1>1 DEF RoutedTyped
<1>4. new \in JobType
  BY <1>2, <1>3 DEF JobType
<1>5. /\ new.task = task /\ new.pc = pc /\ new.id = id /\ new.mark = m /\ new.who = who
  OBVIOUS
<1> HIDE DEF new
<1>6. /\ job' \in [Admins -> JobType] /\ job'[a] = new
      /\ \A b \in Admins : b # a => job'[b] = job[b]
  BY <1>0, <1>1, <1>4 DEF RoutedTyped
<1>7. job[a].task = "none" /\ job'[a].task # "none"
  BY <1>0, <1>5, <1>6, NobodyTyped
<1>8. RoutedTyped'
  <2>1. \A b \in Admins : /\ job'[b].task = "none" => job'[b] = NoJob
                          /\ job'[b].id \in 0..ids
                          /\ job'[b].id \in DOMAIN routed => routed[job'[b].id] = job'[b].mark
                          /\ job'[b].id = 0 => job'[b].task \in {"none", "create"}
    BY <1>1, <1>5, <1>6, <1>7 DEF RoutedTyped
  <2>2. hurt' \subseteq Marks
    BY <1>0, <1>1 DEF RoutedTyped
  <2> QED BY <1>0, <1>1, <1>6, <2>1, <2>2 DEF RoutedTyped
<1>9. LockInv'
  <2>1. holder # a
    BY <1>1, <1>7 DEF LockInv
  <2>2. ~(job'[a].task = "subscribe" /\ job'[a].pc = "set")
    BY <1>5, <1>6
  <2> QED BY <1>0, <1>1, <1>6, <2>1, <2>2 DEF LockInv
<1>10. ASSUME NEW k \in Marks \ hurt', k # m PROVE MarkInv(k)'
  <2>1. MarkInv(k)
    BY <1>0, <1>1, <1>10 DEF MarksInv
  <2>2. \A b \in Admins : On(b, k)' = On(b, k) /\ (On(b, k) => job'[b] = job[b])
    BY <1>5, <1>6, <1>7, <1>10 DEF On
  <2>3. KeysOf(k)' = KeysOf(k) /\ DOMAIN routed \subseteq Nat
    BY <1>0, <1>1 DEF KeysOf, RoutedTyped
  <2> QED BY <1>0, <1>1, <2>1, <2>2, <2>3, MarkStays
<1>11. ASSUME m \notin hurt'
       PROVE  /\ IF Here(m) THEN Stands(m, {}) ELSE Nothing(m)
              /\ Works(a, m)' => MarkInv(m)'
  <2>1. ~OthersOn(a, m) /\ m \notin hurt
    BY <1>0, <1>11
  <2>2. \A b \in Admins : ~On(b, m)
    BY <1>7, <2>1 DEF OthersOn, On
  <2>3. MarkInv(m)
    BY <1>1, <2>1 DEF MarksInv
  <2>4. IF Here(m) THEN Stands(m, {}) ELSE Nothing(m)
    BY <2>2, <2>3 DEF MarkInv
  <2>5. \A b \in Admins : On(b, m)' => b = a
    BY <1>6, <2>2 DEF On
  <2>6. On(a, m)'
    BY <1>5, <1>6, <1>7 DEF On
  <2>7. /\ KeysOf(m)' = KeysOf(m) /\ Several(rules', m) = Several(rules, m)
        /\ UNCHANGED routed
    BY <1>0, SameThings
  <2>8. Works(a, m)' => MarkInv(m)'
    BY <2>3, <2>5, <2>6, <2>7 DEF MarkInv
  <2> QED BY <2>4, <2>8
<1>12. (m \notin hurt' => Works(a, m)') => RoutedInv'
  BY <1>8, <1>9, <1>10, <1>11 DEF RoutedInv, MarksInv
<1> QED BY <1>0, <1>5, <1>6, <1>11, <1>12

\* The starts, one by one.
LEMMA StartCreateKeeps ==
    ASSUME RoutedInv, NEW a \in Admins, NEW m \in Marks, StartCreate(a, m)
    PROVE  RoutedInv'
<1>1. RoutedTyped /\ ~Here(m) /\ Start(a, "create", "client", 0, m, "creator")
  BY DEF RoutedInv, StartCreate, Here
<1>2. 0 \in 0..ids /\ 0 \notin DOMAIN routed
  BY <1>1 DEF RoutedTyped
<1>3. "create" \in RoutedTasks \ {"none"} /\ "client" \in RoutedPcs \ {"set"} /\ "creator" \in Emails
  BY DEF RoutedTasks, RoutedPcs, Emails
<1>4. /\ UNCHANGED <<rules, outs, clients, routed, subs>>
      /\ job'[a].task = "create" /\ job'[a].pc = "client" /\ job'[a].who = "creator"
      /\ m \notin hurt' => Nothing(m)
      /\ (m \notin hurt' => Works(a, m)') => RoutedInv'
  BY <1>1, <1>2, <1>3, StartDoes
<1>5. ASSUME m \notin hurt' PROVE Creating(a, m)'
  <2>1. Users(rules, m) = {} /\ m \notin outs /\ \A e \in Emails : <<m, e>> \notin clients
    BY <1>4, <1>5 DEF Nothing
  <2>2. "member" \in Emails
    BY DEF Emails
  <2>3. ~Here(m)' /\ Users(rules', m) = {}
    BY <1>1, <1>4, <2>1, SameThings
  <2> QED BY <1>3, <1>4, <2>1, <2>2, <2>3 DEF Creating
<1> QED BY <1>4, <1>5 DEF Works

\* The other tasks start on a node of the panel.
LEMMA StartOnNode ==
    ASSUME RoutedInv, NEW a \in Admins, NEW i \in DOMAIN routed, NEW m, m = routed[i],
           NEW task \in RoutedTasks \ {"none"}, NEW pc \in RoutedPcs \ {"set"}, NEW who \in Emails,
           Start(a, task, pc, i, m, who)
    PROVE  /\ UNCHANGED <<rules, outs, clients, routed, subs>>
           /\ job'[a].task = task /\ job'[a].pc = pc /\ job'[a].id = i /\ job'[a].who = who
           /\ m \notin hurt' => Stands(m, {})'
           /\ (m \notin hurt' => Works(a, m)') => RoutedInv'
<1>1. i \in 0..ids /\ i # 0 /\ m \in Marks
  BY DEF RoutedInv, RoutedTyped
<1>2. Here(m)
  BY DEF Here
<1>3. /\ UNCHANGED <<rules, outs, clients, routed, subs>>
      /\ job'[a].task = task /\ job'[a].pc = pc /\ job'[a].id = i /\ job'[a].who = who
      /\ m \notin hurt' => Stands(m, {})
      /\ (m \notin hurt' => Works(a, m)') => RoutedInv'
  BY <1>1, <1>2, StartDoes
<1>4. Stands(m, {})' = Stands(m, {})
  BY <1>3, SameThings
<1> QED BY <1>3, <1>4

\* A node that stands stands for whatever is done about some of its users.
LEMMA StandsFor ==
    ASSUME NEW m, NEW but, Stands(m, {})' PROVE Stands(m, but)'
BY DEF Stands

LEMMA StartDeleteKeeps ==
    ASSUME RoutedInv, NEW a \in Admins, NEW i, StartDelete(a, i)
    PROVE  RoutedInv'
<1> DEFINE m == routed[i]
<1>1. i \in DOMAIN routed /\ Start(a, "delete", "read", i, m, "creator")
  BY DEF StartDelete
<1>2. "delete" \in RoutedTasks \ {"none"} /\ "read" \in RoutedPcs \ {"set"} /\ "creator" \in Emails
  BY DEF RoutedTasks, RoutedPcs, Emails
<1>3. PICK k : k = m
  OBVIOUS
<1>4. /\ UNCHANGED <<rules, outs, clients, routed, subs>>
      /\ job'[a].task = "delete" /\ job'[a].pc = "read" /\ job'[a].id = i /\ job'[a].who = "creator"
      /\ k \notin hurt' => Stands(k, {})'
      /\ (k \notin hurt' => Works(a, k)') => RoutedInv'
  BY <1>1, <1>2, <1>3, StartOnNode
<1>5. ASSUME k \notin hurt' PROVE Erasing(a, k)'
  BY <1>4, <1>5 DEF Erasing, Stands
<1>6. i \in DOMAIN routed' /\ routed'[i] = k
  BY <1>1, <1>3, <1>4
<1> QED BY <1>4, <1>5, <1>6 DEF Works

LEMMA StartSuspendKeeps ==
    ASSUME RoutedInv, NEW a \in Admins, NEW i, StartSuspend(a, i)
    PROVE  RoutedInv'
<1> DEFINE m == routed[i]
<1>1. i \in DOMAIN routed /\ m \in PrivateMarks /\ Start(a, "suspend", "read", i, m, "creator")
  BY DEF StartSuspend, Private
<1>2. "suspend" \in RoutedTasks \ {"none"} /\ "read" \in RoutedPcs \ {"set"} /\ "creator" \in Emails
  BY DEF RoutedTasks, RoutedPcs, Emails
<1>3. PICK k : k = m
  OBVIOUS
<1>4. /\ UNCHANGED <<rules, outs, clients, routed, subs>>
      /\ job'[a].task = "suspend" /\ job'[a].pc = "read" /\ job'[a].id = i /\ job'[a].who = "creator"
      /\ k \notin hurt' => Stands(k, {})'
      /\ (k \notin hurt' => Works(a, k)') => RoutedInv'
  BY <1>1, <1>2, <1>3, StartOnNode
<1>5. ASSUME k \notin hurt' PROVE Suspending(a, k)'
  BY <1>1, <1>3, <1>4, <1>5, StandsFor DEF Suspending
<1>6. i \in DOMAIN routed' /\ routed'[i] = k
  BY <1>1, <1>3, <1>4
<1> QED BY <1>4, <1>5, <1>6 DEF Works

LEMMA StartResumeKeeps ==
    ASSUME RoutedInv, NEW a \in Admins, NEW i, StartResume(a, i)
    PROVE  RoutedInv'
<1> DEFINE m == routed[i]
<1>1. i \in DOMAIN routed /\ m \in PrivateMarks /\ Start(a, "resume", "client", i, m, "creator")
  BY DEF StartResume, Private
<1>2. "resume" \in RoutedTasks \ {"none"} /\ "client" \in RoutedPcs \ {"set"} /\ "creator" \in Emails
  BY DEF RoutedTasks, RoutedPcs, Emails
<1>3. PICK k : k = m
  OBVIOUS
<1>4. /\ UNCHANGED <<rules, outs, clients, routed, subs>>
      /\ job'[a].task = "resume" /\ job'[a].pc = "client" /\ job'[a].id = i /\ job'[a].who = "creator"
      /\ k \notin hurt' => Stands(k, {})'
      /\ (k \notin hurt' => Works(a, k)') => RoutedInv'
  BY <1>1, <1>2, <1>3, StartOnNode
<1>5. ASSUME k \notin hurt' PROVE Resuming(a, k)'
  BY <1>1, <1>3, <1>4, <1>5, StandsFor DEF Resuming
<1>6. i \in DOMAIN routed' /\ routed'[i] = k
  BY <1>1, <1>3, <1>4
<1> QED BY <1>4, <1>5, <1>6 DEF Works

LEMMA StartSubscribeKeeps ==
    ASSUME RoutedInv, NEW a \in Admins, NEW i, StartSubscribe(a, i)
    PROVE  RoutedInv'
<1> DEFINE m == routed[i]
<1>1. PICK pc \in {"batch", "client"} :
         i \in DOMAIN routed /\ m \notin PrivateMarks /\ Start(a, "subscribe", pc, i, m, "member")
  BY DEF StartSubscribe, Private
<1>2. "subscribe" \in RoutedTasks \ {"none"} /\ pc \in RoutedPcs \ {"set"} /\ "member" \in Emails
  BY DEF RoutedTasks, RoutedPcs, Emails
<1>3. PICK k : k = m
  OBVIOUS
<1>4. /\ UNCHANGED <<rules, outs, clients, routed, subs>>
      /\ job'[a].task = "subscribe" /\ job'[a].pc = pc /\ job'[a].id = i /\ job'[a].who = "member"
      /\ k \notin hurt' => Stands(k, {})'
      /\ (k \notin hurt' => Works(a, k)') => RoutedInv'
  BY <1>1, <1>2, <1>3, StartOnNode
<1>5. ASSUME k \notin hurt' PROVE Subscribing(a, k)'
  BY <1>1, <1>3, <1>4, <1>5 DEF Subscribing
<1>6. i \in DOMAIN routed' /\ routed'[i] = k
  BY <1>1, <1>3, <1>4
<1> QED BY <1>4, <1>5, <1>6 DEF Works

LEMMA StartUnsubscribeKeeps ==
    ASSUME RoutedInv, NEW a \in Admins, NEW i, StartUnsubscribe(a, i)
    PROVE  RoutedInv'
<1> DEFINE m == routed[i]
<1>1. PICK who \in Emails :
         /\ i \in DOMAIN routed /\ <<i, who>> \in DOMAIN subs
         /\ Start(a, "unsubscribe", "rule", i, m, who)
  BY DEF StartUnsubscribe
<1>2. "unsubscribe" \in RoutedTasks \ {"none"} /\ "rule" \in RoutedPcs \ {"set"}
  BY DEF RoutedTasks, RoutedPcs
<1>3. PICK k : k = m
  OBVIOUS
<1>5. /\ UNCHANGED <<rules, outs, clients, routed, subs>>
      /\ job'[a].task = "unsubscribe" /\ job'[a].pc = "rule" /\ job'[a].id = i /\ job'[a].who = who
      /\ k \notin hurt' => Stands(k, {})'
      /\ (k \notin hurt' => Works(a, k)') => RoutedInv'
  BY <1>1, <1>2, <1>3, StartOnNode
<1>6. ASSUME k \notin hurt' PROVE Unsubscribing(a, k)'
  BY <1>1, <1>5, <1>6, StandsFor DEF Unsubscribing
<1>7. i \in DOMAIN routed' /\ routed'[i] = k
  BY <1>1, <1>3, <1>5
<1> QED BY <1>5, <1>6, <1>7 DEF Works

-----------------------------------------------------------------------------
(* The theorems *)

\* The invariant holds at first, and every step keeps it.
LEMMA RoutedStarts == RoutedInit => RoutedInv
<1> SUFFICES ASSUME RoutedInit PROVE RoutedInv
  OBVIOUS
<1> DEFINE none == <<>>
<1>1. /\ rules = none /\ outs = {} /\ clients = {} /\ routed = none /\ subs = none /\ ids = 0
      /\ job = [a \in Admins |-> NoJob] /\ holder = Free /\ dirty = FALSE /\ failures = 0
      /\ hurt = {}
  BY DEF RoutedInit
<1>2. none \in Seq(RuleType) /\ DOMAIN none = {} /\ none \in [{} -> Marks] /\ none \in [{} -> BOOLEAN]
  BY EmptySeq
<1> HIDE DEF none
<1>3. \A a \in Admins : job[a] = NoJob
  BY <1>1
<1>4. job \in [Admins -> JobType]
  BY <1>1, NobodyTyped
<1>5. RoutedTyped
  <2>1. \A a \in Admins : /\ job[a].id \in 0..ids /\ job[a].id \notin DOMAIN routed
                          /\ job[a].task = "none"
    BY <1>1, <1>2, <1>3, NobodyTyped
  <2>2. failures \in 0..MaxFailures
    BY <1>1, RoutedAssumption
  <2> QED BY <1>1, <1>2, <1>3, <1>4, <2>1, <2>2 DEF RoutedTyped
<1>6. LockInv
  BY <1>1, <1>3, NobodyTyped, RoutedAssumption DEF LockInv
<1>7. ASSUME NEW m PROVE MarkInv(m)
  <2>1. \A a \in Admins : ~On(a, m)
    BY <1>3, NobodyTyped DEF On
  <2>2. ~Here(m) /\ KeysOf(m) = {}
    BY <1>1, <1>2 DEF Here, KeysOf
  <2>3. Positions(rules, m) = {}
    BY <1>1, <1>2 DEF Positions
  <2>4. Users(rules, m) = {} /\ ~Several(rules, m)
    BY <2>3 DEF Users, Several
  <2>5. Nothing(m)
    BY <1>1, <2>4 DEF Nothing
  <2> QED BY <1>1, <1>2, <2>1, <2>2, <2>4, <2>5 DEF MarkInv
<1> QED BY <1>5, <1>6, <1>7 DEF RoutedInv, MarksInv

LEMMA RoutedStep == RoutedInv /\ [RoutedNext]_routedVars => RoutedInv'
<1> SUFFICES ASSUME RoutedInv, [RoutedNext]_routedVars PROVE RoutedInv'
  OBVIOUS
<1>1. CASE UNCHANGED routedVars
  <2>1. RoutedTyped' /\ LockInv'
    BY <1>1 DEF RoutedInv, RoutedTyped, LockInv, routedVars
  <2>2. ASSUME NEW m \in Marks \ hurt' PROVE MarkInv(m)'
    <3>1. MarkInv(m) /\ RoutedTyped /\ DOMAIN routed' \subseteq Nat
      BY <1>1 DEF RoutedInv, MarksInv, RoutedTyped, routedVars
    <3>2. KeysOf(m)' = KeysOf(m) /\ \A b \in Admins : On(b, m)' = On(b, m)
      BY <1>1 DEF KeysOf, On, routedVars
    <3> QED BY <1>1, <3>1, <3>2, MarkStays DEF routedVars
  <2> QED BY <2>1, <2>2 DEF RoutedInv, MarksInv
<1>2. CASE RoutedNext
  <2>1. PICK a \in Admins :
           \/ \E m \in Marks : StartCreate(a, m)
           \/ \E i \in 1..ids : \/ StartDelete(a, i) \/ StartSuspend(a, i) \/ StartResume(a, i)
                                \/ StartSubscribe(a, i) \/ StartUnsubscribe(a, i)
           \/ CreateStep(a) \/ CreateRow(a) \/ OwnerRow(a) \/ DeleteStep(a) \/ DeleteRow(a)
           \/ SuspendStep(a) \/ ResumeStep(a)
           \/ job[a].task \in {"suspend", "unsubscribe"} /\ Flag(a, FALSE)
           \/ job[a].task = "resume" /\ Flag(a, TRUE)
           \/ Batch(a) \/ FallbackClient(a) \/ Upsert(a) \/ GetRouting(a) \/ SetRouting(a)
           \/ LeaveRule(a) \/ UnsubscribeStep(a) \/ Stop(a)
    BY <1>2, Zenon DEF RoutedNext
  <2>2. PICK mark : mark = job[a].mark
    OBVIOUS
  <2>3. CASE \E m \in Marks : StartCreate(a, m)
    BY <2>3, StartCreateKeeps
  <2>4. ASSUME NEW i \in 1..ids,
               \/ StartDelete(a, i) \/ StartSuspend(a, i) \/ StartResume(a, i)
               \/ StartSubscribe(a, i) \/ StartUnsubscribe(a, i)
        PROVE  RoutedInv'
    BY <2>4, StartDeleteKeeps, StartSuspendKeeps, StartResumeKeeps, StartSubscribeKeeps,
       StartUnsubscribeKeeps
  <2>5. CASE CreateStep(a)
    BY <2>2, <2>5, CreateKeeps
  <2>6. CASE CreateRow(a) \/ OwnerRow(a)
    BY <2>2, <2>6, CreateRowKeeps, OwnerRowKeeps
  <2>7. CASE DeleteStep(a)
    BY <2>2, <2>7, DeleteKeeps
  <2>8. CASE DeleteRow(a)
    BY <2>2, <2>8, DeleteRowKeeps
  <2>9. CASE SuspendStep(a)
    BY <2>2, <2>9, SuspendKeeps
  <2>10. CASE ResumeStep(a)
    BY <2>2, <2>10, ResumeKeeps
  <2>11. CASE job[a].task \in {"suspend", "unsubscribe"} /\ Flag(a, FALSE)
    BY <2>2, <2>11, FlagKeeps
  <2>12. CASE job[a].task = "resume" /\ Flag(a, TRUE)
    BY <2>2, <2>12, FlagKeeps
  <2>13. CASE Batch(a) \/ FallbackClient(a) \/ Upsert(a)
    BY <2>2, <2>13, BatchKeeps, FallbackKeeps, UpsertKeeps
  <2>14. CASE GetRouting(a) \/ SetRouting(a)
    BY <2>2, <2>14, GetKeeps, SetKeeps
  <2>15. CASE LeaveRule(a) \/ UnsubscribeStep(a)
    BY <2>2, <2>15, UnsubscribeKeeps
  <2>16. CASE Stop(a)
    BY <2>2, <2>16, StopKeeps
  <2> QED BY <2>1, <2>3, <2>4, <2>5, <2>6, <2>7, <2>8, <2>9, <2>10, <2>11, <2>12, <2>13, <2>14,
             <2>15, <2>16
<1> QED BY <1>1, <1>2

\* The invariant of the routed outbounds: a mark that no failure and no second task
\* went over has on the agent what the panel has, and what the task at work has done.
THEOREM RoutedInvariant == RoutedSpec => []RoutedInv
BY RoutedStarts, RoutedStep, PTL DEF RoutedSpec

\* Every variable of the routed outbounds keeps its type.
THEOREM RoutedTypeCorrect == RoutedSpec => []RoutedTypeOK
<1>1. RoutedInv => RoutedTypeOK
  <2> SUFFICES ASSUME RoutedTyped PROVE RoutedTypeOK
    BY DEF RoutedInv
  <2>1. \A i \in DOMAIN rules : rules[i] \in RuleType
    BY LenProperties, ElementOfSeq DEF RoutedTyped
  <2> QED BY <2>1 DEF RoutedTyped, RoutedTypeOK, RuleType
<1> QED BY <1>1, RoutedInvariant, PTL

\* Nobody at work on a mark nothing went over.
LEMMA QuietMark ==
    ASSUME RoutedInv, NEW m \in Marks \ hurt, QuietOn(m)
    PROVE  IF Here(m) THEN Stands(m, {}) ELSE Nothing(m)
<1>1. \A a \in Admins : ~On(a, m)
  BY DEF QuietOn, On
<1> QED BY <1>1 DEF RoutedInv, MarksInv, MarkInv

\* However many nodes, admins and background jobs there are: an active subaccount of
\* a node the panel still has and nobody is at work on has its client, its place in
\* the node's rule and the outbound the rule leads to, but for failed calls and
\* statements, two tasks on one node, and rules removed by an index or overwritten by
\* a copy that had gone stale.  (Of a deleted node it has none of them.)
THEOREM SubscribersAreServed == RoutedSpec => []SubscribersAreRouted
<1>1. RoutedInv => SubscribersAreRouted
  <2> SUFFICES ASSUME RoutedInv, NEW key \in DOMAIN subs, key[1] \in DOMAIN routed,
                      NEW m, m = routed[key[1]], subs[key], QuietOn(m), m \notin hurt
               PROVE  /\ m \in outs /\ <<m, key[2]>> \in clients
                      /\ \E i \in DOMAIN rules : rules[i].mark = m /\ key[2] \in rules[i].users
    BY DEF SubscribersAreRouted
  <2>1. key[1] \in DOMAIN routed /\ m \in Marks
    BY DEF RoutedInv, RoutedTyped
  <2>2. Here(m) /\ key \in KeysOf(m)
    BY <2>1 DEF Here, KeysOf
  <2>3. Stands(m, {})
    BY <2>1, <2>2, QuietMark
  <2>4. m \in outs /\ <<m, key[2]>> \in clients /\ InRule(m, key[2])
    BY <2>2, <2>3 DEF Stands
  <2>5. PICK us \in Users(rules, m) : key[2] \in us
    BY <2>4 DEF InRule
  <2>6. PICK i \in Positions(rules, m) : us = rules[i].users
    BY DEF Users
  <2> QED BY <2>4, <2>5, <2>6 DEF Positions
<1> QED BY <1>1, RoutedInvariant, PTL

\* A node the panel has no more, or never had, has neither rule, outbound nor client on the agent, with
\* the same exceptions: every way a create or a delete can end is undone or done.
THEOREM NothingOutlivesItsRow == RoutedSpec => []NothingIsLeft
<1>1. RoutedInv => NothingIsLeft
  <2> SUFFICES ASSUME RoutedInv, NEW m \in Marks \ hurt, QuietOn(m),
                      \A i \in DOMAIN routed : routed[i] # m
               PROVE  ~HasRule(rules, m) /\ m \notin outs /\ clients \cap ({m} \X Emails) = {}
    BY DEF NothingIsLeft
  <2>1. Nothing(m)
    BY QuietMark DEF Here
  <2>2. Positions(rules, m) = {}
    BY <2>1 DEF Nothing, Users
  <2> QED BY <2>1, <2>2 DEF Nothing, HasRule
<1> QED BY <1>1, RoutedInvariant, PTL
=============================================================================
