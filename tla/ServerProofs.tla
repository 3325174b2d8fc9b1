---------------------------- MODULE ServerProofs ----------------------------
(***************************************************************************)
(* What a panel knows of its servers and what it tells them.  The safety   *)
(* of ServerLiveness, for any number of connections and any amount of      *)
(* trouble; and of LimiterPush, for any number of servers, users,          *)
(* goroutines and requests: a limiter that is not what the database says   *)
(* has a reason, although nobody orders the goroutines.  The two parts     *)
(* share no state.                                                         *)
(***************************************************************************)
EXTENDS ServerLiveness, LimiterPush, TLAPS

-----------------------------------------------------------------------------
(* The state of a server *)

\* No outage, no notice and no connection at the start.
LEMMA LivenessInit == Init => LivenessInv
<1> SUFFICES ASSUME Init PROVE LivenessInv
  OBVIOUS
<1> USE LivenessAssumption DEF LivenessAssumption
<1>1. row \in Row
  BY DEF Init, NewRow, Row, Beats, Since
<1>2. conn \in [Conns -> Conn]
  BY DEF Init, Unused, Conn
<1>3. collector \in Collector
  BY DEF Init, Idle, Collector
<1>4. TypeOK
  <2>1. /\ throttled \in BOOLEAN /\ hub \in Conns \cup {Nobody}
        /\ sweep \in BOOLEAN
        /\ agent \in {"up", "pullOnly", "down"}
    BY DEF Init
  <2>2. /\ trouble \in 0..MaxTrouble /\ told \subseteq Nat
        /\ unsaid \subseteq Nat /\ owed \subseteq Nat
    BY DEF Init
  <2>3. QED
    BY <1>1, <1>2, <1>3, <2>1, <2>2 DEF TypeOK
<1>5. NoticeInv
  BY DEF Init, NoticeInv, NewRow, Idle
<1>6. OneNoticePerOutage /\ NotifiedIsTold /\ HubInv
  <2>1. collector.taken = 0 /\ row.notified = FALSE /\ hub = Nobody
    BY DEF Init, NewRow, Idle
  <2>2. QED
    BY <2>1, Zenon DEF OneNoticePerOutage, NotifiedIsTold, HubInv
<1>7. NoticesPair /\ PairInv
  <2>1. owed = {} /\ \A c \in Conns : conn[c].ends = 0
    BY DEF Init, Unused
  <2>2. QED
    BY <2>1 DEF NoticesPair, PairInv, Due, Noticed
<1>8. QED
  BY <1>4, <1>5, <1>6, <1>7 DEF LivenessInv

----------------------------------------------------------------------------
(* What the statements on the row return.                                 *)

\* A row stays a row: none of the updates leaves a column undefined.
LEMMA RowUpdates ==
    ASSUME NEW r \in Row
    PROVE  /\ Heard(r) \in Row /\ PushWorks(r) \in Row /\ Offline(r) \in Row
           /\ Heard(r).status = "connected" /\ ~Heard(r).notified
           /\ Heard(r).outage = r.outage
           /\ PushWorks(r).status = r.status
           /\ PushWorks(r).since = r.since
           /\ PushWorks(r).notified = r.notified
           /\ PushWorks(r).outage = r.outage
  <1>1. /\ Heard(r) \in Row
        /\ Heard(r).status = "connected" /\ ~Heard(r).notified
        /\ Heard(r).outage = r.outage
    BY DEF Row, Beats, Since, Heard
  <1>2. /\ PushWorks(r) \in Row
        /\ PushWorks(r).status = r.status /\ PushWorks(r).since = r.since
        /\ PushWorks(r).notified = r.notified
        /\ PushWorks(r).outage = r.outage
    <2>1. 0 \in 0..Threshold
      BY LivenessAssumption DEF LivenessAssumption
    <2>2. QED
      BY <2>1 DEF Row, PushWorks
  <1>3. Offline(r) \in Row
    <2>1. r.outage + 1 \in Nat
      BY DEF Row
    <2>2. QED
      BY <2>1 DEF Row, Since, Offline
  <1>4. QED
    BY <1>1, <1>2, <1>3

\* What the notices depend on.
SameOutage(r, s) ==
    /\ s.status = r.status /\ s.notified = r.notified /\ s.outage = r.outage
    /\ s.since # r.since => s.since = "ripe"

Notices == NoticeInv /\ OneNoticePerOutage /\ NotifiedIsTold

\* A step that leaves the outage and the collector alone keeps the notices.
LEMMA NoticesOfSameOutage ==
    ASSUME Notices, SameOutage(row, row'), UNCHANGED <<told, unsaid>>,
           \/ UNCHANGED collector
           \/ /\ collector.taken = 0 /\ collector'.taken = 0
              /\ collector'.at \notin {"update", "tell"}
    PROVE  Notices'
  BY DEF Notices, NoticeInv, OneNoticePerOutage, NotifiedIsTold, SameOutage

\* Neither does hearing from the agent, which ends the outage.
LEMMA NoticesWhenHeard ==
    ASSUME TypeOK, Notices, row' = Heard(row) \/ row' = PushWorks(Heard(row)),
           UNCHANGED <<told, unsaid>>,
           \/ UNCHANGED collector
           \/ /\ collector.taken = 0 /\ collector'.taken = 0
              /\ collector'.at \notin {"update", "tell"}
    PROVE  Notices'
  <1>1. /\ row'.status = "connected" /\ ~row'.notified
        /\ row'.outage = row.outage
    BY RowUpdates DEF TypeOK
  <1>2. QED
    BY <1>1 DEF Notices, NoticeInv, OneNoticePerOutage, NotifiedIsTold

\* Nor does marking it offline, which begins a new one.
LEMMA NoticesWhenOffline ==
    ASSUME TypeOK, Notices, row' = Offline(row), UNCHANGED <<told, unsaid>>,
           \/ UNCHANGED collector
           \/ /\ collector.taken = 0 /\ collector'.taken = 0
              /\ collector'.at \notin {"update", "tell"}
    PROVE  Notices'
  <1>1. CASE row.status = "connected"
    <2>1. /\ row'.status = "offline" /\ ~row'.notified
          /\ row'.outage = row.outage + 1
      BY <1>1 DEF Offline, TypeOK, Row
    <2>2. row.outage \in Nat /\ collector.taken \in Nat /\ told \subseteq Nat
      BY DEF TypeOK, Row, Collector
    <2>3. \A o \in told : o <= row.outage
      BY DEF Notices, NoticeInv
    <2>4. collector'.taken <= row.outage
      BY <2>2 DEF Notices, NoticeInv
    <2>5. NoticeInv'
      BY <2>1, <2>2, <2>3, <2>4 DEF Notices, NoticeInv
    <2>6. QED
      BY <2>1, <2>5 DEF Notices, OneNoticePerOutage, NotifiedIsTold
  <1>2. CASE row.status # "connected"
    <2>1. row' = row
      BY <1>2 DEF Offline
    <2>2. QED
      BY <2>1, NoticesOfSameOutage DEF SameOutage
  <1>3. QED
    BY <1>1, <1>2

----------------------------------------------------------------------------
(* Each part of the invariant is kept by every step.                      *)

\* Where a goroutine goes, a connection stays a connection.
LEMMA GoesType ==
    ASSUME conn \in [Conns -> Conn], NEW c \in Conns, NEW from,
           NEW to \in {"unused", "auth", "load", "swap", "store", "beat", "reset",
                       "live", "delete", "mark", "done"},
           Advances(c, from, to)
    PROVE  conn' \in [Conns -> Conn]
  BY DEF Advances, Conn

\* An activity of the agent, throttled or not, leaves a row.
LEMMA ActivityType ==
    ASSUME TypeOK, Activity
    PROVE  row' \in Row /\ throttled' \in BOOLEAN
  BY RowUpdates DEF Activity, TypeOK

\* A step of the collector's round goes where it says and keeps the outage in
\* its hands.
LEMMA StepType ==
    ASSUME collector \in Collector, NEW from,
           NEW to \in {"idle", "take", "update", "tell", "list", "visit",
                       "count", "decide", "fall"},
           Step(from, to)
    PROVE  /\ collector' \in Collector
           /\ collector'.at = to /\ collector'.taken = collector.taken
  BY DEF Step, Collector, Idle

\* No statement on the row, no handler and no step of the round leaves the
\* types.
LEMMA TypeStep == TypeOK /\ [Next]_vars => TypeOK'
<1> SUFFICES ASSUME TypeOK, [Next]_vars PROVE TypeOK'
  OBVIOUS
<1> USE DEF hubVars, world, history
<1>typed. /\ row \in Row /\ throttled \in BOOLEAN
          /\ hub \in Conns \cup {Nobody}
          /\ conn \in [Conns -> Conn]
          /\ sweep \in BOOLEAN
          /\ collector \in Collector
          /\ agent \in {"up", "pullOnly", "down"}
          /\ trouble \in 0..MaxTrouble
          /\ told \subseteq Nat /\ unsaid \subseteq Nat /\ owed \subseteq Nat
  BY DEF TypeOK
<1>trouble. Trouble => trouble' \in 0..MaxTrouble
  BY <1>typed, LivenessAssumption DEF Trouble, LivenessAssumption
<1>1. ASSUME NEW to \in {"up", "pullOnly", "down"}, AgentMoves(to)
      PROVE  TypeOK'
  BY <1>1, <1>typed, <1>trouble DEF AgentMoves, TypeOK
<1>2. ASSUME NEW c \in Conns, Accept(c) \/ Break(c) \/ AuthRead(c) \/ AuthLoad(c)
      PROVE  TypeOK'
  <2>1. conn[c] \in Conn
    BY <1>typed
  <2>2. ASSUME Accept(c) PROVE conn' \in [Conns -> Conn]
    <3>1. [conn[c] EXCEPT !.at = "auth", !.open = TRUE] \in Conn
      BY <2>1 DEF Conn
    <3>2. QED
      BY <2>2, <3>1, <1>typed DEF Accept
  <2>3. ASSUME Break(c) PROVE conn' \in [Conns -> Conn]
    <3>1. [conn[c] EXCEPT !.open = FALSE] \in Conn
      BY <2>1 DEF Conn
    <3>2. QED
      BY <2>3, <3>1, <1>typed DEF Break
  <2>4. ASSUME AuthLoad(c) PROVE conn' \in [Conns -> Conn]
    <3>1. /\ [conn[c] EXCEPT !.at = "store"] \in Conn
          /\ [conn[c] EXCEPT !.at = "swap", !.prev = hub, !.ends = 0] \in Conn
      BY <2>1, <1>typed DEF Conn
    <3>2. QED
      BY <2>4, <3>1, <1>typed DEF AuthLoad
  <2>7. ASSUME AuthRead(c) PROVE conn' \in [Conns -> Conn]
    <3>1. EndOf(row) \in Nat
      BY <1>typed DEF EndOf, Row
    <3>2. [conn[c] EXCEPT !.at = "load", !.ends = EndOf(row)] \in Conn
      BY <2>1, <3>1 DEF Conn
    <3>3. QED
      BY <2>7, <3>2, <1>typed DEF AuthRead
  <2>5. conn' \in [Conns -> Conn]
    BY <1>2, <2>2, <2>3, <2>4, <2>7
  <2>6. QED
    BY <1>2, <1>typed, <2>5
    DEF Accept, Break, AuthRead, AuthLoad, Silently, Settled, TypeOK
<1>3. ASSUME NEW c \in Conns, AuthSwap(c)
      PROVE  TypeOK'
  <2>1. ASSUME NEW d \in Conns
        PROVE  /\ conn[d] \in Conn
               /\ [conn[d] EXCEPT !.at = "store", !.prev = Nobody] \in Conn
               /\ [conn[d] EXCEPT !.open = FALSE] \in Conn
    <3>1. conn[d] \in Conn
      BY <1>typed
    <3>2. QED
      BY <3>1 DEF Conn
  <2>2. conn' \in [Conns -> Conn]
    BY <1>3, <2>1 DEF AuthSwap
  <2>3. QED
    BY <1>3, <1>typed, <2>2 DEF AuthSwap, TypeOK
<1>4. ASSUME NEW c \in Conns, AuthStore(c) \/ CleanupDelete(c) \/ CleanupLoad(c)
      PROVE  TypeOK'
  <2>1. conn' \in [Conns -> Conn]
    BY <1>4, <1>typed, GoesType DEF AuthStore, CleanupDelete, CleanupLoad
  <2>2. QED
    BY <1>4, <1>typed, <2>1 DEF AuthStore, CleanupDelete, CleanupLoad, TypeOK
<1>5. ASSUME NEW c \in Conns, AuthBeat(c) \/ AuthReset(c) \/ CleanupMark(c)
      PROVE  TypeOK'
  <2>1. conn' \in [Conns -> Conn]
    <3>1. [conn[c] EXCEPT !.at = "live", !.ends = 0] \in Conn
      <4>1. conn[c] \in Conn
        BY <1>typed
      <4>2. QED
        BY <4>1 DEF Conn
    <3>2. QED
      BY <1>5, <3>1, <1>typed, GoesType DEF AuthBeat, AuthReset, CleanupMark
  <2>2. row' \in Row
    BY <1>5, <1>typed, RowUpdates DEF AuthBeat, AuthReset, CleanupMark
  <2>3. QED
    BY <1>5, <1>typed, <2>1, <2>2
    DEF AuthBeat, AuthReset, CleanupMark, Settled, TypeOK
<1>6. ASSUME Heartbeats
      PROVE  TypeOK'
  <2>1. row' \in Row
    BY <1>6, <1>typed, RowUpdates DEF Heartbeats, HttpHeartbeat, WsHeartbeat
  <2>2. QED
    BY <1>6, <1>typed, <2>1
    DEF Heartbeats, HttpHeartbeat, WsHeartbeat, Silently, Settled, TypeOK
<1>7. ASSUME HttpActivity \/ \E c \in Conns : WsActivity(c)
      PROVE  TypeOK'
  <2>1. row' \in Row /\ throttled' \in BOOLEAN
    BY <1>7, ActivityType, <1>typed, RowUpdates DEF HttpActivity, WsActivity
  <2>2. QED
    BY <1>7, <1>typed, <2>1
    DEF HttpActivity, WsActivity, Activity, Silently, Settled, TypeOK
<1>8. ASSUME BeatAges \/ SinceRipens \/ ThrottleEnds
      PROVE  TypeOK'
  <2>1. row' \in Row /\ throttled' \in BOOLEAN
    BY <1>8, <1>typed DEF BeatAges, SinceRipens, ThrottleEnds, Row, Beats, Since
  <2>2. trouble' \in 0..MaxTrouble
    BY <1>8, <1>typed, <1>trouble DEF BeatAges, SinceRipens, ThrottleEnds
  <2>3. QED
    BY <1>8, <1>typed, <2>1, <2>2 DEF BeatAges, SinceRipens, ThrottleEnds, TypeOK
<1>9. ASSUME Sweep
      PROVE  TypeOK'
  <2>1. conn' \in [Conns -> Conn]
    BY ZenonT(40), <1>9, <1>typed DEF Sweep, SweepClose, SweepDelete, Conn
  <2>2. QED
    BY <1>9, <1>typed, <2>1 DEF Sweep, SweepClose, SweepDelete, TypeOK
<1>10. ASSUME Round
       PROVE  TypeOK'
  <2>1. CASE MarkOffline \/ Update \/ Count \/ FallBack
    <3>1. collector' \in Collector
      BY <2>1, <1>typed, StepType DEF MarkOffline, Update, Count, FallBack
    <3>2. row' \in Row
      <4>1. Offline(row) \in Row /\ [row EXCEPT !.notified = TRUE] \in Row
            /\ [row EXCEPT !.fallback = TRUE] \in Row
        BY <1>typed, RowUpdates DEF Row
      <4>2. row.fails < Threshold => row.fails + 1 \in 0..Threshold
        BY <1>typed, LivenessAssumption DEF Row, LivenessAssumption
      <4>3. [row EXCEPT !.fails = IF @ < Threshold THEN @ + 1 ELSE @] \in Row
        BY <1>typed, <4>2 DEF Row
      <4>4. QED
        BY <2>1, <1>typed, <4>1, <4>3 DEF MarkOffline, Update, Count, FallBack
    <3>3. owed' \subseteq Nat
      <4>1. row.outage \in Nat
        BY <1>typed DEF Row
      <4>2. QED
        BY <2>1, <4>1, <1>typed DEF MarkOffline, Update, Count, FallBack
    <3>4. QED
      BY <2>1, <1>typed, <3>1, <3>2, <3>3
      DEF MarkOffline, Update, Count, FallBack, TypeOK
  <2>2. CASE Pass \/ Judge \/ Decide
    <3>1. collector' \in Collector
      BY <2>2, <1>typed, StepType DEF Pass, Judge, Decide
    <3>2. QED
      BY <2>2, <1>typed, <3>1 DEF Pass, Judge, Decide, TypeOK
  <2>3. CASE Pull
    <3>1. collector' \in Collector
      BY <2>3, <1>typed, StepType DEF Pull
    <3>2. row' \in Row /\ throttled' \in BOOLEAN
      BY <2>3, <1>typed, ActivityType DEF Pull
    <3>3. QED
      BY <2>3, <1>typed, <3>1, <3>2 DEF Pull, Activity, Silently, Settled, TypeOK
  <2>4. CASE Take \/ Tell \/ List
    <3>1. row.outage \in Nat /\ collector.taken \in Nat
      BY <1>typed DEF Row, Collector
    <3>2. collector' \in Collector
      <4>1. CASE Take
        BY <4>1, <1>typed, <3>1 DEF Take, Collector
      <4>2. CASE Tell
        BY <4>2, <1>typed DEF Tell, Collector
      <4>3. CASE List
        <5>1. Todo(row) \in {"pass", "pull", "count"}
          BY Zenon DEF Todo
        <5>2. collector' = [at |-> "visit", todo |-> Todo(row), taken |-> 0]
          BY <4>3 DEF List, Idle
        <5>3. QED
          BY <5>1, <5>2 DEF Collector
      <4>4. QED
        BY <2>4, <4>1, <4>2, <4>3
    <3>3. told' \subseteq Nat
      BY <2>4, <1>typed, <3>1 DEF Take, Tell, List
    <3>4. QED
      BY <2>4, <1>typed, <3>2, <3>3 DEF Take, Tell, List, TypeOK
  <2>5. QED
    BY <1>10, <2>1, <2>2, <2>3, <2>4 DEF Round
<1>11. ASSUME Restart
       PROVE  TypeOK'
  <2>1. conn' \in [Conns -> Conn]
    BY <1>11 DEF Restart, Unused, Conn
  <2>2. collector' \in Collector
    BY <1>11 DEF Restart, Idle, Collector
  <2>3. unsaid' \subseteq Nat /\ owed' \subseteq Nat
    BY <1>11, <1>typed DEF Restart, Collector, Telling
  <2>4. QED
    BY <1>11, <1>typed, <1>trouble, <2>1, <2>2, <2>3 DEF Restart, TypeOK
<1>12. CASE UNCHANGED vars
  BY <1>12, <1>typed DEF vars, TypeOK
<1>13. QED
  BY <1>1, <1>2, <1>3, <1>4, <1>5, <1>6, <1>7, <1>8, <1>9, <1>10, <1>11, <1>12
  DEF Next, Handler

\* What the collector is about to announce, what was announced and what the row
\* says of it stay in agreement: most steps leave the outage alone or hear from
\* the agent; the SELECT, the UPDATE and the notice are taken one by one.
LEMMA NoticeStep == TypeOK /\ Notices /\ [Next]_vars => Notices'
<1> SUFFICES ASSUME TypeOK, Notices, [Next]_vars PROVE Notices'
  OBVIOUS
<1> USE DEF hubVars, world, history
<1>idle. ASSUME collector.at \notin {"update", "tell"}
         PROVE  collector.taken = 0
  BY <1>idle DEF Notices, NoticeInv
<1>1. ASSUME UNCHANGED <<row, collector, told, unsaid>>
      PROVE  Notices'
  BY <1>1, NoticesOfSameOutage DEF SameOutage
<1>2. ASSUME Activity, UNCHANGED <<told, unsaid>>,
             \/ UNCHANGED collector
             \/ /\ collector.taken = 0 /\ collector'.taken = 0
                /\ collector'.at \notin {"update", "tell"}
      PROVE  Notices'
  BY <1>2, NoticesWhenHeard, NoticesOfSameOutage DEF Activity, SameOutage
<1>3. ASSUME NEW c \in Conns, Handler(c)
      PROVE  Notices'
  <2>1. CASE AuthBeat(c)
    BY <2>1, NoticesWhenHeard DEF AuthBeat
  <2>2. CASE AuthReset(c)
    BY <2>2, NoticesOfSameOutage, RowUpdates DEF AuthReset, SameOutage, TypeOK
  <2>3. CASE CleanupMark(c)
    BY <2>3, NoticesWhenOffline DEF CleanupMark
  <2>4. QED
    BY <1>3, <1>1, <2>1, <2>2, <2>3
    DEF Handler, AuthRead, AuthLoad, AuthSwap, AuthStore, CleanupLoad, CleanupDelete
<1>4. ASSUME Heartbeats
      PROVE  Notices'
  BY <1>4, NoticesWhenHeard DEF Heartbeats, HttpHeartbeat, WsHeartbeat
<1>5. ASSUME BeatAges \/ SinceRipens \/ ThrottleEnds
      PROVE  Notices'
  <2>1. SameOutage(row, row')
    BY <1>5 DEF BeatAges, SinceRipens, ThrottleEnds, SameOutage, TypeOK, Row
  <2>2. QED
    BY <1>5, <2>1, NoticesOfSameOutage DEF BeatAges, SinceRipens, ThrottleEnds
<1>6. ASSUME MarkOffline
      PROVE  Notices'
  <2>1. /\ UNCHANGED <<told, unsaid>>
        /\ collector.taken = 0 /\ collector'.taken = 0
        /\ collector'.at \notin {"update", "tell"}
    BY <1>6, <1>idle, StepType DEF MarkOffline, Step, TypeOK
  <2>2. QED
    BY <1>6, <2>1, NoticesWhenOffline, NoticesOfSameOutage
    DEF MarkOffline, SameOutage
<1>7. ASSUME Take
      PROVE  Notices'
  <2>1. CASE ~Announceable(row)
    <3>1. /\ collector.taken = 0 /\ collector'.taken = 0
          /\ collector'.at = "list"
      BY <1>7, <2>1, <1>idle DEF Take, TypeOK, Collector
    <3>2. QED
      BY <1>7, <3>1, NoticesOfSameOutage DEF Take, SameOutage
  <2>2. CASE Announceable(row)
    <3>1. collector'.at = "update" /\ collector'.taken = row.outage
      BY <1>7, <2>2 DEF Take, TypeOK, Collector
    <3>2. /\ row' = row /\ told' = told /\ unsaid' = unsaid
          /\ row.status = "offline" /\ ~row.notified /\ row.since = "ripe"
      BY <1>7, <2>2 DEF Take, Announceable
    <3>3. row.outage \in Nat /\ row.outage # 0
      BY <3>2 DEF TypeOK, Row, Notices, NoticeInv
    <3>4. QED
      BY <3>1, <3>2, <3>3
      DEF Notices, NoticeInv, OneNoticePerOutage, NotifiedIsTold
  <2>3. QED
    BY <2>1, <2>2
<1>8. ASSUME Update
      PROVE  Notices'
  <2>1. /\ collector.at = "update" /\ collector'.at = "tell"
        /\ collector'.taken = collector.taken
        /\ told' = told /\ unsaid' = unsaid
    BY <1>8, StepType DEF Update, Step, TypeOK
  <2>2. /\ row'.status = row.status /\ row'.outage = row.outage
        /\ row'.since = row.since
        /\ row'.notified => \/ row.notified
                            \/ /\ row.outage = collector.taken
                               /\ row.status = "offline"
        /\ row.notified => row'.notified
        /\ row.status = "offline" /\ row.outage = collector.taken
              => row'.notified
    BY <1>8, <2>1
    DEF Update, Announceable, TypeOK, Row, Notices, NoticeInv
  <2>3. NoticeInv'
    BY <2>1, <2>2 DEF Notices, NoticeInv
  <2>4. QED
    BY <2>1, <2>2, <2>3 DEF Notices, OneNoticePerOutage, NotifiedIsTold
<1>9. ASSUME Tell
      PROVE  Notices'
  <2>1. /\ collector.at = "tell" /\ collector'.at = "list"
        /\ collector'.taken = 0
        /\ told' = told \cup {collector.taken}
        /\ row' = row /\ unsaid' = unsaid
    BY <1>9 DEF Tell, TypeOK, Collector
  <2>2. row.outage \in Nat /\ collector.taken \in Nat
    BY DEF TypeOK, Row, Collector
  <2>3. NoticeInv'
    BY <2>1, <2>2 DEF Notices, NoticeInv
  <2>4. QED
    BY <2>1, <2>3 DEF Notices, OneNoticePerOutage, NotifiedIsTold
<1>10. ASSUME List \/ Pass \/ Judge \/ Decide
       PROVE  Notices'
  <2>1. /\ collector.taken = 0 /\ collector'.taken = 0
        /\ collector'.at \notin {"update", "tell"}
    BY <1>10, <1>idle, StepType
    DEF List, Pass, Judge, Decide, Step, Idle, TypeOK
  <2>2. QED
    BY <1>10, <2>1, NoticesOfSameOutage
    DEF List, Pass, Judge, Decide, SameOutage
<1>11. ASSUME Pull
       PROVE  Notices'
  <2>1. /\ collector.taken = 0 /\ collector'.taken = 0
        /\ collector'.at \notin {"update", "tell"}
    BY <1>11, <1>idle, StepType DEF Pull, Step, TypeOK
  <2>2. QED
    BY <1>11, <1>2, <2>1, NoticesOfSameOutage DEF Pull, SameOutage
<1>12. ASSUME Count \/ FallBack
       PROVE  Notices'
  <2>1. /\ collector.taken = 0 /\ collector'.taken = 0
        /\ collector'.at \notin {"update", "tell"}
    BY <1>12, <1>idle, StepType DEF Count, FallBack, Step, TypeOK
  <2>2. SameOutage(row, row')
    BY <1>12 DEF Count, FallBack, SameOutage, TypeOK, Row
  <2>3. QED
    BY <1>12, <2>1, <2>2, NoticesOfSameOutage DEF Count, FallBack
<1>13. ASSUME Restart
       PROVE  Notices'
  <2>1. /\ collector'.at = "idle" /\ collector'.taken = 0
        /\ row' = row /\ told' = told /\ unsaid \subseteq unsaid'
        /\ collector.at = "tell" => collector.taken \in unsaid'
    BY <1>13 DEF Restart, Idle, Telling
  <2>2. row.outage \in Nat
    BY DEF TypeOK, Row
  <2>3. NoticeInv'
    BY <2>1, <2>2 DEF Notices, NoticeInv
  <2>4. QED
    BY <2>1, <2>3 DEF Notices, OneNoticePerOutage, NotifiedIsTold
<1>14. QED
  <2>1. ASSUME \E to \in {"up", "pullOnly", "down"} : AgentMoves(to)
        PROVE  Notices'
    BY <2>1, <1>1 DEF AgentMoves
  <2>2. ASSUME NEW c \in Conns, Accept(c) \/ Break(c) \/ WsActivity(c)
        PROVE  Notices'
    BY <2>2, <1>1, <1>2 DEF Accept, Break, WsActivity
  <2>3. ASSUME HttpActivity \/ Sweep
        PROVE  Notices'
    BY <2>3, <1>1, NoticesWhenHeard DEF HttpActivity, Sweep, SweepClose, SweepDelete
  <2>4. CASE UNCHANGED vars
    BY <2>4, <1>1 DEF vars
  <2>5. QED
    BY <1>3, <1>4, <1>5, <1>6, <1>7, <1>8, <1>9, <1>10, <1>11, <1>12, <1>13,
       <2>1, <2>2, <2>3, <2>4
    DEF Next, Round

\* Only storing a connection puts it into the hub; a goroutine that goes on to
\* its end passes the deletion of the entry first.
LEMMA HubStep == TypeOK /\ HubInv /\ [Next]_vars => HubInv'
<1> SUFFICES ASSUME TypeOK, HubInv, [Next]_vars PROVE HubInv'
  OBVIOUS
<1> USE DEF hubVars, world
<1>typed. /\ Nobody \notin Conns
          /\ hub \in Conns \cup {Nobody}
          /\ conn \in [Conns -> Conn]
  BY LivenessAssumption DEF LivenessAssumption, TypeOK
<1>same. ASSUME hub' = hub, \A d \in Conns : conn'[d].at = conn[d].at
         PROVE  HubInv'
  BY <1>same, <1>typed DEF HubInv
<1>empty. ASSUME hub' = Nobody PROVE HubInv'
  BY <1>empty DEF HubInv
<1>goes. ASSUME NEW c \in Conns, NEW from, NEW to, Advances(c, from, to), hub' = hub,
                \/ from \notin {"beat", "reset", "live", "delete"}
                \/ to \in {"beat", "reset", "live", "delete"}
                \/ hub # c
         PROVE  HubInv'
  BY <1>goes, <1>typed DEF Advances, HubInv, Conn
<1>1. ASSUME NEW c \in Conns, Accept(c) \/ AuthRead(c) \/ AuthLoad(c) \/ AuthReset(c)
      PROVE  HubInv'
  <2>1. hub' = hub /\ (hub = c => AuthReset(c))
    BY <1>1, <1>typed DEF Accept, AuthRead, AuthLoad, AuthReset, HubInv, Unused
  <2>2. \A d \in Conns \ {c} : conn'[d] = conn[d]
    BY <1>1, <1>typed DEF Accept, AuthRead, AuthLoad, AuthReset
  <2>3. AuthReset(c) => conn'[c].at = "live"
    BY <1>typed DEF AuthReset, Conn
  <2>4. QED
    BY <2>1, <2>2, <2>3, <1>typed DEF HubInv
<1>2. ASSUME NEW c \in Conns, Break(c) \/ WsActivity(c)
      PROVE  HubInv'
  BY <1>2, <1>typed, <1>same DEF Break, WsActivity, Conn
<1>3. ASSUME NEW c \in Conns, AuthStore(c)
      PROVE  HubInv'
  BY <1>3, <1>typed DEF AuthStore, Advances, HubInv, Conn
<1>4. ASSUME NEW c \in Conns, AuthBeat(c) \/ CleanupLoad(c) \/ CleanupMark(c)
      PROVE  HubInv'
  BY <1>4, <1>goes DEF AuthBeat, CleanupLoad, CleanupMark
<1>5. ASSUME NEW c \in Conns, AuthSwap(c) \/ CleanupDelete(c)
      PROVE  HubInv'
  BY <1>5, <1>empty DEF AuthSwap, CleanupDelete
<1>6. ASSUME SweepClose
      PROVE  HubInv'
  BY <1>6, <1>typed, <1>same DEF SweepClose, Conn
<1>7. ASSUME SweepDelete \/ Restart
      PROVE  HubInv'
  BY <1>7, <1>empty DEF SweepDelete, Restart
<1>8. ASSUME UNCHANGED <<hub, conn>>
      PROVE  HubInv'
  BY <1>8 DEF HubInv
<1>9. QED
  <2>1. ASSUME \E to \in {"up", "pullOnly", "down"} : AgentMoves(to)
        PROVE  HubInv'
    BY <2>1, <1>8 DEF AgentMoves
  <2>2. ASSUME BeatAges \/ SinceRipens \/ ThrottleEnds \/ Heartbeats
               \/ HttpActivity
        PROVE  HubInv'
    BY <2>2, <1>8 DEF BeatAges, SinceRipens, ThrottleEnds, Heartbeats,
                      HttpHeartbeat, WsHeartbeat, HttpActivity
  <2>3. ASSUME Round
        PROVE  HubInv'
    BY <2>3, <1>8 DEF Round, MarkOffline, Take, Update, Tell, List, Pass, Pull,
                      Judge, Count, Decide, FallBack
  <2>4. CASE UNCHANGED vars
    BY <2>4, <1>8 DEF vars
  <2>5. QED
    BY <1>1, <1>2, <1>3, <1>4, <1>5, <1>6, <1>7, <2>1, <2>2, <2>3, <2>4
    DEF Next, Handler, Sweep

----------------------------------------------------------------------------
(* Notices in pairs.                                                      *)

Pairs == NoticesPair /\ PairInv

\* Nobody forgets an outage people were told of, or would have been.
Remembers == Noticed \subseteq Noticed'

\* A step that leaves the outage alone keeps the pairs, if no goroutine forgets
\* what it is to announce of an outage that is still owed, and none comes to
\* have read the row.
LEMMA PairsOfSameOutage ==
    ASSUME TypeOK, Pairs, Remembers, owed' \subseteq owed,
           row'.status = row.status, row'.outage = row.outage,
           row'.notified = row.notified,
           \A c \in Conns :
              /\ conn'[c].ends \in {0, conn[c].ends}
              /\ \/ HasRead(c)' => HasRead(c) /\ conn'[c].ends = conn[c].ends
                 \/ ~(row.outage \in owed' /\ Missed(row))
              /\ \/ conn[c].at = "reset" => /\ conn'[c].at = "reset"
                                           /\ conn'[c].ends = conn[c].ends
                 \/ conn[c].ends \notin owed'
    PROVE  Pairs'
<1>1. 0 \in Noticed /\ Noticed \subseteq Noticed'
  BY DEF Noticed, Remembers
<1>2. \A c \in Conns : conn'[c].ends \in Noticed'
  BY <1>1 DEF Pairs, PairInv
<1>3. ASSUME NEW o \in owed', Over(o)' PROVE o \in Due'
  <2>1. o \in owed /\ Over(o)
    BY <1>3 DEF Over
  <2>2. PICK c \in Conns : conn[c].at = "reset" /\ conn[c].ends = o
    BY <2>1 DEF Pairs, NoticesPair, Due
  <2>3. conn'[c].at = "reset" /\ conn'[c].ends = o
    BY <1>3, <2>2
  <2>4. QED
    BY <2>3 DEF Due
<1>4. Due' \subseteq Noticed'
  BY <1>2 DEF Due
<1>5. ASSUME NEW c \in Conns, HasRead(c)', row'.outage \in owed', Missed(row)'
      PROVE  conn'[c].ends = row'.outage
  <2>1. HasRead(c) /\ conn'[c].ends = conn[c].ends
    BY <1>5 DEF Missed
  <2>2. QED
    BY <1>5, <2>1 DEF Pairs, PairInv, Missed
<1>6. /\ \A o \in owed' : o <= row'.outage
      /\ row'.outage \in owed' /\ row'.status # "connected" => Missed(row)'
  BY DEF Pairs, PairInv, Missed
<1>7. QED
  BY <1>2, <1>3, <1>4, <1>5, <1>6 DEF Pairs, NoticesPair, PairInv

\* In particular one that leaves the goroutines alone.
LEMMA PairsOfSameGoroutines ==
    ASSUME TypeOK, Pairs, Remembers, owed' \subseteq owed,
           row'.status = row.status, row'.outage = row.outage,
           row'.notified = row.notified,
           \A c \in Conns : conn'[c].at = conn[c].at /\ conn'[c].ends = conn[c].ends
    PROVE  Pairs'
<1>1. \A c \in Conns : HasRead(c)' => HasRead(c)
  BY DEF HasRead
<1>2. QED
  BY <1>1, PairsOfSameOutage

\* Hearing from the agent ends the outage. If its end is owed, it is settled or
\* the goroutine that writes the row is about to announce it.
LEMMA PairsWhenHeard ==
    ASSUME TypeOK, Pairs, Remembers, owed' \subseteq owed,
           row' = Heard(row) \/ row' = PushWorks(Heard(row)),
           \A c \in Conns : /\ conn'[c].ends = conn[c].ends
                            /\ conn[c].at = "reset" => conn'[c].at = "reset",
           row.outage \in owed' /\ row.status # "connected" => row.outage \in Due'
    PROVE  Pairs'
<1>1. /\ row'.status = "connected" /\ ~row'.notified
      /\ row'.outage = row.outage
  BY RowUpdates DEF TypeOK
<1>2. \A c \in Conns : conn'[c].ends \in Noticed'
  BY DEF Pairs, PairInv, Remembers
<1>3. Due \subseteq Due' /\ Due' \subseteq Noticed'
  BY <1>2 DEF Due
<1>4. ASSUME NEW o \in owed' PROVE o \in Due'
  <2>1. o \in Nat /\ row.outage \in Nat /\ o <= row.outage
    BY DEF TypeOK, Row, Pairs, PairInv
  <2>2. CASE Over(o)
    BY <1>3, <2>2 DEF Pairs, NoticesPair
  <2>3. CASE ~Over(o)
    BY <2>1, <2>3, <1>4 DEF Over
  <2>4. QED
    BY <2>2, <2>3
<1>5. \A o \in owed' : o <= row'.outage
  BY <1>1 DEF Pairs, PairInv
<1>6. QED
  BY <1>1, <1>2, <1>3, <1>4, <1>5 DEF Pairs, NoticesPair, PairInv, Missed

\* Marking the server offline begins an outage of which nothing is owed.
LEMMA PairsWhenOffline ==
    ASSUME TypeOK, Pairs, Remembers, owed' = owed, row' = Offline(row),
           \A c \in Conns : /\ conn'[c].ends = conn[c].ends
                            /\ conn[c].at = "reset" <=> conn'[c].at = "reset"
                            /\ HasRead(c)' => HasRead(c)
    PROVE  Pairs'
<1>1. CASE row.status = "connected"
  <2>1. /\ row'.status = "offline" /\ ~row'.notified
        /\ row'.outage = row.outage + 1
    BY <1>1 DEF Offline, TypeOK, Row
  <2>2. row.outage \in Nat /\ owed \subseteq Nat
    BY DEF TypeOK, Row
  <2>3. \A o \in owed : o <= row.outage /\ Over(o)
    BY <1>1 DEF Pairs, PairInv, Over
  <2>4. \A c \in Conns : conn'[c].ends \in Noticed'
    BY DEF Pairs, PairInv, Remembers
  <2>5. Due' = Due /\ Due' \subseteq Noticed'
    BY <2>4 DEF Due
  <2>6. \A o \in owed' : o \in Due' /\ o <= row'.outage /\ o # row'.outage
    BY <2>1, <2>2, <2>3, <2>5 DEF Pairs, NoticesPair
  <2>7. QED
    BY <2>1, <2>4, <2>5, <2>6 DEF Pairs, NoticesPair, PairInv, Missed
<1>2. CASE row.status # "connected"
  <2>1. row' = row
    BY <1>2 DEF Offline
  <2>2. QED
    BY <2>1, PairsOfSameOutage
<1>3. QED
  BY <1>1, <1>2

\* What was decided by a row that was read is about an outage people were told
\* of.
LEMMA EndsAreNoticed ==
    ASSUME TypeOK, Notices
    PROVE  /\ EndOf(row) \in Noticed
           /\ Missed(row) => EndOf(row) = row.outage
  BY DEF EndOf, Missed, Noticed, Telling, Notices, NotifiedIsTold

\* Every step keeps the pairs: AuthRead takes what it announces from the row,
\* AuthBeat ends the outage it has read of, the UPDATE of the collector owes the
\* end of an outage only if nobody has read the row before.
LEMMA PairStep ==
    TypeOK /\ Notices /\ Pairs /\ [Next]_vars => Pairs'
<1> SUFFICES ASSUME TypeOK, Notices, Pairs, [Next]_vars PROVE Pairs'
  OBVIOUS
<1> USE DEF hubVars, world, history
<1>typed. conn \in [Conns -> Conn] /\ row \in Row
  BY DEF TypeOK
<1>quiet. ASSUME UNCHANGED <<told, unsaid>>,
                 UNCHANGED collector \/ collector.at # "tell"
          PROVE  Remembers
  BY <1>quiet DEF Remembers, Noticed, Telling
<1>goes. ASSUME NEW c \in Conns, NEW from, NEW to, Advances(c, from, to)
         PROVE  /\ conn[c].at = from /\ conn'[c].at = to
                /\ conn'[c].ends = conn[c].ends
                /\ \A d \in Conns \ {c} : conn'[d] = conn[d]
  BY <1>goes, <1>typed DEF Advances, Conn
<1>ends. row.outage \in owed /\ row.status # "connected" => Ended(row) = row.outage
  BY DEF Pairs, PairInv, Missed, Ended
<1>activity. ASSUME Activity, Remembers, UNCHANGED conn
             PROVE  Pairs'
  <2>1. CASE throttled
    BY <1>activity, <2>1, PairsOfSameGoroutines DEF Activity
  <2>2. CASE ~throttled
    BY <1>activity, <1>ends, <2>2, PairsWhenHeard DEF Activity, Silently, Settled
  <2>3. QED
    BY <2>1, <2>2
<1>1. ASSUME NEW c \in Conns, AuthRead(c)
      PROVE  Pairs'
  <2>1. /\ conn[c].at = "auth" /\ conn'[c].at = "load"
        /\ conn'[c].ends = EndOf(row)
        /\ \A d \in Conns \ {c} : conn'[d] = conn[d]
    BY <1>1, <1>typed DEF AuthRead, Conn
  <2>2. /\ UNCHANGED <<row, owed, told, unsaid, collector>>
        /\ Noticed' = Noticed
    BY <1>1 DEF AuthRead, Noticed, Telling
  <2>3. \A d \in Conns : conn'[d].ends \in Noticed'
    BY <2>1, <2>2, EndsAreNoticed DEF Pairs, PairInv
  <2>4. Due' = Due
    BY <2>1 DEF Due
  <2>5. ASSUME NEW d \in Conns, HasRead(d)', row'.outage \in owed', Missed(row)'
        PROVE  conn'[d].ends = row'.outage
    <3>1. CASE d = c
      BY <2>1, <2>2, <2>5, <3>1, EndsAreNoticed
    <3>2. CASE d # c
      <4>1. HasRead(d) /\ conn'[d] = conn[d]
        BY <2>1, <2>5, <3>2 DEF HasRead
      <4>2. QED
        BY <2>2, <2>5, <4>1 DEF Pairs, PairInv
    <3>3. QED
      BY <3>1, <3>2
  <2>6. NoticesPair'
    BY <2>2, <2>4 DEF Pairs, NoticesPair, Over
  <2>7. PairInv'
    BY <2>2, <2>3, <2>5 DEF Pairs, PairInv
  <2>8. QED
    BY <2>6, <2>7 DEF Pairs
<1>2. ASSUME NEW c \in Conns, AuthLoad(c)
      PROVE  Pairs'
  <2>1. /\ UNCHANGED row /\ Remembers
        /\ conn[c].at = "load" /\ conn'[c].at \in {"store", "swap"}
        /\ \A d \in Conns \ {c} : conn'[d] = conn[d]
    <3>1. UNCHANGED row /\ Remembers
      BY <1>2, <1>quiet DEF AuthLoad
    <3>2. CASE hub = Nobody
      <4>1. conn[c].at = "load" /\ conn' = [conn EXCEPT ![c].at = "store"]
        BY <1>2, <3>2 DEF AuthLoad
      <4>2. QED
        BY <3>1, <4>1, <1>typed DEF Conn
    <3>3. CASE hub # Nobody
      <4>1. /\ conn[c].at = "load"
            /\ conn' = [conn EXCEPT ![c] =
                           [@ EXCEPT !.at = "swap", !.prev = hub, !.ends = 0]]
        BY <1>2, <3>3 DEF AuthLoad
      <4>2. QED
        BY <3>1, <4>1, <1>typed DEF Conn
    <3>4. QED
      BY <3>2, <3>3
  <2>2. \/ conn'[c].ends = conn[c].ends /\ owed' = owed
        \/ conn'[c].ends = 0 /\ owed' = owed \ {Ended(row)}
    <3>1. CASE hub = Nobody
      <4>1. conn' = [conn EXCEPT ![c].at = "store"] /\ owed' = owed
        BY <1>2, <3>1 DEF AuthLoad
      <4>2. QED
        BY <4>1, <1>typed DEF Conn
    <3>2. CASE hub # Nobody
      <4>1. /\ conn' = [conn EXCEPT ![c] =
                           [@ EXCEPT !.at = "swap", !.prev = hub, !.ends = 0]]
            /\ owed' = owed \ {Ended(row)}
        BY <1>2, <3>2 DEF AuthLoad, Silently, Settled
      <4>2. QED
        BY <4>1, <1>typed DEF Conn
    <3>3. QED
      BY <3>1, <3>2
  <2>3. \A d \in Conns : HasRead(d)' => HasRead(d)
    BY <2>1 DEF HasRead
  <2>4. Missed(row) => Ended(row) = row.outage
    BY DEF Missed, Ended
  <2>5. QED
    BY <2>1, <2>2, <2>3, <2>4, PairsOfSameOutage
<1>3. ASSUME NEW c \in Conns, AuthSwap(c)
      PROVE  Pairs'
  <2>1. \A d \in Conns : /\ conn'[d].ends = conn[d].ends
                         /\ conn'[d].at = IF d = c THEN "store" ELSE conn[d].at
    <3>1. ASSUME NEW d \in Conns
          PROVE  /\ conn'[d].ends = conn[d].ends
                 /\ conn'[d].at = IF d = c THEN "store" ELSE conn[d].at
      <4>1. conn[d] \in Conn
        BY <1>typed
      <4>2. QED
        BY <1>3, <4>1 DEF AuthSwap, Conn
    <3>2. QED
      BY <3>1
  <2>2. conn[c].at = "swap" /\ UNCHANGED <<row, owed>> /\ Remembers
    BY <1>3, <1>quiet DEF AuthSwap
  <2>3. \A d \in Conns : HasRead(d)' => HasRead(d)
    BY <2>1, <2>2 DEF HasRead
  <2>4. QED
    BY <2>1, <2>2, <2>3, PairsOfSameOutage
<1>4. ASSUME NEW c \in Conns, AuthStore(c) \/ CleanupLoad(c) \/ CleanupDelete(c)
      PROVE  Pairs'
  <2>1. /\ conn[c].at \in {"store", "live", "delete"}
        /\ conn'[c].at \in {"beat", "delete", "done", "mark"}
        /\ conn[c].at # "store" => conn'[c].at # "beat"
        /\ conn'[c].ends = conn[c].ends
        /\ \A d \in Conns \ {c} : conn'[d] = conn[d]
    BY <1>4, <1>goes DEF AuthStore, CleanupLoad, CleanupDelete
  <2>2. UNCHANGED <<row, owed>> /\ Remembers
    BY <1>4, <1>quiet DEF AuthStore, CleanupLoad, CleanupDelete
  <2>3. \A d \in Conns : HasRead(d)' => HasRead(d)
    BY <2>1 DEF HasRead
  <2>4. QED
    BY <2>1, <2>2, <2>3, PairsOfSameOutage
<1>5. ASSUME NEW c \in Conns, AuthBeat(c)
      PROVE  Pairs'
  <2>1. /\ conn[c].at = "beat" /\ conn'[c].at = "reset"
        /\ conn'[c].ends = conn[c].ends
        /\ \A d \in Conns \ {c} : conn'[d] = conn[d]
    BY <1>5, <1>goes DEF AuthBeat
  <2>2. row' = Heard(row) /\ owed' = owed /\ Remembers
    BY <1>5, <1>quiet DEF AuthBeat
  <2>3. ASSUME row.outage \in owed, row.status # "connected"
        PROVE  row.outage \in Due'
    <3>1. conn[c].ends = row.outage
      BY <2>1, <2>3 DEF Pairs, PairInv, HasRead
    <3>2. QED
      BY <2>1, <3>1 DEF Due
  <2>4. QED
    BY <2>1, <2>2, <2>3, PairsWhenHeard
<1>6. ASSUME NEW c \in Conns, AuthReset(c)
      PROVE  Pairs'
  <2>1. /\ conn[c].at = "reset" /\ conn'[c].at = "live" /\ conn'[c].ends = 0
        /\ \A d \in Conns \ {c} : conn'[d] = conn[d]
    BY <1>6, <1>typed DEF AuthReset, Conn
  <2>2. /\ row' = PushWorks(row) /\ owed' = owed \ {conn[c].ends} /\ Remembers
    BY <1>6, <1>quiet DEF AuthReset, Settled
  <2>3. \A d \in Conns : HasRead(d)' => HasRead(d)
    BY <2>1 DEF HasRead
  <2>4. QED
    <3>1. row'.status = row.status /\ row'.notified = row.notified /\ row'.outage = row.outage
      BY <2>2, <1>typed, RowUpdates
    <3>2. ASSUME NEW d \in Conns
          PROVE  /\ conn'[d].ends \in {0, conn[d].ends}
                 /\ HasRead(d)' => HasRead(d) /\ conn'[d].ends = conn[d].ends
                 /\ \/ conn[d].at = "reset" => /\ conn'[d].at = "reset"
                                              /\ conn'[d].ends = conn[d].ends
                    \/ conn[d].ends \notin owed'
      BY <2>1, <2>2, <2>3 DEF HasRead
    <3>3. owed' \subseteq owed
      BY <2>2
    <3>4. QED
      BY <2>2, <3>1, <3>2, <3>3, PairsOfSameOutage
<1>7. ASSUME NEW c \in Conns, CleanupMark(c)
      PROVE  Pairs'
  <2>1. /\ conn[c].at = "mark" /\ conn'[c].at = "done"
        /\ conn'[c].ends = conn[c].ends
        /\ \A d \in Conns \ {c} : conn'[d] = conn[d]
    BY <1>7, <1>goes DEF CleanupMark
  <2>2. row' = Offline(row) /\ owed' = owed /\ Remembers
    BY <1>7, <1>quiet DEF CleanupMark
  <2>3. \A d \in Conns : HasRead(d)' => HasRead(d)
    BY <2>1 DEF HasRead
  <2>4. QED
    BY <2>1, <2>2, <2>3, PairsWhenOffline
<1>8. ASSUME NEW c \in Conns, Accept(c) \/ Break(c)
      PROVE  Pairs'
  <2>1. /\ conn'[c].ends = conn[c].ends
        /\ \/ conn'[c].at = conn[c].at
           \/ conn[c].at = "unused" /\ conn'[c].at = "auth"
        /\ \A d \in Conns \ {c} : conn'[d] = conn[d]
    <3>1. conn[c] \in Conn
      BY <1>typed
    <3>2. CASE Accept(c)
      BY <3>1, <3>2, <1>typed DEF Accept, Conn, Unused
    <3>3. CASE Break(c)
      BY <3>1, <3>3, <1>typed DEF Break, Conn
    <3>4. QED
      BY <1>8, <3>2, <3>3
  <2>2. UNCHANGED <<row, owed>> /\ Remembers
    BY <1>8, <1>quiet DEF Accept, Break
  <2>3. \A d \in Conns : HasRead(d)' => HasRead(d)
    BY <2>1 DEF HasRead
  <2>4. QED
    BY <2>1, <2>2, <2>3, PairsOfSameOutage
<1>9. ASSUME NEW c \in Conns, WsHeartbeat(c) \/ WsActivity(c)
      PROVE  Pairs'
  <2>1. Remembers /\ UNCHANGED conn
    BY <1>9, <1>quiet DEF WsHeartbeat, WsActivity
  <2>2. CASE WsHeartbeat(c)
    BY <2>1, <2>2, <1>ends, PairsWhenHeard DEF WsHeartbeat, Silently, Settled
  <2>3. CASE WsActivity(c)
    BY <2>1, <2>3, <1>activity DEF WsActivity
  <2>4. QED
    BY <1>9, <2>2, <2>3
<1>10. ASSUME HttpHeartbeat \/ HttpActivity
       PROVE  Pairs'
  <2>1. /\ Remembers /\ UNCHANGED conn
        /\ row' = Heard(row) \/ row' = PushWorks(Heard(row))
    BY <1>10, <1>quiet DEF HttpHeartbeat, HttpActivity
  <2>2. \/ owed' = owed \ {Ended(row)}
        \/ owed' = owed \ {EndOf(row)}
    BY <1>10 DEF HttpHeartbeat, HttpActivity, Settled
  <2>3. row.outage \in owed /\ row.status # "connected" => EndOf(row) = row.outage
    BY EndsAreNoticed DEF Pairs, PairInv
  <2>4. QED
    BY <2>1, <2>2, <2>3, <1>ends, PairsWhenHeard
<1>11. ASSUME BeatAges \/ SinceRipens \/ ThrottleEnds
       PROVE  Pairs'
  <2>1. SameOutage(row, row') /\ Remembers /\ UNCHANGED <<conn, owed>>
    BY <1>11, <1>quiet
    DEF BeatAges, SinceRipens, ThrottleEnds, SameOutage, TypeOK, Row
  <2>2. QED
    BY <2>1, PairsOfSameGoroutines DEF SameOutage
<1>12. ASSUME Sweep
       PROVE  Pairs'
  <2>1. /\ UNCHANGED <<row, owed>> /\ Remembers
        /\ \A c \in Conns : conn'[c].at = conn[c].at /\ conn'[c].ends = conn[c].ends
    BY <1>12, <1>typed, <1>quiet DEF Sweep, SweepClose, SweepDelete, Conn
  <2>2. QED
    BY <2>1, PairsOfSameGoroutines
<1>13. ASSUME Round
       PROVE  Pairs'
  <2>1. CASE MarkOffline
    <3>1. Remembers /\ UNCHANGED <<conn, owed>>
      BY <2>1, <1>quiet DEF MarkOffline, Step
    <3>2. \A c \in Conns : HasRead(c)' => HasRead(c)
      BY <3>1 DEF HasRead
    <3>3. QED
      BY <2>1, <3>1, <3>2, PairsWhenOffline, PairsOfSameGoroutines DEF MarkOffline
  <2>2. CASE Update
    <3>1. Remembers /\ UNCHANGED conn
      BY <2>2, <1>quiet DEF Update, Step
    <3>2. CASE Announceable(row) /\ row.outage = collector.taken
      <4>1. /\ row'.status = "offline" /\ row'.notified
            /\ row'.outage = row.outage /\ ~row.notified
            /\ row.status = "offline"
        BY <2>2, <3>2, <1>typed DEF Update, Announceable, Row
      <4>2. row.outage \notin owed
        BY <4>1 DEF Pairs, PairInv, Missed
      <4>3. \/ owed' = owed
            \/ owed' = owed \cup {row.outage} /\ \A c \in Conns : ~HasRead(c)
        BY <2>2, <3>2 DEF Update
      <4>4. \A c \in Conns : conn'[c].ends \in Noticed'
        BY <3>1 DEF Pairs, PairInv, Remembers
      <4>5. Due' = Due /\ Due' \subseteq Noticed'
        BY <3>1, <4>4 DEF Due
      <4>6. row.outage \in Nat
        BY <1>typed DEF Row
      <4>7. NoticesPair'
        BY <4>1, <4>3, <4>5, <4>6 DEF Pairs, NoticesPair, Over
      <4>8. PairInv'
        BY <3>1, <4>1, <4>2, <4>3, <4>4, <4>6 DEF Pairs, PairInv, Missed, HasRead
      <4>9. QED
        BY <4>7, <4>8 DEF Pairs
    <3>3. CASE ~(Announceable(row) /\ row.outage = collector.taken)
      <4>1. UNCHANGED <<row, owed>>
        BY <2>2, <3>3 DEF Update
      <4>2. QED
        BY <3>1, <4>1, PairsOfSameGoroutines
    <3>4. QED
      BY <3>2, <3>3
  <2>3. CASE Tell
    <3>1. Remembers
      BY <2>3 DEF Tell, Remembers, Noticed, Telling
    <3>2. QED
      BY <2>3, <3>1, PairsOfSameGoroutines DEF Tell
  <2>4. CASE Pull
    <3>1. Remembers
      BY <2>4, <1>quiet DEF Pull, Step
    <3>2. QED
      BY <2>4, <3>1, <1>activity, PairsOfSameGoroutines DEF Pull
  <2>5. CASE Count \/ FallBack
    <3>1. SameOutage(row, row') /\ UNCHANGED <<conn, owed>> /\ Remembers
      BY <2>5, <1>typed, <1>quiet DEF Count, FallBack, Step, SameOutage, Row
    <3>2. QED
      BY <3>1, PairsOfSameGoroutines DEF SameOutage
  <2>6. CASE Take \/ List \/ Pass \/ Judge \/ Decide
    <3>1. UNCHANGED <<row, conn, owed>> /\ Remembers
      BY <2>6, <1>quiet DEF Take, List, Pass, Judge, Decide, Step
    <3>2. QED
      BY <3>1, PairsOfSameGoroutines
  <2>7. QED
    BY <1>13, <2>1, <2>2, <2>3, <2>4, <2>5, <2>6 DEF Round
<1>14. ASSUME Restart
       PROVE  Pairs'
  <2>1. \A c \in Conns : conn'[c].ends = 0 /\ conn'[c].at \in {"unused", "done"}
    BY <1>14 DEF Restart, Unused
  <2>2. Remembers
    BY <1>14 DEF Restart, Remembers, Noticed, Telling
  <2>3. UNCHANGED row /\ owed' = owed \ Due
    BY <1>14 DEF Restart
  <2>4. \A c \in Conns : conn[c].at = "reset" => conn[c].ends \in Due
    BY DEF Due
  <2>5. \A c \in Conns : ~HasRead(c)'
    BY <2>1 DEF HasRead
  <2>6. QED
    BY <2>1, <2>2, <2>3, <2>4, <2>5, PairsOfSameOutage
<1>15. ASSUME UNCHANGED <<row, conn, owed, told, unsaid, collector>>
       PROVE  Pairs'
  BY <1>15, <1>quiet, PairsOfSameGoroutines
<1>16. QED
  <2>1. ASSUME \E to \in {"up", "pullOnly", "down"} : AgentMoves(to)
        PROVE  Pairs'
    BY <2>1, <1>15 DEF AgentMoves
  <2>2. CASE UNCHANGED vars
    BY <2>2, <1>15 DEF vars
  <2>3. QED
    BY <1>1, <1>2, <1>3, <1>4, <1>5, <1>6, <1>7, <1>8, <1>9, <1>10, <1>11, <1>12,
       <1>13, <1>14, <2>1, <2>2
    DEF Next, Handler, Heartbeats

----------------------------------------------------------------------------
(* The theorems.                                                          *)

\* The invariant of ServerLiveness holds in every behaviour of its handlers,
\* its collector and its restarts: with it come the types, the notices of the
\* collector and the entries of the hub.
THEOREM LivenessInvariant == Spec => []LivenessInv
<1>1. Init => LivenessInv
  BY LivenessInit
<1>2. LivenessInv /\ [Next]_vars => LivenessInv'
  BY TypeStep, NoticeStep, HubStep, PairStep DEF LivenessInv, Notices, Pairs
<1>3. QED
  BY <1>1, <1>2, PTL DEF Spec

\* Every variable keeps its type.
THEOREM LivenessTypeCorrect == Spec => []TypeOK
<1>1. LivenessInv => TypeOK
  BY DEF LivenessInv
<1>2. QED
  BY <1>1, LivenessInvariant, PTL

\* TakeOfflineServersToNotify and its caller announce an outage once, whatever
\* happens to the row between the SELECT, the UPDATE and the notice.
THEOREM OutagesAnnouncedOnce == Spec => []OneNoticePerOutage
<1>1. LivenessInv => OneNoticePerOutage
  BY DEF LivenessInv
<1>2. QED
  BY <1>1, LivenessInvariant, PTL

\* offline_notified is not set for an outage nobody was or will be told of,
\* unless the process ended before the notice went out.
THEOREM NoticesNotSwallowed == Spec => []NotifiedIsTold
<1>1. LivenessInv => NotifiedIsTold
  BY DEF LivenessInv
<1>2. QED
  BY <1>1, LivenessInvariant, PTL

\* The end of an outage that was announced is announced too, by the goroutine
\* that found offline_notified set or by a report over HTTP, and no connection
\* announces the end of one nobody was told of (handleAuth and the handler of
\* traffic test offline_notified), but for the exceptions NoticesPair names.
THEOREM NoticesArePaired == Spec => []NoticesPair
<1>1. LivenessInv => NoticesPair
  BY DEF LivenessInv
<1>2. QED
  BY <1>1, LivenessInvariant, PTL

\* The map of connections never keeps one whose goroutine has ended.
THEOREM NoGhosts == Spec => []HubHasNoGhost
<1>1. LivenessInv => HubHasNoGhost
  BY DEF LivenessInv, HubInv, HubHasNoGhost
<1>2. QED
  BY <1>1, LivenessInvariant, PTL

-----------------------------------------------------------------------------
(* What the limiter of an agent has.  What is on its way to a host is the   *)
(* heart of the invariant: the last table on its connection, a push that    *)
(* will serve it, a callback that is due or will be.                        *)

\* What is to be sent to a limiter is a table, what is to be sent about xray is not.
Loaded(g) ==
    /\ g.pc \in {"send", "http"} => /\ g.kind \notin {"quota", "flag"}
                                   /\ g.load.to = "limiter" /\ g.host \in Hosts
    /\ g.pc = "next" /\ g.kind \in {"quota", "flag"} => g.load.to = "xray"

\* An answer under way is one.
LimiterShape ==
    /\ \A a \in Asks : ask[a].pc # "idle" => ask[a].answer # "none"
    /\ \A p \in Pushes : Loaded(push[p])

\* A push that builds tables; one that is not the revocation needs the feature.
BuildsTables(g) ==
    \/ g.kind = "revoke"
    \/ g.kind \in {"server", "user", "package", "all"} /\ HasLimiter(license)

\* A push that has a table for host h, or is going to build one.
WillServe(g, h) ==
    \/ g.pc = "start" /\ BuildsTables(g) /\ h \in HostsOf(g)
    \/ g.pc \in {"next", "send", "http"} /\ BuildsTables(g) /\ h \in g.todo
    \/ g.pc \in {"send", "http"} /\ h = g.host

\* The feature came or went, and the callback that tells the agents is due or
\* will be.
ToBeTold ==
    IF HasLimiter(license)
    THEN "recover" \in due \/ \E a \in Asks : ask[a].pc = "applied" /\ ask[a].turn = "gained"
    ELSE "lost" \in due \/ \E a \in Asks : ask[a].pc = "applied" /\ ask[a].turn = "lost"

TablesOnLine(h) == {i \in DOMAIN line[h] : line[h][i].to = "limiter"}

\* What the agent has when it has read its connection to the end is right.
EndsRight(h) ==
    \/ TablesOnLine(h) = {} /\ Right(h, table[h])
    \/ \E i \in TablesOnLine(h) : /\ \A j \in TablesOnLine(h) : j <= i
                                  /\ Right(h, line[h][i].table)

\* The limiter of h ends right, or something will reach it, or the reason why it
\* does not is known; an agent that is away is told when it comes back.
LimitFor(h) ==
    \/ EndsRight(h)
    \/ why[h] # {}
    \/ ToBeTold
    \/ \E p \in Pushes : WillServe(push[p], h)
    \/ h \notin linked /\ HasLimiter(license)

LimiterInv == LimiterTypeOK /\ LimiterShape /\ \A h \in Hosts : LimitFor(h)

\* Which kinds of pushes there are.
PushKinds == {"none", "server", "user", "package", "all", "revoke", "quota", "flag"}

\* The agents and what they are sent.
AgentTypes == /\ table \in [Hosts -> Tables] /\ flag \in [Hosts -> BOOLEAN] /\ linked \subseteq Hosts
              /\ line \in [Hosts -> Seq(Load)] /\ \A h \in Hosts \ linked : line[h] = <<>>

\* The goroutines.
PushesTyped == push \in [Pushes -> Push] /\ \A q \in Pushes : Loaded(push[q])

\* The pushes concern the limits, and the callbacks of main.go about them are registered.
Announced == What = "limits" /\ {"recover", "lost"} \subseteq Callbacks

-----------------------------------------------------------------------------
(* Types *)

\* What a server should have is a table, and so is the same without limits.
LEMMA TablesAreTables ==
    /\ NoLoad \in Load /\ Empty \in Tables
    /\ LimiterTypeOK => \A h \in Hosts : /\ Built(h) \in Tables
                                         /\ Zeroed(Built(h)) \in Tables
<1>1. \A N \in SUBSET Names : \A t \in [N -> Limits] : t \in Tables
  BY DEF Tables
<1>2. Empty \in [{} -> Limits]
  BY DEF Empty
<1>3. Empty \in Tables
  BY <1>1, <1>2
<1>4. NoLoad \in Load
  BY <1>3 DEF NoLoad, Load
<1>5. ASSUME LimiterTypeOK, NEW h \in Hosts
      PROVE  Built(h) \in Tables /\ Zeroed(Built(h)) \in Tables
  <2> DEFINE N == {m \in enabled : <<m, h>> \in bound}
  <2>1. N \in SUBSET Names /\ 0 \in Limits
    BY <1>5, LimiterAssumption DEF LimiterTypeOK
  <2>2. Built(h) \in [N -> Limits]
    BY <1>5, <2>1 DEF Built, LimiterTypeOK
  <2>3. Zeroed(Built(h)) \in [N -> Limits]
    BY <2>1, <2>2 DEF Zeroed
  <2> QED BY <1>1, <2>1, <2>2, <2>3
<1> QED BY <1>3, <1>4, <1>5

\* A push that starts, and nobody else.
LEMMA LaunchStarts ==
    ASSUME push \in [Pushes -> Push], NEW p \in Pushes, NEW kind \in PushKinds,
           NEW who \in Names \cup {"nobody"}, NEW todo \in SUBSET Hosts,
           Launch(p, kind, who, todo)
    PROVE  /\ push' \in [Pushes -> Push]
           /\ push[p].pc = "idle" /\ Loaded(push'[p])
           /\ push'[p].pc = "start" /\ push'[p].kind = kind
           /\ push'[p].who = who /\ push'[p].todo = todo
           /\ \A q \in Pushes \ {p} : push'[q] = push[q]
<1> DEFINE new == [NoPush EXCEPT !.pc = "start", !.kind = kind, !.who = who, !.todo = todo]
<1>1. push' = [push EXCEPT ![p] = new] /\ push[p].pc = "idle"
  BY DEF Launch
<1>2. NoLoad \in Load
  BY TablesAreTables
<1>3. NoPush \in Push
  BY <1>2, LimiterAssumption DEF NoPush, Push
<1>4. /\ new \in Push
      /\ new.pc = "start" /\ new.kind = kind /\ new.who = who /\ new.todo = todo
  BY <1>3 DEF Push, PushKinds
<1> HIDE DEF new
<1>5. push'[p] = new /\ push' \in [Pushes -> Push] /\ \A q \in Pushes \ {p} : push'[q] = push[q]
  BY <1>1, <1>4
<1> QED BY <1>1, <1>4, <1>5 DEF Loaded

\* A goroutine done with a host.
LEMMA AfterIsPush ==
    ASSUME NEW g \in Push, NEW h \in Hosts
    PROVE  /\ After(g, h) \in Push
           /\ After(g, h).pc \in {"idle", "next"}
           /\ g.pc = "next" /\ Loaded(g) => Loaded(After(g, h))
           /\ g.kind \notin {"quota", "flag"} => Loaded(After(g, h))
           /\ After(g, h).pc = "next" => /\ After(g, h).kind = g.kind
                                         /\ After(g, h).todo = g.todo \ {h}
                                         /\ After(g, h).load = g.load
           /\ \A k \in g.todo \ {h} : After(g, h).pc = "next"
<1>1. NoPush \in Push
  BY TablesAreTables, LimiterAssumption DEF NoPush, Push
<1> DEFINE new == [g EXCEPT !.pc = "next", !.todo = @ \ {h}, !.host = 0]
<1>2. /\ new \in Push
      /\ new.pc = "next" /\ new.kind = g.kind /\ new.todo = g.todo \ {h} /\ new.load = g.load
  <2>1. g.todo \ {h} \in SUBSET Hosts /\ 0 \in 0..MaxHosts
    BY LimiterAssumption DEF Push
  <2> QED BY <2>1 DEF Push
<1>3. CASE g.todo \subseteq {h}
  BY <1>1, <1>3 DEF After, NoPush, Loaded
<1>4. CASE ~(g.todo \subseteq {h})
  <2>1. After(g, h) = new
    BY <1>4 DEF After
  <2> HIDE DEF new
  <2> QED BY <1>2, <1>4, <2>1 DEF Loaded
<1> QED BY <1>3, <1>4

\* A cause is noted.
LEMMA BlameNotes ==
    ASSUME LimiterTypeOK, NEW H \in SUBSET Hosts, NEW cause \in Blames, Blame(H, cause)
    PROVE  /\ why' \in [Hosts -> SUBSET Blames] /\ \A h \in Hosts : why[h] \subseteq why'[h]
           /\ \A h \in H : why'[h] # {}
           /\ \A h \in Hosts \ H : why'[h] = why[h]
BY DEF Blame, LimiterTypeOK

\* The license.
LEMMA LicenseTypes ==
    ASSUME LimiterTypeOK, LimiterShape, LicenseStep \/ LicenseRestarts
    PROVE  LicenseTypeOK' /\ \A a \in Asks : ask'[a].pc # "idle" => ask'[a].answer # "none"
<1>0. LicenseTypeOK /\ \A a \in Asks : ask[a].pc # "idle" => ask[a].answer # "none"
  BY DEF LimiterTypeOK, LimiterShape
<1>1. ServerQuota(license) \in 0..2 /\ IsValid(license) \in BOOLEAN /\ HasLimiter(license) \in BOOLEAN
  BY <1>0 DEF LicenseTypeOK, Status, ServerQuota, MaxServersOf, IsValid, HasLimiter
<1>2. AtRest \in Request
  BY DEF AtRest, Request, NoHad, Had
<1>M. Move => moves' \in 0..MaxMoves
  BY <1>0, LicenseAssumption DEF Move, LicenseTypeOK
<1>3. ASSUME NEW a \in Asks, Answer(a)
      PROVE  LicenseTypeOK' /\ \A b \in Asks : ask'[b].pc # "idle" => ask'[b].answer # "none"
  <2> DEFINE had == [valid |-> IsValid(license), quota |-> ServerQuota(license),
                     limiter |-> HasLimiter(license)]
             new == [AtRest EXCEPT !.pc = "compared", !.answer = verdict, !.had = had]
  <2>1. had \in Had
    BY <1>1 DEF Had
  <2>2. ask' = [ask EXCEPT ![a] = new]
    BY <1>3 DEF Answer
  <2> HIDE DEF had
  <2>3. new \in Request /\ new.answer # "none"
    BY <1>0, <2>1, LicenseAssumption DEF AtRest, Request, LicenseTypeOK, Verdicts, AllPlans
  <2> HIDE DEF new
  <2>4. moves' \in 0..MaxMoves
    BY <1>0, <1>3, <1>M DEF Answer, LicenseTypeOK
  <2> QED BY <1>0, <1>3, <2>2, <2>3, <2>4 DEF Answer, LicenseTypeOK
<1>4. ASSUME NEW a \in Asks, Apply(a)
      PROVE  LicenseTypeOK' /\ \A b \in Asks : ask'[b].pc # "idle" => ask'[b].answer # "none"
  <2>1. ask[a].answer \in Verdicts /\ ask[a] \in Request
    BY <1>0, <1>4 DEF Apply, LicenseTypeOK, Request
  <2>2. Judged(license, ask[a].answer) \in Status
    <3>1. license \in Status
      BY <1>0 DEF LicenseTypeOK
    <3>2. CASE ask[a].answer \in Plans
      <4>1. ask[a].answer \in AllPlans
        BY <3>2, LicenseAssumption
      <4>2. Judged(license, ask[a].answer)
               = [valid |-> TRUE, hard |-> FALSE, plan |-> ask[a].answer, check |-> "recent"]
        BY <3>2, <4>1 DEF Judged, AllPlans
      <4> QED BY <4>1, <4>2 DEF Status
    <3>3. CASE ask[a].answer = "rebind"
      BY <3>1, <3>3, LicenseAssumption DEF Judged, Status, AllPlans
    <3>4. CASE ask[a].answer = "revoked"
      BY <3>1, <3>4, LicenseAssumption DEF Judged, Status, AllPlans
    <3> QED BY <2>1, <3>2, <3>3, <3>4 DEF Verdicts
  <2>3. PICK turn \in {"same", "gained", "lost"} :
           ask' = [ask EXCEPT ![a].pc = "applied", ![a].turn = turn]
    <3> DEFINE turn == CASE HasLimiter(license) = HasLimiter(license') -> "same"
                         [] HasLimiter(license') -> "gained"
                         [] OTHER -> "lost"
    <3>1. turn \in {"same", "gained", "lost"}
      OBVIOUS
    <3> QED BY <1>4, <3>1 DEF Apply
  <2>4. ask' \in [Asks -> Request] /\ \A b \in Asks : ask'[b].pc # "idle" => ask'[b].answer # "none"
    <3> DEFINE new == [ask[a] EXCEPT !.pc = "applied", !.turn = turn]
    <3>1. new \in Request /\ new.answer = ask[a].answer
      BY <2>1 DEF Request
    <3>2. ask' = [ask EXCEPT ![a] = new]
      BY <2>3
    <3>3. ask[a].answer # "none"
      BY <1>0, <1>4 DEF Apply
    <3> HIDE DEF new
    <3> QED BY <1>0, <3>1, <3>2, <3>3 DEF LicenseTypeOK
  <2> QED BY <1>0, <1>4, <2>2, <2>4 DEF Apply, LicenseTypeOK
<1>5. ASSUME NEW a \in Asks, Finish(a)
      PROVE  LicenseTypeOK' /\ \A b \in Asks : ask'[b].pc # "idle" => ask'[b].answer # "none"
  <2>1. Fired(a) \subseteq Callbacks
    BY DEF Fired
  <2>2. ask' \in [Asks -> Request] /\ \A b \in Asks : ask'[b].pc # "idle" => ask'[b].answer # "none"
    <3>1. AtRest.pc = "idle"
      BY DEF AtRest
    <3> QED BY <1>0, <1>2, <1>5, <3>1 DEF Finish, LicenseTypeOK
  <2> QED BY <1>0, <1>5, <2>1, <2>2 DEF Finish, LicenseTypeOK
<1>6. ASSUME GraceEnds
      PROVE  LicenseTypeOK' /\ \A b \in Asks : ask'[b].pc # "idle" => ask'[b].answer # "none"
  BY <1>0, <1>6, <1>M DEF GraceEnds, LicenseTypeOK, Status
<1>7. ASSUME VerdictChanges
      PROVE  LicenseTypeOK' /\ \A b \in Asks : ask'[b].pc # "idle" => ask'[b].answer # "none"
  BY <1>0, <1>7, <1>M DEF VerdictChanges, LicenseTypeOK
<1>8. ASSUME LicenseRestarts
      PROVE  LicenseTypeOK' /\ \A b \in Asks : ask'[b].pc # "idle" => ask'[b].answer # "none"
  <2>1. ask' \in [Asks -> Request] /\ \A b \in Asks : ask'[b].pc = "idle"
    BY <1>2, <1>8 DEF LicenseRestarts, AtRest
  <2> QED BY <1>0, <1>8, <1>M, <2>1 DEF LicenseRestarts, LicenseTypeOK, Status
<1> QED BY <1>3, <1>4, <1>5, <1>6, <1>7, <1>8 DEF LicenseStep

\* One goroutine moves.
LEMMA PushMoves ==
    ASSUME LimiterTypeOK, LimiterShape, NEW p \in Pushes, NEW new \in Push, Loaded(new),
           push' = [push EXCEPT ![p] = new]
    PROVE  push' \in [Pushes -> Push] /\ \A q \in Pushes : Loaded(push'[q])
BY DEF LimiterTypeOK, LimiterShape

\* The license does what it does, or stays.
LEMMA AsksStay ==
    ASSUME LimiterTypeOK, LimiterShape, UNCHANGED licenseVars
    PROVE  /\ moves' \in 0..MaxMoves => LicenseTypeOK'
           /\ \A a \in Asks : ask'[a].pc # "idle" => ask'[a].answer # "none"
           /\ moves \in 0..MaxMoves /\ (Move => moves' \in 0..MaxMoves)
<1>1. Move => moves' \in 0..MaxMoves
  BY LicenseAssumption DEF LimiterTypeOK, LicenseTypeOK, Move
<1> QED BY <1>1 DEF LimiterTypeOK, LimiterShape, LicenseTypeOK, licenseVars

\* What is noted is a cause.
LEMMA WhyTyped ==
    ASSUME LimiterTypeOK,
           \/ UNCHANGED why
           \/ \E H \in SUBSET Hosts, cause \in Blames : Blame(H, cause)
           \/ \E h \in Hosts : why' = [why EXCEPT ![h] = {}]
    PROVE  why' \in [Hosts -> SUBSET Blames]
BY BlameNotes DEF LimiterTypeOK

\* A change of the database keeps the types.
LEMMA ChangeTypes ==
    ASSUME LimiterTypeOK, LimiterShape, NEW p \in Pushes,
           \/ \E n \in Names : \/ \E v \in Limits : SetLimit(n, v, p)
                               \/ Provision(n, p) \/ Toggle(n, p) \/ Withdraw(n, p)
           \/ \E v \in Limits : SetPackageLimit(v, p)
    PROVE  (LimiterTypeOK /\ LimiterShape)'
<1> USE DEF Change, Only
<1>0. UNCHANGED licenseVars /\ Move /\ UNCHANGED agentVars
  BY DEF SetLimit, Provision, Toggle, Withdraw, SetPackageLimit
<1>1. /\ LicenseTypeOK'
      /\ \A a \in Asks : ask'[a].pc # "idle" => ask'[a].answer # "none"
  BY <1>0, AsksStay
<1>2. PICK kind \in PushKinds, who \in Names \cup {"nobody"} : Launch(p, kind, who, {})
  BY DEF SetLimit, Provision, Toggle, Withdraw, SetPackageLimit, PushKinds
<1>3. /\ push' \in [Pushes -> Push] /\ \A q \in Pushes : Loaded(push'[q])
  <2>1. push \in [Pushes -> Push] /\ {} \in SUBSET Hosts
    BY DEF LimiterTypeOK
  <2>2. /\ push' \in [Pushes -> Push] /\ Loaded(push'[p])
        /\ \A q \in Pushes \ {p} : push'[q] = push[q]
    BY <1>2, <2>1, LaunchStarts
  <2> QED BY <2>2 DEF LimiterShape
<1>4. /\ bound' \subseteq Names \X Hosts /\ limit' \in [Names -> Limits] /\ enabled' \subseteq Names
  BY DEF SetLimit, Provision, Toggle, Withdraw, SetPackageLimit, LimiterTypeOK
<1>5. why' \in [Hosts -> SUBSET Blames]
  <2>1. "forgotten" \in Blames
    BY DEF Blames
  <2>2. UNCHANGED why \/ \E H \in SUBSET Hosts : Blame(H, "forgotten")
    BY DEF SetLimit, Provision, Toggle, Withdraw, SetPackageLimit
  <2> QED BY <2>1, <2>2, WhyTyped
<1> QED BY <1>0, <1>1, <1>3, <1>4, <1>5 DEF LimiterTypeOK, LimiterShape, agentVars

\* A step of a push keeps them.
LEMMA PushTypes ==
    ASSUME LimiterTypeOK, LimiterShape, NEW p \in Pushes,
           \/ \E h \in Hosts : Turn(p, h) \/ SendFlag(p, h)
           \/ Begin(p) \/ Send(p) \/ SendFails(p) \/ Post(p)
    PROVE  (LimiterTypeOK /\ LimiterShape)'
<1> USE DEF Steps
<1>0. /\ UNCHANGED <<licenseVars, recordVars, linked>> /\ push[p] \in Push /\ Loaded(push[p])
      /\ Move \/ UNCHANGED moves
  BY DEF Turn, SendFlag, Begin, Send, SendFails, Post, agentVars, LimiterTypeOK, LimiterShape
<1>1. /\ LicenseTypeOK'
      /\ \A a \in Asks : ask'[a].pc # "idle" => ask'[a].answer # "none"
  BY <1>0, AsksStay
<1>2. PushesTyped'
  <2> USE DEF PushesTyped
  <2>1. NoPush \in Push /\ Loaded(NoPush)
    BY TablesAreTables, LimiterAssumption DEF NoPush, Push, Loaded
  <2> DEFINE g == push[p]
  <2>2. ASSUME NEW h \in Hosts, Turn(p, h) PROVE PushesTyped'
    <3> DEFINE t == IF g.kind = "revoke" THEN Zeroed(Built(h)) ELSE Built(h)
               load == [NoLoad EXCEPT !.table = t]
               new == [g EXCEPT !.pc = IF h \in linked THEN "send" ELSE "http",
                                !.host = h, !.load = load]
    <3>1. load = [to |-> "limiter", table |-> t] /\ t \in Tables
      BY TablesAreTables DEF NoLoad
    <3>2. load \in Load /\ load.to = "limiter"
      BY <3>1 DEF Load
    <3> HIDE DEF load
    <3>a. h \in 0..MaxHosts /\ g.kind \notin {"quota", "flag"}
      <4>1. ~Flags(p)
        BY <2>2 DEF Turn
      <4>2. h \in 0..MaxHosts
        BY LimiterAssumption DEF Hosts
      <4> QED BY <4>1, <4>2 DEF Flags
    <3>b. /\ new \in Push /\ new.kind = g.kind /\ new.host = h /\ new.load = load
          /\ new.pc \in {"send", "http"}
      BY <1>0, <3>2, <3>a DEF Push
    <3>3. new \in Push /\ Loaded(new)
      BY <3>2, <3>a, <3>b DEF Loaded
    <3>4. After(g, h) \in Push /\ Loaded(After(g, h))
      BY <1>0, <2>2, AfterIsPush DEF Turn
    <3>5. push' = [push EXCEPT ![p] = After(g, h)] \/ push' = [push EXCEPT ![p] = new]
      BY <2>2 DEF Turn, load
    <3> HIDE DEF new
    <3> QED BY <3>3, <3>4, <3>5, PushMoves
  <2>3. ASSUME NEW h \in Hosts, SendFlag(p, h) PROVE PushesTyped'
    <3>1. After(g, h) \in Push /\ Loaded(After(g, h))
      BY <1>0, <2>3, AfterIsPush DEF SendFlag
    <3> QED BY <2>3, <3>1, PushMoves DEF SendFlag
  <2>4. CASE Begin(p)
    <3> DEFINE on == [to |-> "xray", on |-> {h \in Hosts : Authorized(h)}]
               load == IF Flags(p) THEN on ELSE NoLoad
               new == [g EXCEPT !.pc = "next", !.todo = HostsOf(g), !.load = load]
    <3>1. on \in Load /\ on.to = "xray"
      BY DEF Load
    <3>2. NoLoad \in Load
      BY TablesAreTables
    <3> HIDE DEF on
    <3>3. load \in Load /\ (Flags(p) => load.to = "xray")
      BY <3>1, <3>2
    <3> HIDE DEF load
    <3>4. HostsOf(g) \in SUBSET Hosts
      BY <1>0 DEF HostsOf, Push
    <3>5. new \in Push /\ Loaded(new)
      BY <1>0, <3>3, <3>4 DEF Push, Loaded, Flags
    <3>6. push' = [push EXCEPT ![p] = NoPush] \/ push' = [push EXCEPT ![p] = new]
      BY <2>4 DEF Begin, load, on
    <3> HIDE DEF new
    <3> QED BY <2>1, <3>5, <3>6, PushMoves
  <2>5. CASE Send(p) \/ Post(p)
    <3>1. g.host \in Hosts /\ g.kind \notin {"quota", "flag"}
      BY <1>0, <2>5 DEF Send, Post, Loaded
    <3>2. After(g, g.host) \in Push /\ Loaded(After(g, g.host))
      BY <1>0, <3>1, AfterIsPush
    <3>3. push' = [push EXCEPT ![p] = After(g, g.host)]
      BY <2>5 DEF Send, Post
    <3> QED BY <3>2, <3>3, PushMoves
  <2>6. CASE SendFails(p)
    <3>1. [g EXCEPT !.pc = "http"] \in Push /\ Loaded([g EXCEPT !.pc = "http"])
      BY <1>0, <2>6 DEF SendFails, Push, Loaded
    <3>2. push' = [push EXCEPT ![p] = [g EXCEPT !.pc = "http"]]
      BY <2>6 DEF SendFails
    <3> QED BY <3>1, <3>2, PushMoves
  <2> QED BY <2>2, <2>3, <2>4, <2>5, <2>6
<1>3. AgentTypes'
  <2>1. push[p].load \in Load
    BY <1>0 DEF Push
  <2>2. \A h \in Hosts : Append(line[h], push[p].load) \in Seq(Load)
    BY <2>1 DEF LimiterTypeOK
  <2>3. CASE UNCHANGED agentVars
    BY <2>3 DEF AgentTypes, LimiterTypeOK, agentVars
  <2>4. CASE Send(p) \/ \E h \in Hosts : SendFlag(p, h)
    <3>1. UNCHANGED <<linked, table, flag>>
      BY <2>4 DEF Send, SendFlag
    <3>2. \/ line' = line
          \/ \E h \in linked : line' = [line EXCEPT ![h] = Append(@, push[p].load)]
      BY <2>4 DEF Send, SendFlag
    <3>3. line' \in [Hosts -> Seq(Load)] /\ \A h \in Hosts \ linked : line'[h] = <<>>
      <4>1. CASE line' = line
        BY <4>1 DEF LimiterTypeOK
      <4>2. ASSUME NEW h \in linked, line' = [line EXCEPT ![h] = Append(@, push[p].load)]
            PROVE  line' \in [Hosts -> Seq(Load)] /\ \A k \in Hosts \ linked : line'[k] = <<>>
        BY <2>2, <4>2 DEF LimiterTypeOK
      <4> QED BY <3>2, <4>1, <4>2
    <3> QED BY <3>1, <3>3 DEF AgentTypes, LimiterTypeOK
  <2>5. CASE Post(p)
    <3>1. push[p].load.table \in Tables
      BY <1>0, <2>1, <2>5 DEF Post, Loaded, Load
    <3> QED BY <2>5, <3>1 DEF Post, AgentTypes, LimiterTypeOK
  <2>6. (\E h \in Hosts : Turn(p, h)) \/ Begin(p) \/ SendFails(p) => UNCHANGED agentVars
    BY DEF Turn, Begin, SendFails
  <2> QED BY <2>3, <2>4, <2>5, <2>6
<1>4. why' \in [Hosts -> SUBSET Blames]
  <2>1. {"empty", "overtaken", "lost"} \subseteq Blames
    BY DEF Blames
  <2>2. Send(p) \/ Post(p) => push[p].host \in Hosts
    BY <1>0 DEF Send, Post, Loaded
  <2>3. \/ UNCHANGED why
        \/ \E h \in Hosts : \/ Blame({h}, "empty") \/ Blame({h}, "overtaken") \/ Blame({h}, "lost")
                           \/ why' = [why EXCEPT ![h] = {}]
    BY <2>2 DEF Turn, SendFlag, Begin, Send, SendFails, Post
  <2>4. \A h \in Hosts : {h} \in SUBSET Hosts
    OBVIOUS
  <2> QED BY <2>1, <2>3, <2>4, WhyTyped
<1> QED BY <1>0, <1>1, <1>2, <1>3, <1>4 DEF LimiterTypeOK, LimiterShape, AgentTypes, recordVars, PushesTyped

\* So does a callback of the license,
LEMMA CallbackTypes ==
    ASSUME LimiterTypeOK, LimiterShape, NEW c \in Callbacks, NEW p \in Pushes, RunCallback(c, p)
    PROVE  (LimiterTypeOK /\ LimiterShape)'
<1>1. CallbackKind(c) \in PushKinds
  BY LicenseAssumption DEF CallbackKind, PushKinds
<1>2. push \in [Pushes -> Push] /\ {} \in SUBSET Hosts
  BY DEF LimiterTypeOK
<1>3. Launch(p, CallbackKind(c), "nobody", {})
  BY DEF RunCallback
<1> HIDE DEF Hosts
<1>4. /\ push' \in [Pushes -> Push] /\ Loaded(push'[p])
      /\ \A q \in Pushes \ {p} : push'[q] = push[q]
  BY <1>1, <1>2, <1>3, LaunchStarts
<1>5. LicenseTypeOK'
  BY DEF RunCallback, LicenseTypeOK, LimiterTypeOK
<1> QED BY <1>4, <1>5 DEF RunCallback, LimiterTypeOK, LimiterShape, recordVars, agentVars

\* a move of the license itself,
LEMMA LicenseMovesTypes ==
    ASSUME LimiterTypeOK, LimiterShape, LicenseMoves
    PROVE  (LimiterTypeOK /\ LimiterShape)'
<1>1. LicenseTypeOK' /\ \A a \in Asks : ask'[a].pc # "idle" => ask'[a].answer # "none"
  BY LicenseTypes DEF LicenseMoves
<1>2. why' \in [Hosts -> SUBSET Blames]
  <2>1. "unannounced" \in Blames /\ Hosts \in SUBSET Hosts
    BY DEF Blames
  <2> QED BY <2>1, WhyTyped DEF LicenseMoves
<1> QED BY <1>1, <1>2 DEF LicenseMoves, LimiterTypeOK, LimiterShape, recordVars, agentVars

\* the end of the process,
LEMMA RestartTypes ==
    ASSUME LimiterTypeOK, LimiterShape, PanelRestarts
    PROVE  (LimiterTypeOK /\ LimiterShape)'
<1>1. LicenseTypeOK' /\ \A a \in Asks : ask'[a].pc # "idle" => ask'[a].answer # "none"
  BY LicenseTypes DEF PanelRestarts
<1>2. why' \in [Hosts -> SUBSET Blames]
  <2>1. "restarted" \in Blames /\ Hosts \in SUBSET Hosts
    BY DEF Blames
  <2> QED BY <2>1, WhyTyped DEF PanelRestarts
<1>3. NoPush \in Push /\ Loaded(NoPush)
  BY TablesAreTables, LimiterAssumption DEF NoPush, Push, Loaded
<1>4. push' \in [Pushes -> Push] /\ \A q \in Pushes : Loaded(push'[q])
  BY <1>3 DEF PanelRestarts
<1>5. line' \in [Hosts -> Seq(Load)] /\ \A h \in Hosts : line'[h] = <<>>
  BY DEF PanelRestarts
<1>6. UNCHANGED <<recordVars, table, flag>> /\ linked' = {}
  BY DEF PanelRestarts
<1> QED BY <1>1, <1>2, <1>4, <1>5, <1>6 DEF LimiterTypeOK, LimiterShape, recordVars

\* the ticker,
LEMMA TickTypes ==
    ASSUME LimiterTypeOK, LimiterShape, NEW p \in Pushes, Tick(p)
    PROVE  (LimiterTypeOK /\ LimiterShape)'
<1>1. push \in [Pushes -> Push] /\ {} \in SUBSET Hosts /\ "quota" \in PushKinds
  BY DEF LimiterTypeOK, PushKinds
<1>2. Launch(p, "quota", "nobody", {})
  BY DEF Tick
<1>3. /\ push' \in [Pushes -> Push] /\ Loaded(push'[p])
      /\ \A q \in Pushes \ {p} : push'[q] = push[q]
  BY <1>1, <1>2, LaunchStarts
<1>4. UNCHANGED licenseVars /\ moves' \in 0..MaxMoves
  BY DEF Tick, LimiterTypeOK, LicenseTypeOK
<1>5. LicenseTypeOK' /\ \A a \in Asks : ask'[a].pc # "idle" => ask'[a].answer # "none"
  BY <1>4, AsksStay
<1> QED BY <1>3, <1>5 DEF Tick, LimiterTypeOK, LimiterShape, recordVars, agentVars

\* and what happens to a connection.
LEMMA ConnectionTypes ==
    ASSUME LimiterTypeOK, LimiterShape, NEW h \in Hosts,
           Deliver(h) \/ Drop(h) \/ \E p \in Pushes : Connect(h, p)
    PROVE  (LimiterTypeOK /\ LimiterShape)'
<1>0. UNCHANGED <<licenseVars, recordVars>> /\ moves' \in 0..MaxMoves
  <2>1. Move \/ UNCHANGED moves
    BY DEF Deliver, Drop, Connect
  <2>2. moves \in 0..MaxMoves /\ (Move => moves' \in 0..MaxMoves)
    BY LicenseAssumption DEF Move, LimiterTypeOK, LicenseTypeOK
  <2> QED BY <2>1, <2>2 DEF Deliver, Drop, Connect
<1>1. LicenseTypeOK' /\ \A a \in Asks : ask'[a].pc # "idle" => ask'[a].answer # "none"
  BY <1>0, AsksStay
<1>2. push' \in [Pushes -> Push] /\ \A q \in Pushes : Loaded(push'[q])
  <2>1. CASE Deliver(h) \/ Drop(h)
    BY <2>1 DEF Deliver, Drop, LimiterTypeOK, LimiterShape
  <2>2. ASSUME NEW p \in Pushes, Connect(h, p)
        PROVE  push' \in [Pushes -> Push] /\ \A q \in Pushes : Loaded(push'[q])
    <3>1. \/ UNCHANGED push
          \/ \E kind \in {"server", "flag"} : Launch(p, kind, "nobody", {h})
      BY <2>2 DEF Connect
    <3>2. push \in [Pushes -> Push] /\ {h} \in SUBSET Hosts /\ {"server", "flag"} \subseteq PushKinds
      BY DEF LimiterTypeOK, PushKinds
    <3>3. CASE UNCHANGED push
      BY <3>3 DEF LimiterTypeOK, LimiterShape
    <3>4. ASSUME NEW kind \in {"server", "flag"}, Launch(p, kind, "nobody", {h})
          PROVE  /\ push' \in [Pushes -> Push] /\ Loaded(push'[p])
                 /\ \A q \in Pushes \ {p} : push'[q] = push[q]
      BY <3>2, <3>4, LaunchStarts
    <3> QED BY <3>1, <3>3, <3>4 DEF LimiterShape
  <2> QED BY <2>1, <2>2
<1>3. AgentTypes'
  <2>1. CASE Deliver(h)
    <3>1. Head(line[h]) \in Load /\ Tail(line[h]) \in Seq(Load) /\ line[h] # <<>>
      BY <2>1 DEF Deliver, LimiterTypeOK
    <3>2. line' \in [Hosts -> Seq(Load)] /\ \A k \in Hosts \ linked : line'[k] = <<>>
      BY <2>1, <3>1 DEF Deliver, LimiterTypeOK
    <3> DEFINE m == Head(line[h])
    <3>3. m.to = "limiter" => m.table \in Tables
      BY <3>1 DEF Load
    <3>4. m.to # "limiter" => (h \in m.on) \in BOOLEAN
      OBVIOUS
    <3> HIDE DEF m
    <3>5. \/ m.to = "limiter" /\ table' = [table EXCEPT ![h] = m.table] /\ flag' = flag
          \/ m.to # "limiter" /\ flag' = [flag EXCEPT ![h] = h \in m.on] /\ table' = table
      BY <2>1 DEF Deliver, m
    <3>6. table' \in [Hosts -> Tables]
      BY <3>3, <3>5 DEF LimiterTypeOK
    <3>7. flag' \in [Hosts -> BOOLEAN]
      BY <3>4, <3>5 DEF LimiterTypeOK
    <3> QED BY <2>1, <3>2, <3>6, <3>7 DEF Deliver, AgentTypes, LimiterTypeOK
  <2>2. CASE Drop(h)
    <3>1. Empty \in Tables
      BY TablesAreTables
    <3>2. table' \in [Hosts -> Tables]
      BY <2>2, <3>1 DEF Drop, LimiterTypeOK
    <3>3. line' = [line EXCEPT ![h] = <<>>] /\ linked' = linked \ {h} /\ flag' = flag
      BY <2>2 DEF Drop
    <3> QED BY <3>2, <3>3 DEF AgentTypes, LimiterTypeOK
  <2>3. CASE \E p \in Pushes : Connect(h, p)
    BY <2>3 DEF Connect, AgentTypes, LimiterTypeOK
  <2> QED BY <2>1, <2>2, <2>3
<1>4. why' \in [Hosts -> SUBSET Blames]
  <2>1. "lost" \in Blames /\ {h} \in SUBSET Hosts
    BY DEF Blames
  <2>2. UNCHANGED why \/ Blame({h}, "lost") \/ why' = [why EXCEPT ![h] = {}]
    BY DEF Deliver, Drop, Connect
  <2> QED BY <2>1, <2>2, WhyTyped
<1> QED BY <1>0, <1>1, <1>2, <1>3, <1>4 DEF LimiterTypeOK, LimiterShape, AgentTypes, recordVars

\* The types at the start.
LEMMA LimiterInitTypes ==
    ASSUME LimiterInit
    PROVE  LimiterTypeOK /\ LimiterShape
<1>1. LicenseTypeOK /\ \A a \in Asks : ask[a].pc = "idle"
  <2>1. AtRest \in Request /\ AtRest.pc = "idle"
    BY DEF AtRest, Request, NoHad, Had
  <2>2. verdict \in AllPlans /\ verdict \in Verdicts
    BY LicenseAssumption DEF LimiterInit, LicenseInit, Verdicts
  <2>3. license \in Status /\ saved \in Status
    BY <2>2 DEF LimiterInit, LicenseInit, Status
  <2>4. ask \in [Asks -> Request] /\ \A a \in Asks : ask[a].pc = "idle"
    BY <2>1 DEF LimiterInit, LicenseInit
  <2>5. moves \in 0..MaxMoves /\ due \subseteq Callbacks
    BY LicenseAssumption DEF LimiterInit, LicenseInit
  <2> QED BY <2>2, <2>3, <2>4, <2>5 DEF LicenseTypeOK
<1>2. NoPush \in Push /\ Loaded(NoPush) /\ Empty \in Tables
  BY TablesAreTables, LimiterAssumption DEF NoPush, Push, Loaded
<1>3. \A h \in Hosts : Built(h) \in Tables
  <2>1. \A N \in SUBSET Names : \A t \in [N -> Limits] : t \in Tables
    BY DEF Tables
  <2>2. \A h \in Hosts : Built(h) \in [{m \in enabled : <<m, h>> \in bound} -> Limits]
    BY DEF Built, LimiterInit
  <2>3. \A h \in Hosts : {m \in enabled : <<m, h>> \in bound} \in SUBSET Names
    BY DEF LimiterInit
  <2> QED BY <2>1, <2>2, <2>3
<1>4. table \in [Hosts -> Tables] /\ flag \in [Hosts -> BOOLEAN]
  <2>1. \A h \in Hosts : Authorized(h) \in BOOLEAN
    BY DEF Authorized
  <2> QED BY <1>2, <1>3, <2>1 DEF LimiterInit
<1>5. /\ line \in [Hosts -> Seq(Load)] /\ \A h \in Hosts : line[h] = <<>>
      /\ why \in [Hosts -> SUBSET Blames]
  BY DEF LimiterInit
<1>6. push \in [Pushes -> Push] /\ \A q \in Pushes : Loaded(push[q])
  BY <1>2 DEF LimiterInit
<1>7. /\ bound \subseteq Names \X Hosts /\ limit \in [Names -> Limits] /\ enabled \subseteq Names
      /\ linked \subseteq Hosts
  BY DEF LimiterInit
<1> QED BY <1>1, <1>4, <1>5, <1>6, <1>7 DEF LimiterTypeOK, LimiterShape

\* Every step keeps the types.
LEMMA LimiterStepTypes ==
    ASSUME LimiterTypeOK, LimiterShape, [LimiterNext]_limiterVars
    PROVE  (LimiterTypeOK /\ LimiterShape)'
<1>1. CASE UNCHANGED limiterVars
  <2>1. UNCHANGED <<licenseVars, moves, bound, limit, enabled, linked, table, flag, line, push, why>>
    BY <1>1 DEF limiterVars
  <2>2. moves' \in 0..MaxMoves
    BY <2>1 DEF LimiterTypeOK, LicenseTypeOK
  <2>3. LicenseTypeOK' /\ \A a \in Asks : ask'[a].pc # "idle" => ask'[a].answer # "none"
    BY <2>1, <2>2, AsksStay
  <2> QED BY <2>1, <2>3 DEF LimiterTypeOK, LimiterShape
<1>2. CASE LicenseMoves \/ PanelRestarts
  BY <1>2, LicenseMovesTypes, RestartTypes
<1>3. CASE \E h \in Hosts : Deliver(h) \/ Drop(h) \/ \E p \in Pushes : Connect(h, p)
  BY <1>3, ConnectionTypes
<1>4. ASSUME NEW p \in Pushes,
             \/ Tick(p) \/ \E c \in Callbacks : RunCallback(c, p)
      PROVE  (LimiterTypeOK /\ LimiterShape)'
  BY <1>4, TickTypes, CallbackTypes
<1>5. ASSUME NEW p \in Pushes,
             \/ \E h \in Hosts : Turn(p, h) \/ SendFlag(p, h)
             \/ Begin(p) \/ Send(p) \/ SendFails(p) \/ Post(p)
      PROVE  (LimiterTypeOK /\ LimiterShape)'
  BY <1>5, PushTypes
<1>6. ASSUME NEW p \in Pushes,
             \/ \E n \in Names : \/ \E v \in Limits : SetLimit(n, v, p)
                                 \/ Provision(n, p) \/ Toggle(n, p) \/ Withdraw(n, p)
             \/ \E v \in Limits : SetPackageLimit(v, p)
      PROVE  (LimiterTypeOK /\ LimiterShape)'
  BY <1>6, ChangeTypes
<1> QED BY <1>1, <1>2, <1>3, <1>4, <1>5, <1>6 DEF LimiterNext

-----------------------------------------------------------------------------
(* The limiter *)

\* What a host has stays right as long as what it should have stays the same.
LEMMA StaysRight ==
    ASSUME NEW h \in Hosts, EndsRight(h), line'[h] = line[h], table'[h] = table[h],
           HasLimiter(license)' <=> HasLimiter(license),
           HasLimiter(license) => Built(h)' = Built(h)
    PROVE  EndsRight(h)'
<1>1. TablesOnLine(h)' = TablesOnLine(h)
  BY DEF TablesOnLine
<1>2. \A t : Right(h, t) => Right(h, t)'
  BY DEF Right, NoLimitIn
<1>3. CASE TablesOnLine(h) = {} /\ Right(h, table[h])
  <2>1. Right(h, table[h])'
    BY <1>2, <1>3 DEF Right, NoLimitIn
  <2> QED BY <1>1, <1>3, <2>1 DEF EndsRight
<1>4. CASE \E i \in TablesOnLine(h) : /\ \A j \in TablesOnLine(h) : j <= i
                                      /\ Right(h, line[h][i].table)
  <2>1. PICK i \in TablesOnLine(h) : /\ \A j \in TablesOnLine(h) : j <= i
                                     /\ Right(h, line[h][i].table)
    BY <1>4
  <2>2. Right(h, line[h][i].table)'
    BY <2>1 DEF Right, NoLimitIn
  <2> QED BY <1>1, <2>1, <2>2 DEF EndsRight
<1> QED BY <1>3, <1>4 DEF EndsRight

\* A push that nobody touches will still reach a host whose rows stay.
LEMMA StillServes ==
    ASSUME NEW h \in Hosts, NEW q \in Pushes, push'[q] = push[q], WillServe(push[q], h),
           HasLimiter(license)' <=> HasLimiter(license),
           \A n : <<n, h>> \in bound => <<n, h>> \in bound'
    PROVE  WillServe(push[q], h)'
<1>1. BuildsTables(push[q])' <=> BuildsTables(push[q])
  BY DEF BuildsTables
<1>2. h \in HostsOf(push[q]) => h \in HostsOf(push[q])'
  BY DEF HostsOf
<1> QED BY <1>1, <1>2 DEF WillServe

\* A step that does nothing to a host.
LEMMA KeptFor ==
    ASSUME NEW h \in Hosts, LimitFor(h),
           HasLimiter(license)' <=> HasLimiter(license),
           HasLimiter(license) => Built(h)' = Built(h),
           \A n : <<n, h>> \in bound => <<n, h>> \in bound',
           ToBeTold => ToBeTold',
           line'[h] = line[h], table'[h] = table[h], why[h] \subseteq why'[h],
           h \in linked' => h \in linked,
           \A q \in Pushes : WillServe(push[q], h) =>
                                push'[q] = push[q] \/ WillServe(push[q], h)'
    PROVE  LimitFor(h)'
<1>1. EndsRight(h) => EndsRight(h)'
  BY StaysRight
<1>2. \A q \in Pushes : WillServe(push[q], h) => WillServe(push[q], h)'
  BY StillServes
<1>3. (\E p \in Pushes : WillServe(push[p], h)) => (\E p \in Pushes : WillServe(push[p], h))'
  BY <1>2
<1> QED BY <1>1, <1>3 DEF LimitFor

\* The database stays.
LEMMA SameRecords ==
    ASSUME UNCHANGED <<license, recordVars>>
    PROVE  /\ HasLimiter(license)' <=> HasLimiter(license)
           /\ \A h \in Hosts : Built(h)' = Built(h)
           /\ \A h, n : <<n, h>> \in bound => <<n, h>> \in bound'
BY DEF recordVars, HasLimiter, IsValid, Built

\* A push about the change reaches every host whose limiter the change concerns.
LEMMA ChangeIsPushed ==
    ASSUME LimiterInv, NEW p \in Pushes, NEW h \in Hosts,
           UNCHANGED <<licenseVars, agentVars>>,
           push[p].pc = "idle", push'[p].pc = "start",
           push'[p].kind \in {"user", "package"},
           \A q \in Pushes \ {p} : push'[q] = push[q],
           \/ /\ Built(h)' = Built(h) /\ \A n : <<n, h>> \in bound => <<n, h>> \in bound'
              /\ why[h] \subseteq why'[h]
           \/ /\ (h \in HostsOf(push[p]))' /\ \A n : <<n, h>> \in bound => <<n, h>> \in bound'
              /\ why[h] \subseteq why'[h]
           \/ why'[h] # {}
    PROVE  LimitFor(h)'
<1>1. HasLimiter(license)' <=> HasLimiter(license)
  BY DEF licenseVars
<1>2. \A q \in Pushes : WillServe(push[q], h) => push'[q] = push[q] \/ WillServe(push[q], h)'
  BY DEF WillServe
<1>3. ToBeTold => ToBeTold'
  BY DEF ToBeTold, licenseVars
<1>4. UNCHANGED <<line, table, linked>> /\ LimitFor(h)
  BY DEF agentVars, LimiterInv
<1>5. CASE why'[h] # {}
  BY <1>5 DEF LimitFor
<1>6. CASE HasLimiter(license) /\ (h \in HostsOf(push[p]))'
  <2>1. WillServe(push[p], h)'
    BY <1>1, <1>6 DEF WillServe, BuildsTables
  <2> QED BY <2>1 DEF LimitFor
<1>7. CASE /\ \A n : <<n, h>> \in bound => <<n, h>> \in bound'
           /\ why[h] \subseteq why'[h]
           /\ ~HasLimiter(license) \/ Built(h)' = Built(h)
  BY <1>1, <1>2, <1>3, <1>4, <1>7, KeptFor
<1> QED BY <1>5, <1>6, <1>7

\* Every change of the database is followed by the push it needs, or has its cause
\* noted: the rows of a user are gone before the push looks for them.
LEMMA ChangeKeeps ==
    ASSUME LimiterInv, NEW p \in Pushes, NEW h \in Hosts,
           \/ \E n \in Names : \/ \E v \in Limits : SetLimit(n, v, p)
                               \/ Provision(n, p) \/ Toggle(n, p) \/ Withdraw(n, p)
           \/ \E v \in Limits : SetPackageLimit(v, p)
    PROVE  LimitFor(h)'
<1>0. LimiterTypeOK /\ push \in [Pushes -> Push]
  BY DEF LimiterInv, LimiterTypeOK
<1>1. UNCHANGED <<licenseVars, agentVars>>
  BY DEF SetLimit, Provision, Toggle, Withdraw, SetPackageLimit
<1>2. ASSUME NEW kind \in {"user", "package"}, NEW who \in Names \cup {"nobody"},
             Launch(p, kind, who, {})
      PROVE  /\ push[p].pc = "idle" /\ push'[p].pc = "start"
             /\ push'[p].kind = kind /\ push'[p].who = who
             /\ \A q \in Pushes \ {p} : push'[q] = push[q]
  <2>1. kind \in PushKinds /\ {} \in SUBSET Hosts
    BY DEF PushKinds
  <2> QED BY <1>0, <1>2, <2>1, LaunchStarts
<1>3. ASSUME NEW n \in Names, Only(n, p)
      PROVE  /\ push[p].pc = "idle" /\ push'[p].pc = "start" /\ push'[p].kind = "user"
             /\ \A q \in Pushes \ {p} : push'[q] = push[q]
             /\ (h \in HostsOf(push[p]))' <=> <<n, h>> \in bound'
  <2>1. /\ push[p].pc = "idle" /\ push'[p].pc = "start"
        /\ push'[p].kind = "user" /\ push'[p].who = n
        /\ \A q \in Pushes \ {p} : push'[q] = push[q]
    BY <1>2, <1>3 DEF Only
  <2> QED BY <2>1 DEF HostsOf
<1>4. ASSUME NEW n \in Names, NEW v \in Limits, SetLimit(n, v, p) PROVE LimitFor(h)'
  <2>1. Only(n, p) /\ UNCHANGED <<bound, enabled, why>> /\ limit' = [limit EXCEPT ![n] = v]
    BY <1>4 DEF SetLimit
  <2>2. <<n, h>> \notin bound => Built(h)' = Built(h)
    BY <2>1 DEF Built
  <2> QED BY <1>1, <1>3, <2>1, <2>2, ChangeIsPushed
<1>5. ASSUME NEW v \in Limits, SetPackageLimit(v, p) PROVE LimitFor(h)'
  <2>1. /\ Launch(p, "package", "nobody", {}) /\ UNCHANGED <<bound, enabled, why>>
        /\ limit' = [n \in Names |-> v]
    BY <1>5 DEF SetPackageLimit
  <2>2. /\ push[p].pc = "idle" /\ push'[p].pc = "start" /\ push'[p].kind = "package"
        /\ \A q \in Pushes \ {p} : push'[q] = push[q]
    BY <1>2, <2>1
  <2>3. CASE \E n \in Names : <<n, h>> \in bound
    <3>1. (h \in HostsOf(push[p]))'
      BY <2>1, <2>2, <2>3 DEF HostsOf
    <3> QED BY <1>1, <2>1, <2>2, <3>1, ChangeIsPushed
  <2>4. CASE \A n \in Names : <<n, h>> \notin bound
    <3>1. {m \in enabled : <<m, h>> \in bound} = {}
      BY <1>0, <2>4 DEF LimiterTypeOK
    <3>2. Built(h)' = Built(h)
      BY <2>1, <3>1 DEF Built
    <3> QED BY <1>1, <2>1, <2>2, <3>2, ChangeIsPushed
  <2> QED BY <2>3, <2>4
<1>6. ASSUME NEW n \in Names, Provision(n, p) PROVE LimitFor(h)'
  <2>1. Only(n, p) /\ UNCHANGED why /\ bound' = bound \cup ({n} \X Hosts)
    BY <1>6 DEF Provision
  <2>2. <<n, h>> \in bound' /\ \A m : <<m, h>> \in bound => <<m, h>> \in bound'
    BY <2>1
  <2> QED BY <1>1, <1>3, <2>1, <2>2, ChangeIsPushed
<1>7. ASSUME NEW n \in Names, Toggle(n, p) PROVE LimitFor(h)'
  <2>1. /\ Only(n, p) /\ UNCHANGED <<bound, limit, why>>
        /\ \A m : m # n => (m \in enabled' <=> m \in enabled)
    BY <1>7 DEF Toggle
  <2>2. <<n, h>> \notin bound => Built(h)' = Built(h)
    <3>1. ASSUME <<n, h>> \notin bound
          PROVE  {m \in enabled' : <<m, h>> \in bound} = {m \in enabled : <<m, h>> \in bound}
      BY <2>1, <3>1
    <3> QED BY <2>1, <3>1 DEF Built
  <2> QED BY <1>1, <1>3, <2>1, <2>2, ChangeIsPushed
<1>8. ASSUME NEW n \in Names, Withdraw(n, p) PROVE LimitFor(h)'
  <2>1. /\ Only(n, p) /\ UNCHANGED <<enabled, limit>> /\ bound' = bound \ ({n} \X Hosts)
        /\ Blame({k \in Hosts : <<n, k>> \in bound}, "forgotten")
    BY <1>8 DEF Withdraw
  <2>2. /\ <<n, h>> \in bound => why'[h] # {}
        /\ why[h] \subseteq why'[h]
    <3> DEFINE H == {k \in Hosts : <<n, k>> \in bound}
    <3>1. H \in SUBSET Hosts /\ "forgotten" \in Blames /\ Blame(H, "forgotten")
      BY <2>1 DEF Blames
    <3>2. <<n, h>> \in bound => h \in H
      OBVIOUS
    <3> HIDE DEF H
    <3> QED BY <1>0, <3>1, <3>2, BlameNotes
  <2>3. ASSUME <<n, h>> \notin bound
        PROVE  Built(h)' = Built(h) /\ \A m : <<m, h>> \in bound => <<m, h>> \in bound'
    <3>1. \A m : <<m, h>> \in bound <=> <<m, h>> \in bound'
      BY <2>1, <2>3
    <3>2. {m \in enabled' : <<m, h>> \in bound'} = {m \in enabled : <<m, h>> \in bound}
      BY <2>1, <3>1
    <3> QED BY <2>1, <3>1, <3>2 DEF Built
  <2> QED BY <1>1, <1>3, <2>1, <2>2, <2>3, ChangeIsPushed
<1> QED BY <1>4, <1>5, <1>6, <1>7, <1>8

\* The connection of a host: a table at its end, and something else at its end.
LEMMA TableAtEnd ==
    ASSUME NEW h \in Hosts, NEW m \in Load, line[h] \in Seq(Load), line'[h] = Append(line[h], m),
           m.to = "limiter", Right(h, m.table)'
    PROVE  EndsRight(h)'
<1>1. PICK i \in Nat : /\ i \in DOMAIN line'[h] /\ line'[h][i] = m
                      /\ \A j \in DOMAIN line'[h] : j <= i
  <2>1. /\ DOMAIN line'[h] = 1..(Len(line[h]) + 1) /\ Len(line[h]) + 1 \in Nat
        /\ line'[h][Len(line[h]) + 1] = m
    OBVIOUS
  <2> QED BY <2>1
<1>2. i \in TablesOnLine(h)' /\ \A j \in TablesOnLine(h)' : j <= i
  BY <1>1 DEF TablesOnLine
<1>3. Right(h, line[h][i].table)'
  BY <1>1 DEF Right, NoLimitIn
<1> QED BY <1>2, <1>3 DEF EndsRight

\* A message about xray changes nothing for the limiter.
LEMMA FlagAtEnd ==
    ASSUME NEW h \in Hosts, NEW m \in Load, line[h] \in Seq(Load), line'[h] = Append(line[h], m),
           m.to # "limiter", table'[h] = table[h], UNCHANGED <<license, recordVars>>,
           EndsRight(h)
    PROVE  EndsRight(h)'
<1>1. /\ DOMAIN line'[h] = DOMAIN line[h] \cup {Len(line[h]) + 1}
      /\ line'[h][Len(line[h]) + 1] = m
      /\ \A i \in DOMAIN line[h] : line'[h][i] = line[h][i]
  OBVIOUS
<1>2. TablesOnLine(h)' = TablesOnLine(h)
  BY <1>1 DEF TablesOnLine
<1>3. \A t : Right(h, t) => Right(h, t)'
  BY SameRecords DEF Right, NoLimitIn
<1>4. CASE TablesOnLine(h) = {} /\ Right(h, table[h])
  BY <1>2, <1>4, SameRecords DEF EndsRight, Right, NoLimitIn
<1>5. ASSUME NEW i \in TablesOnLine(h), \A j \in TablesOnLine(h) : j <= i,
             Right(h, line[h][i].table)
      PROVE  EndsRight(h)'
  <2>1. line'[h][i] = line[h][i]
    BY <1>1 DEF TablesOnLine
  <2>2. Right(h, line[h][i].table)'
    BY <1>5, <2>1, SameRecords DEF Right, NoLimitIn
  <2> QED BY <1>2, <1>5, <2>2 DEF EndsRight
<1> QED BY <1>4, <1>5 DEF EndsRight

\* The agent reads the oldest message of its connection.
LEMMA OldestIsRead ==
    ASSUME NEW h \in Hosts, line[h] \in Seq(Load), line[h] # <<>>, line'[h] = Tail(line[h]),
           table'[h] = IF Head(line[h]).to = "limiter" THEN Head(line[h]).table ELSE table[h],
           UNCHANGED <<license, recordVars>>, EndsRight(h)
    PROVE  EndsRight(h)'
<1> DEFINE s == line[h]
<1>1. /\ Len(s) \in Nat \ {0} /\ DOMAIN s = 1..Len(s)
      /\ DOMAIN line'[h] = 1..(Len(s) - 1)
      /\ \A i \in 1..(Len(s) - 1) : line'[h][i] = s[i + 1]
      /\ Head(s) = s[1]
  OBVIOUS
<1> HIDE DEF s
<1>2. \A i : i \in TablesOnLine(h)' <=> i \in 1..(Len(s) - 1) /\ s[i + 1].to = "limiter"
  BY <1>1 DEF TablesOnLine
<1>3. \A i : i \in TablesOnLine(h) <=> i \in 1..Len(s) /\ s[i].to = "limiter"
  BY <1>1 DEF TablesOnLine, s
<1>4. CASE TablesOnLine(h) = {} /\ Right(h, table[h])
  <2>1. TablesOnLine(h)' = {}
    BY <1>1, <1>2, <1>3, <1>4
  <2>2. table'[h] = table[h]
    BY <1>1, <1>3, <1>4 DEF s
  <2> QED BY <1>4, <2>1, <2>2, SameRecords DEF EndsRight, Right, NoLimitIn
<1>5. ASSUME NEW i \in TablesOnLine(h), \A j \in TablesOnLine(h) : j <= i,
             Right(h, line[h][i].table)
      PROVE  EndsRight(h)'
  <2>1. CASE i = 1
    <3>1. TablesOnLine(h)' = {}
      <4>1. ASSUME NEW k \in TablesOnLine(h)' PROVE FALSE
        <5>1. k \in 1..(Len(s) - 1) /\ s[k + 1].to = "limiter"
          BY <1>2
        <5>2. k + 1 \in TablesOnLine(h)
          BY <1>1, <1>3, <5>1
        <5> QED BY <1>5, <2>1, <5>1, <5>2
      <4> QED BY <4>1
    <3>2. table'[h] = line[h][i].table
      BY <1>1, <1>3, <1>5, <2>1 DEF s
    <3> QED BY <1>5, <3>1, <3>2, SameRecords DEF EndsRight, Right, NoLimitIn
  <2>2. CASE i # 1
    <3>1. i - 1 \in 1..(Len(s) - 1) /\ (i - 1) + 1 = i /\ s[i].to = "limiter"
      BY <1>1, <1>3, <1>5, <2>2
    <3>2. i - 1 \in TablesOnLine(h)'
      BY <1>2, <3>1
    <3>3. \A j \in TablesOnLine(h)' : j <= i - 1
      <4>1. ASSUME NEW j \in TablesOnLine(h)' PROVE j <= i - 1
        <5>1. j \in 1..(Len(s) - 1) /\ s[j + 1].to = "limiter"
          BY <1>2
        <5>2. j + 1 \in TablesOnLine(h)
          BY <1>1, <1>3, <5>1
        <5> QED BY <1>1, <1>3, <1>5, <5>1, <5>2
      <4> QED BY <4>1
    <3>4. line'[h][i - 1] = line[h][i]
      BY <1>1, <3>1 DEF s
    <3>5. Right(h, line[h][i - 1].table)'
      BY <1>5, <3>4, SameRecords DEF Right, NoLimitIn
    <3> QED BY <3>2, <3>3, <3>5 DEF EndsRight
  <2> QED BY <2>1, <2>2
<1> QED BY <1>4, <1>5 DEF EndsRight

\* What every step of a push leaves alone.
LEMMA PushLeaves ==
    ASSUME UNCHANGED <<licenseVars, recordVars, linked>>, ToBeTold PROVE ToBeTold'
BY DEF licenseVars, ToBeTold

\* After one host the others still are to come.
LEMMA OthersStillServed ==
    ASSUME LimiterInv, NEW p \in Pushes, NEW k \in Hosts, NEW h \in Hosts, h # k,
           UNCHANGED <<license, recordVars>>,
           push[p].pc \in {"next", "send", "http"}, push[p].pc # "next" => push[p].host = k,
           push' = [push EXCEPT ![p] = After(push[p], k)],
           WillServe(push[p], h)
    PROVE  WillServe(push[p], h)'
<1>1. push[p] \in Push /\ push'[p] = After(push[p], k)
  BY DEF LimiterInv, LimiterTypeOK
<1>2. h \in push[p].todo /\ BuildsTables(push[p])
  BY DEF WillServe
<1>3. /\ push'[p].pc = "next" /\ push'[p].kind = push[p].kind
      /\ push'[p].todo = push[p].todo \ {k}
  BY <1>1, <1>2, AfterIsPush
<1>4. BuildsTables(push[p])'
  BY <1>2, <1>3, SameRecords DEF BuildsTables
<1> QED BY <1>2, <1>3, <1>4 DEF WillServe

\* The gate of a push lets those through that have somewhere to go.
LEMMA BeginKeeps ==
    ASSUME LimiterInv, NEW p \in Pushes, NEW h \in Hosts, Begin(p)
    PROVE  LimitFor(h)'
<1>1. /\ UNCHANGED <<licenseVars, license, recordVars, agentVars, linked, line, table, why>>
      /\ LimitFor(h) /\ push[p] \in Push /\ push \in [Pushes -> Push]
  BY DEF Begin, agentVars, licenseVars, LimiterInv, LimiterTypeOK
<1>2. \A q \in Pushes \ {p} : push'[q] = push[q]
  BY <1>1 DEF Begin
<1>3. ASSUME WillServe(push[p], h) PROVE WillServe(push[p], h)'
  <2> DEFINE g == push[p]
             load == IF Flags(p) THEN [to |-> "xray", on |-> {k \in Hosts : Authorized(k)}]
                                 ELSE NoLoad
             new == [g EXCEPT !.pc = "next", !.todo = HostsOf(g), !.load = load]
  <2>1. g.pc = "start" /\ BuildsTables(g) /\ h \in HostsOf(g)
    BY <1>3 DEF WillServe, Begin, Steps
  <2>2. ~(g.kind \in {"user", "package", "all"} /\ ~HasLimiter(license)) /\ HostsOf(g) # {}
    BY <2>1 DEF BuildsTables
  <2>3. push' = [push EXCEPT ![p] = new]
    BY <2>2 DEF Begin
  <2> HIDE DEF load
  <2>4. new.pc = "next" /\ new.todo = HostsOf(g) /\ new.kind = g.kind
    BY <1>1 DEF Push
  <2> HIDE DEF new
  <2>5. push'[p] = new
    BY <1>1, <2>3
  <2>6. BuildsTables(push[p])'
    BY <1>1, <2>1, <2>4, <2>5, SameRecords DEF BuildsTables
  <2> QED BY <2>1, <2>4, <2>5, <2>6 DEF WillServe
<1>4. ToBeTold => ToBeTold'
  BY <1>1, PushLeaves
<1>5. \A q \in Pushes : WillServe(push[q], h) => push'[q] = push[q] \/ WillServe(push[q], h)'
  BY <1>2, <1>3
<1> QED BY <1>1, <1>4, <1>5, SameRecords, KeptFor

\* A push that skips a host has nothing to send to it, which is noted, or was not
\* going to serve it.
LEMMA TurnKeeps ==
    ASSUME LimiterInv, NEW p \in Pushes, NEW k \in Hosts, NEW h \in Hosts, Turn(p, k)
    PROVE  LimitFor(h)'
<1> DEFINE g == push[p]
           t == IF g.kind = "revoke" THEN Zeroed(Built(k)) ELSE Built(k)
           load == [NoLoad EXCEPT !.table = t]
           new == [g EXCEPT !.pc = IF k \in linked THEN "send" ELSE "http",
                            !.host = k, !.load = load]
<1>1. /\ UNCHANGED <<licenseVars, license, recordVars, agentVars, linked, line, table>>
      /\ LimitFor(h) /\ push[p] \in Push /\ push \in [Pushes -> Push]
      /\ g.pc = "next" /\ k \in g.todo
  BY DEF Turn, Steps, agentVars, licenseVars, LimiterInv, LimiterTypeOK
<1>2. \/ t = Empty /\ Blame({k}, "empty") /\ push' = [push EXCEPT ![p] = After(g, k)]
      \/ /\ t # Empty /\ UNCHANGED why /\ g.kind # "revoke" /\ ~HasLimiter(license)
         /\ push' = [push EXCEPT ![p] = After(g, k)]
      \/ t # Empty /\ UNCHANGED why /\ push' = [push EXCEPT ![p] = new]
  BY DEF Turn
<1> HIDE DEF t, load
<1>3. \A q \in Pushes \ {p} : push'[q] = push[q]
  BY <1>1, <1>2
<1>4. why[h] \subseteq why'[h] /\ (t = Empty /\ h = k => why'[h] # {})
  <2>1. {k} \in SUBSET Hosts /\ "empty" \in Blames /\ LimiterTypeOK
    BY DEF Blames, LimiterInv
  <2>2. Blame({k}, "empty") => why[h] \subseteq why'[h] /\ (h = k => why'[h] # {})
    BY <2>1, BlameNotes
  <2> QED BY <1>2, <2>2
<1>5. CASE h = k /\ t = Empty
  BY <1>4, <1>5 DEF LimitFor
<1>6. CASE ~(h = k /\ t = Empty)
  <2>1. ASSUME WillServe(g, h) PROVE WillServe(g, h)'
    <3>1. BuildsTables(g) /\ h \in g.todo
      BY <1>1, <2>1 DEF WillServe
    <3>2. CASE push' = [push EXCEPT ![p] = new]
      <4>1. /\ new.pc \in {"send", "http"} /\ new.kind = g.kind
            /\ new.todo = g.todo /\ new.host = k
        BY <1>1 DEF Push
      <4> HIDE DEF new
      <4>2. push'[p] = new
        BY <1>1, <3>2
      <4>3. BuildsTables(g)'
        BY <1>1, <3>1, <4>1, <4>2, SameRecords DEF BuildsTables
      <4> QED BY <3>1, <4>1, <4>2, <4>3 DEF WillServe
    <3>3. CASE t = Empty /\ push' = [push EXCEPT ![p] = After(g, k)]
      <4>1. h # k
        BY <1>6, <3>3
      <4> QED BY <1>1, <2>1, <3>3, <4>1, OthersStillServed
    <3>4. ~(g.kind # "revoke" /\ ~HasLimiter(license))
      BY <3>1 DEF BuildsTables
    <3> QED BY <1>2, <3>2, <3>3, <3>4
  <2>2. ToBeTold => ToBeTold'
    BY <1>1, PushLeaves
  <2>3. \A q \in Pushes : WillServe(push[q], h) => push'[q] = push[q] \/ WillServe(push[q], h)'
    BY <1>3, <2>1
  <2> QED BY <1>1, <1>4, <2>2, <2>3, SameRecords, KeptFor
<1> QED BY <1>5, <1>6

\* What is sent is right or noted as overtaken; what is not sent is noted as lost.
LEMMA SendKeeps ==
    ASSUME LimiterInv, NEW p \in Pushes, NEW h \in Hosts, Send(p)
    PROVE  LimitFor(h)'
<1>0. LimiterTypeOK /\ Loaded(push[p]) /\ push[p] \in Push /\ push \in [Pushes -> Push]
  BY DEF LimiterInv, LimiterTypeOK, LimiterShape
<1>a. /\ push[p].pc = "send" /\ push[p].host \in Hosts
      /\ push[p].load \in Load /\ push[p].load.to = "limiter"
  BY <1>0 DEF Send, Steps, Loaded, Push
<1>1. PICK k \in Hosts, m \in Load :
         k = push[p].host /\ m = push[p].load /\ push[p].pc = "send" /\ m.to = "limiter"
  BY <1>a
<1>b. \A i \in Hosts : line[i] \in Seq(Load)
  BY <1>0 DEF LimiterTypeOK
<1>2. /\ UNCHANGED <<licenseVars, license, recordVars, linked, table>> /\ LimitFor(h)
      /\ push' = [push EXCEPT ![p] = After(push[p], k)]
  BY <1>1 DEF Send, licenseVars, LimiterInv
<1>3. \/ /\ line' = [line EXCEPT ![k] = Append(@, m)]
         /\ (Right(k, m.table) /\ UNCHANGED why) \/ Blame({k}, "overtaken")
      \/ Blame({k}, "lost") /\ line' = line
  BY <1>1 DEF Send
<1>4. \/ UNCHANGED why \/ Blame({k}, "overtaken") \/ Blame({k}, "lost")
  BY <1>3
<1>5. /\ why[h] \subseteq why'[h]
      /\ h = k /\ (Blame({k}, "overtaken") \/ Blame({k}, "lost")) => why'[h] # {}
  <2>1. {k} \in SUBSET Hosts /\ {"overtaken", "lost"} \subseteq Blames
    BY <1>1 DEF Blames
  <2> QED BY <1>0, <1>4, <2>1, BlameNotes
<1>6. CASE h = k
  <2>1. CASE Blame({k}, "overtaken") \/ Blame({k}, "lost")
    BY <1>5, <1>6, <2>1 DEF LimitFor
  <2>2. CASE Right(k, m.table) /\ line' = [line EXCEPT ![k] = Append(@, m)]
    <3>1. Right(h, m.table)'
      BY <1>2, <1>6, <2>2, SameRecords DEF Right, NoLimitIn
    <3>2. line'[h] = Append(line[h], m)
      BY <1>0, <1>6, <2>2 DEF LimiterTypeOK
    <3>3. EndsRight(h)'
      BY <1>1, <1>b, <3>1, <3>2, TableAtEnd
    <3> QED BY <3>3 DEF LimitFor
  <2> QED BY <1>3, <2>1, <2>2
<1>7. CASE h # k
  <2>1. line'[h] = line[h] /\ table'[h] = table[h]
    BY <1>0, <1>2, <1>3, <1>7 DEF LimiterTypeOK
  <2>2. WillServe(push[p], h) => WillServe(push[p], h)'
    BY <1>1, <1>2, <1>7, OthersStillServed
  <2>3. \A q \in Pushes : WillServe(push[q], h) => push'[q] = push[q] \/ WillServe(push[q], h)'
    BY <1>2, <2>2
  <2>4. ToBeTold => ToBeTold'
    BY <1>2, PushLeaves
  <2> QED BY <1>2, <1>5, <2>1, <2>3, <2>4, SameRecords, KeptFor
<1> QED BY <1>6, <1>7

\* The same over HTTP.
LEMMA PostKeeps ==
    ASSUME LimiterInv, NEW p \in Pushes, NEW h \in Hosts, Post(p)
    PROVE  LimitFor(h)'
<1>0. LimiterTypeOK /\ Loaded(push[p]) /\ push[p] \in Push /\ push \in [Pushes -> Push]
  BY DEF LimiterInv, LimiterTypeOK, LimiterShape
<1>a. push[p].pc = "http" /\ push[p].host \in Hosts /\ push[p].load.table \in Tables
  BY <1>0 DEF Post, Steps, Loaded, Push, Load
<1>1. PICK k \in Hosts, t \in Tables :
         k = push[p].host /\ t = push[p].load.table /\ push[p].pc = "http"
  BY <1>a
<1>2. /\ UNCHANGED <<licenseVars, license, recordVars, linked, line>> /\ LimitFor(h)
      /\ push' = [push EXCEPT ![p] = After(push[p], k)]
  BY <1>1 DEF Post, licenseVars, LimiterInv
<1>3. \/ /\ table' = [table EXCEPT ![k] = t] /\ Right(k, t) /\ line[k] = <<>>
         /\ why' = [why EXCEPT ![k] = {}]
      \/ table' = [table EXCEPT ![k] = t] /\ Blame({k}, "overtaken")
      \/ table' = table /\ Blame({k}, "lost")
  BY <1>1 DEF Post
<1>4. CASE h = k
  <2>1. CASE Blame({k}, "overtaken") \/ Blame({k}, "lost")
    <3>1. {k} \in SUBSET Hosts /\ {"overtaken", "lost"} \subseteq Blames
      BY <1>1 DEF Blames
    <3>2. why'[h] # {}
      BY <1>0, <1>4, <2>1, <3>1, BlameNotes
    <3> QED BY <3>2 DEF LimitFor
  <2>2. CASE table' = [table EXCEPT ![k] = t] /\ Right(k, t) /\ line[k] = <<>>
    <3>1. table'[h] = t /\ line'[h] = <<>>
      BY <1>0, <1>2, <1>4, <2>2 DEF LimiterTypeOK
    <3>2. Right(h, table[h])'
      BY <1>2, <1>4, <2>2, <3>1, SameRecords DEF Right, NoLimitIn
    <3>3. TablesOnLine(h)' = {}
      BY <3>1 DEF TablesOnLine
    <3> QED BY <3>2, <3>3 DEF LimitFor, EndsRight
  <2> QED BY <1>3, <2>1, <2>2
<1>5. CASE h # k
  <2>1. line'[h] = line[h] /\ table'[h] = table[h]
    BY <1>0, <1>2, <1>3, <1>5 DEF LimiterTypeOK
  <2>2. why[h] \subseteq why'[h]
    <3>1. {k} \in SUBSET Hosts /\ {"overtaken", "lost"} \subseteq Blames
      BY <1>1 DEF Blames
    <3>2. CASE why' = [why EXCEPT ![k] = {}]
      BY <1>5, <3>2
    <3> QED BY <1>0, <1>3, <3>1, <3>2, BlameNotes
  <2>3. WillServe(push[p], h) => WillServe(push[p], h)'
    BY <1>1, <1>2, <1>5, OthersStillServed
  <2>4. \A q \in Pushes : WillServe(push[q], h) => push'[q] = push[q] \/ WillServe(push[q], h)'
    BY <1>2, <2>3
  <2>5. ToBeTold => ToBeTold'
    BY <1>2, PushLeaves
  <2> QED BY <1>2, <2>1, <2>2, <2>4, <2>5, SameRecords, KeptFor
<1> QED BY <1>4, <1>5

\* A failed write is followed by the attempt over HTTP.
LEMMA SendFailsKeeps ==
    ASSUME LimiterInv, NEW p \in Pushes, NEW h \in Hosts, SendFails(p)
    PROVE  LimitFor(h)'
<1>1. /\ UNCHANGED <<licenseVars, license, recordVars, linked, line, table, why>> /\ LimitFor(h)
      /\ push' = [push EXCEPT ![p].pc = "http"]
      /\ push[p].pc = "send" /\ push[p] \in Push /\ push \in [Pushes -> Push]
  BY DEF SendFails, Steps, agentVars, licenseVars, LimiterInv, LimiterTypeOK
<1>2. /\ push'[p].pc = "http" /\ push'[p].kind = push[p].kind
      /\ push'[p].todo = push[p].todo /\ push'[p].host = push[p].host
  BY <1>1 DEF Push
<1>3. WillServe(push[p], h) => WillServe(push[p], h)'
  BY <1>1, <1>2, SameRecords DEF WillServe, BuildsTables
<1>4. \A q \in Pushes : WillServe(push[q], h) => push'[q] = push[q] \/ WillServe(push[q], h)'
  BY <1>1, <1>3
<1>5. ToBeTold => ToBeTold'
  BY <1>1, PushLeaves
<1> QED BY <1>1, <1>4, <1>5, SameRecords, KeptFor

\* A push about xray serves no limiter.
LEMMA SendFlagKeeps ==
    ASSUME LimiterInv, NEW p \in Pushes, NEW k \in Hosts, NEW h \in Hosts, SendFlag(p, k)
    PROVE  LimitFor(h)'
<1>0. LimiterTypeOK /\ Loaded(push[p]) /\ push[p] \in Push /\ push \in [Pushes -> Push]
  BY DEF LimiterInv, LimiterTypeOK, LimiterShape
<1>1. /\ UNCHANGED <<licenseVars, license, recordVars, linked, table, why>> /\ LimitFor(h)
      /\ push' = [push EXCEPT ![p] = After(push[p], k)]
      /\ line' = line \/ line' = [line EXCEPT ![k] = Append(@, push[p].load)]
  BY DEF SendFlag, licenseVars, LimiterInv
<1>2. /\ push[p].kind \in {"quota", "flag"} /\ push[p].pc = "next"
      /\ push[p].load.to = "xray" /\ push[p].load \in Load
  BY <1>0 DEF SendFlag, Steps, Flags, Loaded, Push
<1>3. ~WillServe(push[p], h)
  BY <1>2 DEF WillServe, BuildsTables
<1>4. \A q \in Pushes : WillServe(push[q], h) => push'[q] = push[q]
  BY <1>1, <1>3
<1>5. ToBeTold => ToBeTold'
  BY <1>1, PushLeaves
<1>6. CASE line'[h] = line[h]
  BY <1>1, <1>4, <1>5, <1>6, SameRecords, KeptFor
<1>7. CASE h = k /\ line' = [line EXCEPT ![k] = Append(@, push[p].load)]
  <2>1. line[h] \in Seq(Load) /\ line'[h] = Append(line[h], push[p].load)
    BY <1>0, <1>7 DEF LimiterTypeOK
  <2>2. EndsRight(h) => EndsRight(h)'
    <3> DEFINE m == push[p].load
    <3>1. m \in Load /\ m.to # "limiter" /\ line'[h] = Append(line[h], m)
      BY <1>2, <2>1
    <3> HIDE DEF m
    <3> QED BY <1>1, <2>1, <3>1, FlagAtEnd
  <2>3. \A q \in Pushes : WillServe(push[q], h) => WillServe(push[q], h)'
    BY <1>1, <1>4, SameRecords, StillServes
  <2> QED BY <1>1, <1>5, <2>2, <2>3, SameRecords DEF LimitFor
<1> QED BY <1>0, <1>1, <1>6, <1>7 DEF LimiterTypeOK

\* The callback that was due is a push to all.
LEMMA CallbackKeeps ==
    ASSUME LimiterInv, Announced, NEW c \in Callbacks, NEW p \in Pushes, NEW h \in Hosts,
           RunCallback(c, p)
    PROVE  LimitFor(h)'
<1>1. /\ UNCHANGED <<license, ask, recordVars, linked, line, table, why>> /\ due' = due \ {c}
      /\ LimitFor(h) /\ push \in [Pushes -> Push] /\ c \in due
  BY DEF RunCallback, agentVars, LimiterInv, LimiterTypeOK
<1>2. /\ push[p].pc = "idle" /\ push'[p].pc = "start" /\ push'[p].kind = CallbackKind(c)
      /\ \A q \in Pushes \ {p} : push'[q] = push[q]
  <2>1. CallbackKind(c) \in PushKinds /\ {} \in SUBSET Hosts
    BY LicenseAssumption DEF CallbackKind, PushKinds
  <2>2. Launch(p, CallbackKind(c), "nobody", {})
    BY DEF RunCallback
  <2> QED BY <1>1, <2>1, <2>2, LaunchStarts
<1>3. \A q \in Pushes : WillServe(push[q], h) => push'[q] = push[q]
  BY <1>2 DEF WillServe
<1>4. CASE ToBeTold => ToBeTold'
  BY <1>1, <1>3, <1>4, SameRecords, KeptFor
<1>5. CASE ToBeTold /\ ~ToBeTold'
  <2>1. \/ c = "recover" /\ HasLimiter(license)
        \/ c = "lost" /\ ~HasLimiter(license)
    <3>1. HasLimiter(license)' <=> HasLimiter(license)
      BY <1>1, SameRecords
    <3>2. CASE HasLimiter(license)
      <4>1. /\ "recover" \notin due'
            /\ ~\E a \in Asks : ask[a].pc = "applied" /\ ask[a].turn = "gained"
        BY <1>1, <1>5, <3>1, <3>2 DEF ToBeTold
      <4>2. "recover" \in due
        BY <1>5, <3>2, <4>1 DEF ToBeTold
      <4> QED BY <1>1, <3>2, <4>1, <4>2
    <3>3. CASE ~HasLimiter(license)
      BY <1>1, <1>5, <3>1, <3>3 DEF ToBeTold
    <3> QED BY <3>2, <3>3
  <2>2. WillServe(push[p], h)'
    BY <1>1, <1>2, <2>1, SameRecords DEF WillServe, BuildsTables, HostsOf, CallbackKind
  <2> QED BY <2>2 DEF LimitFor
<1> QED BY <1>4, <1>5

\* The feature does not come back when time passes.
LEMMA TimeGivesNothing ==
    ASSUME LimiterTypeOK, GraceEnds, HasLimiter(license)'
    PROVE  HasLimiter(license)
<1>1. license \in Status /\ license' = [license EXCEPT !.check = "old"]
  BY DEF GraceEnds, LimiterTypeOK, LicenseTypeOK
<1>2. /\ license'.hard = license.hard /\ license'.valid = license.valid
      /\ license'.plan = license.plan /\ license'.check = "old"
  BY <1>1 DEF Status
<1> QED BY <1>2 DEF HasLimiter, IsValid

\* The license does not take or give the feature without a callback, or the change
\* is one parseResponse does not announce.
LEMMA LicenseKeeps ==
    ASSUME LimiterInv, Announced, NEW h \in Hosts, LicenseMoves
    PROVE  LimitFor(h)'
<1>0. LimiterTypeOK /\ ask \in [Asks -> Request]
  BY DEF LimiterInv, LimiterTypeOK, LicenseTypeOK
<1>1. /\ UNCHANGED <<recordVars, linked, line, table, push>> /\ LimitFor(h) /\ LicenseStep
  BY DEF LicenseMoves, agentVars, LimiterInv
<1>2. /\ \A k \in Hosts : Built(k)' = Built(k)
      /\ \A k, n : <<n, k>> \in bound => <<n, k>> \in bound'
  BY <1>1 DEF recordVars, Built
<1>3. CASE Unannounced
  <2>1. Blame(Hosts, "unannounced") /\ "unannounced" \in Blames /\ Hosts \in SUBSET Hosts
    BY <1>3 DEF LicenseMoves, Blames
  <2>2. why'[h] # {}
    BY <1>0, <2>1, BlameNotes
  <2> QED BY <2>2 DEF LimitFor
<1>4. CASE ~Unannounced
  <2>1. UNCHANGED why
    BY <1>4 DEF LicenseMoves
  <2>2. ASSUME HasLimiter(license)' <=> HasLimiter(license), ToBeTold => ToBeTold'
        PROVE  LimitFor(h)'
    BY <1>1, <1>2, <2>1, <2>2, KeptFor
  <2>3. ASSUME NEW a \in Asks, Answer(a) PROVE LimitFor(h)'
    <3>1. /\ UNCHANGED <<license, due>> /\ ask[a].pc = "idle"
          /\ \A b \in Asks \ {a} : ask'[b] = ask[b]
      BY <1>0, <2>3 DEF Answer
    <3>2. ToBeTold => ToBeTold'
      BY <3>1 DEF ToBeTold
    <3>3. HasLimiter(license)' <=> HasLimiter(license)
      BY <3>1 DEF HasLimiter, IsValid
    <3> QED BY <2>2, <3>2, <3>3
  <2>4. ASSUME NEW a \in Asks, Apply(a) PROVE LimitFor(h)'
    <3>2. HasLimiter(license) \in BOOLEAN /\ HasLimiter(license') \in BOOLEAN
      BY DEF HasLimiter, IsValid
    <3>3. PICK turn : /\ turn = CASE HasLimiter(license) = HasLimiter(license') -> "same"
                                  [] HasLimiter(license') -> "gained"
                                  [] OTHER -> "lost"
                      /\ ask' = [ask EXCEPT ![a].pc = "applied", ![a].turn = turn]
      BY <2>4 DEF Apply
    <3>a. /\ HasLimiter(license') /\ ~HasLimiter(license) => turn = "gained"
          /\ ~HasLimiter(license') /\ HasLimiter(license) => turn = "lost"
      BY <3>2, <3>3
    <3> DEFINE new == [ask[a] EXCEPT !.pc = "applied", !.turn = turn]
    <3>1. /\ UNCHANGED due /\ ask[a].pc = "compared"
          /\ ask' = [ask EXCEPT ![a] = new]
      BY <2>4, <3>3 DEF Apply
    <3>4. new.pc = "applied" /\ new.turn = turn
      BY <1>0 DEF Request
    <3> HIDE DEF new
    <3>5. ask'[a] = new /\ \A b \in Asks \ {a} : ask'[b] = ask[b]
      BY <1>0, <3>1
    <3>6. CASE HasLimiter(license) <=> HasLimiter(license')
      <4>1. HasLimiter(license)' <=> HasLimiter(license)
        BY <3>6
      <4>2. ToBeTold => ToBeTold'
        BY <3>1, <3>5, <4>1 DEF ToBeTold
      <4> QED BY <2>2, <4>1, <4>2
    <3>7. CASE ~(HasLimiter(license) <=> HasLimiter(license'))
      <4>1. ToBeTold'
        BY <3>a, <3>4, <3>5, <3>7 DEF ToBeTold
      <4> QED BY <4>1 DEF LimitFor
    <3> QED BY <3>6, <3>7
  <2>5. ASSUME NEW a \in Asks, Finish(a) PROVE LimitFor(h)'
    <3>1. /\ UNCHANGED license /\ due' = due \cup Fired(a) /\ ask[a].pc = "applied"
          /\ \A b \in Asks \ {a} : ask'[b] = ask[b]
      BY <1>0, <2>5 DEF Finish
    <3>2. HasLimiter(license)' <=> HasLimiter(license)
      BY <3>1 DEF HasLimiter, IsValid
    <3>3. ASSUME ToBeTold PROVE ToBeTold'
      <4>1. CASE HasLimiter(license) /\ ask[a].turn = "gained"
        <5>1. ~(ask[a].had.valid \/ ask[a].answer \notin Plans)
          BY <1>4, <2>5, <4>1 DEF Unannounced
        <5>2. "recover" \in Fired(a)
          BY <5>1 DEF Fired, Announced
        <5> QED BY <3>1, <3>2, <4>1, <5>2 DEF ToBeTold
      <4>2. CASE ~HasLimiter(license) /\ ask[a].turn = "lost"
        <5>1. ask[a].had.limiter
          BY <1>4, <2>5, <4>2 DEF Unannounced
        <5>2. "lost" \in Fired(a)
          BY <4>2, <5>1 DEF Fired, Announced
        <5> QED BY <3>1, <3>2, <4>2, <5>2 DEF ToBeTold
      <4> QED BY <3>1, <3>2, <3>3, <4>1, <4>2 DEF ToBeTold
    <3> QED BY <2>2, <3>2, <3>3
  <2>6. CASE GraceEnds
    <3>1. HasLimiter(license)' => HasLimiter(license)
      BY <1>0, <2>6, TimeGivesNothing
    <3>2. HasLimiter(license) => HasLimiter(license)'
      BY <1>4, <2>6 DEF Unannounced
    <3>3. ToBeTold => ToBeTold'
      BY <2>6, <3>1, <3>2 DEF GraceEnds, ToBeTold
    <3> QED BY <2>2, <3>1, <3>2, <3>3
  <2>7. CASE VerdictChanges
    BY <2>2, <2>7 DEF VerdictChanges, ToBeTold, HasLimiter, IsValid
  <2> QED BY <1>1, <2>3, <2>4, <2>5, <2>6, <2>7 DEF LicenseStep
<1> QED BY <1>3, <1>4

\* The end of the process is a cause of its own.
LEMMA RestartKeeps ==
    ASSUME LimiterInv, NEW h \in Hosts, PanelRestarts
    PROVE  LimitFor(h)'
<1>1. Blame(Hosts, "restarted") /\ "restarted" \in Blames /\ Hosts \in SUBSET Hosts /\ LimiterTypeOK
  BY DEF PanelRestarts, Blames, LimiterInv
<1>2. why'[h] # {}
  BY <1>1, BlameNotes
<1> QED BY <1>2 DEF LimitFor

\* The agent reads its connection in order, and the last table counts.
LEMMA DeliverKeeps ==
    ASSUME LimiterInv, NEW k \in Hosts, NEW h \in Hosts, Deliver(k)
    PROVE  LimitFor(h)'
<1>0. LimiterTypeOK /\ line \in [Hosts -> Seq(Load)] /\ table \in [Hosts -> Tables]
  BY DEF LimiterInv, LimiterTypeOK
<1>1. /\ UNCHANGED <<licenseVars, license, recordVars, linked, push>> /\ LimitFor(h)
      /\ line' = [line EXCEPT ![k] = Tail(@)] /\ line[k] # <<>>
  BY DEF Deliver, licenseVars, LimiterInv
<1>2. PICK m : m = Head(line[k])
  OBVIOUS
<1>3. \/ /\ m.to = "limiter" /\ table' = [table EXCEPT ![k] = m.table]
         /\ why' = IF Right(k, m.table) /\ line'[k] = <<>> THEN [why EXCEPT ![k] = {}] ELSE why
      \/ m.to # "limiter" /\ UNCHANGED <<table, why>>
  BY <1>2 DEF Deliver
<1>4. ToBeTold => ToBeTold'
  BY <1>1, PushLeaves
<1>5. \A q \in Pushes : push'[q] = push[q]
  BY <1>1
<1>6. CASE h # k
  <2>1. line'[h] = line[h] /\ table'[h] = table[h] /\ why'[h] = why[h]
    BY <1>0, <1>1, <1>3, <1>6 DEF LimiterTypeOK
  <2> QED BY <1>1, <1>4, <1>5, <2>1, SameRecords, KeptFor
<1>7. CASE h = k
  <2>1. line'[h] = Tail(line[h]) /\ line[h] # <<>> /\ line[h] \in Seq(Load)
    BY <1>0, <1>1, <1>7
  <2>2. table'[h] = IF m.to = "limiter" THEN m.table ELSE table[h]
    BY <1>0, <1>3, <1>7
  <2>3. EndsRight(h) => EndsRight(h)'
    BY <1>1, <1>2, <1>7, <2>1, <2>2, OldestIsRead
  <2>4. CASE m.to = "limiter" /\ Right(k, m.table) /\ line'[k] = <<>>
    <3>1. TablesOnLine(h)' = {}
      BY <1>7, <2>4 DEF TablesOnLine
    <3>2. Right(h, table[h])'
      BY <1>1, <1>7, <2>2, <2>4, SameRecords DEF Right, NoLimitIn
    <3> QED BY <3>1, <3>2 DEF LimitFor, EndsRight
  <2>5. CASE UNCHANGED why
    <3>1. \A q \in Pushes : WillServe(push[q], h) => WillServe(push[q], h)'
      BY <1>1, <1>5, SameRecords, StillServes
    <3> QED BY <1>1, <1>4, <2>3, <2>5, <3>1, SameRecords DEF LimitFor
  <2> QED BY <1>3, <2>4, <2>5
<1> QED BY <1>6, <1>7

\* A connection that ends with tables on it is noted; one without is told anew when
\* it comes back.
LEMMA DropKeeps ==
    ASSUME LimiterInv, NEW k \in Hosts, NEW h \in Hosts, Drop(k)
    PROVE  LimitFor(h)'
<1>0. LimiterTypeOK /\ line \in [Hosts -> Seq(Load)] /\ table \in [Hosts -> Tables]
  BY DEF LimiterInv, LimiterTypeOK
<1>1. /\ UNCHANGED <<licenseVars, license, recordVars, push>> /\ LimitFor(h)
      /\ line' = [line EXCEPT ![k] = <<>>] /\ linked' = linked \ {k}
      /\ UNCHANGED table \/ table' = [table EXCEPT ![k] = Empty]
      /\ IF line[k] = <<>> THEN UNCHANGED why ELSE Blame({k}, "lost")
  BY DEF Drop, licenseVars, LimiterInv
<1>2. /\ why[h] \subseteq why'[h] /\ (h = k /\ line[k] # <<>> => why'[h] # {})
  <2>1. {k} \in SUBSET Hosts /\ "lost" \in Blames
    BY DEF Blames
  <2> QED BY <1>0, <1>1, <2>1, BlameNotes
<1>3. ToBeTold => ToBeTold'
  BY <1>1 DEF ToBeTold, licenseVars
<1>4. \A q \in Pushes : push'[q] = push[q]
  BY <1>1
<1>5. CASE h # k
  <2>1. line'[h] = line[h] /\ table'[h] = table[h]
    BY <1>0, <1>1, <1>5
  <2> QED BY <1>1, <1>2, <1>3, <1>4, <1>5, <2>1, SameRecords, KeptFor
<1>6. CASE h = k /\ line[k] # <<>>
  BY <1>2, <1>6 DEF LimitFor
<1>7. CASE h = k /\ line[k] = <<>>
  <2>1. CASE HasLimiter(license)
    BY <1>1, <1>7, <2>1, SameRecords DEF LimitFor
  <2>2. CASE ~HasLimiter(license)
    <3>1. line'[h] = <<>> /\ line[h] = <<>> /\ (table'[h] = table[h] \/ table'[h] = Empty)
      BY <1>0, <1>1, <1>7
    <3>2. TablesOnLine(h) = {} /\ TablesOnLine(h)' = {}
      BY <3>1 DEF TablesOnLine
    <3>3. EndsRight(h) => EndsRight(h)'
      BY <1>1, <2>2, <3>1, <3>2, SameRecords DEF EndsRight, Right, NoLimitIn, Empty
    <3>4. \A q \in Pushes : WillServe(push[q], h) => WillServe(push[q], h)'
      BY <1>1, <1>4, SameRecords, StillServes
    <3> QED BY <1>1, <1>2, <1>3, <2>2, <3>3, <3>4, SameRecords DEF LimitFor
  <2> QED BY <2>1, <2>2
<1> QED BY <1>5, <1>6, <1>7

\* A connection that comes brings the whole, if the license allows limits.
LEMMA ConnectKeeps ==
    ASSUME LimiterInv, Announced, NEW k \in Hosts, NEW p \in Pushes, NEW h \in Hosts,
           Connect(k, p)
    PROVE  LimitFor(h)'
<1>0. LimiterTypeOK /\ push \in [Pushes -> Push] /\ why \in [Hosts -> SUBSET Blames]
  BY DEF LimiterInv, LimiterTypeOK
<1>1. /\ UNCHANGED <<licenseVars, license, recordVars, line, table>> /\ LimitFor(h)
      /\ k \notin linked /\ linked' = linked \cup {k}
  BY DEF Connect, licenseVars, LimiterInv
<1>2. ToBeTold => ToBeTold'
  BY <1>1 DEF ToBeTold, licenseVars
<1>3. CASE HasLimiter(license)
  <2>1. Launch(p, "server", "nobody", {k}) /\ why' = [why EXCEPT ![k] = {}]
    BY <1>3 DEF Connect, Announced
  <2>2. /\ push[p].pc = "idle" /\ push'[p].pc = "start" /\ push'[p].kind = "server"
        /\ push'[p].todo = {k} /\ \A q \in Pushes \ {p} : push'[q] = push[q]
    <3>1. "server" \in PushKinds /\ {k} \in SUBSET Hosts
      BY DEF PushKinds
    <3> QED BY <1>0, <2>1, <3>1, LaunchStarts
  <2>3. CASE h = k
    <3>1. WillServe(push[p], h)'
      BY <1>1, <1>3, <2>2, <2>3, SameRecords DEF WillServe, BuildsTables, HostsOf
    <3> QED BY <3>1 DEF LimitFor
  <2>4. CASE h # k
    <3>1. why'[h] = why[h] /\ (h \in linked' => h \in linked)
      BY <1>0, <1>1, <2>1, <2>4
    <3>2. \A q \in Pushes : WillServe(push[q], h) => push'[q] = push[q]
      BY <2>2 DEF WillServe
    <3> QED BY <1>1, <1>2, <3>1, <3>2, SameRecords, KeptFor
  <2> QED BY <2>3, <2>4
<1>4. CASE ~HasLimiter(license)
  <2>1. UNCHANGED <<push, why>>
    BY <1>4 DEF Connect, Announced
  <2>2. EndsRight(h) => EndsRight(h)'
    BY <1>1, SameRecords, StaysRight
  <2>3. \A q \in Pushes : WillServe(push[q], h) => WillServe(push[q], h)'
    BY <1>1, <2>1, SameRecords, StillServes
  <2> QED BY <1>1, <1>2, <1>4, <2>1, <2>2, <2>3 DEF LimitFor
<1> QED BY <1>3, <1>4

\* At the start every limiter is right.
LEMMA LimiterInitHolds ==
    ASSUME LimiterInit PROVE LimiterInv
<1>1. LimiterTypeOK /\ LimiterShape
  BY LimiterInitTypes
<1>2. ASSUME NEW h \in Hosts PROVE LimitFor(h)
  <2>1. line[h] = <<>> /\ table[h] = IF HasLimiter(license) THEN Built(h) ELSE Empty
    BY DEF LimiterInit
  <2>2. TablesOnLine(h) = {} /\ Right(h, table[h])
    BY <2>1 DEF TablesOnLine, Right, NoLimitIn, Empty
  <2> QED BY <2>2 DEF LimitFor, EndsRight
<1> QED BY <1>1, <1>2 DEF LimiterInv

\* Every step keeps the invariant.
LEMMA LimiterStepKeeps ==
    ASSUME LimiterInv, Announced, [LimiterNext]_limiterVars
    PROVE  LimiterInv'
<1>1. (LimiterTypeOK /\ LimiterShape)'
  BY LimiterStepTypes DEF LimiterInv
<1>2. ASSUME NEW h \in Hosts PROVE LimitFor(h)'
  <2>1. CASE UNCHANGED limiterVars
    <3>1. /\ UNCHANGED <<license, recordVars, linked, line, table, why, push, ask, due>>
          /\ LimitFor(h)
      BY <2>1 DEF limiterVars, licenseVars, recordVars, LimiterInv
    <3>2. ToBeTold => ToBeTold'
      BY <3>1 DEF ToBeTold
    <3> QED BY <3>1, <3>2, SameRecords, KeptFor
  <2>2. ASSUME NEW p \in Pushes,
               \/ \E n \in Names : \/ \E v \in Limits : SetLimit(n, v, p)
                                   \/ Provision(n, p) \/ Toggle(n, p) \/ Withdraw(n, p)
               \/ \E v \in Limits : SetPackageLimit(v, p)
        PROVE  LimitFor(h)'
    BY <2>2, ChangeKeeps
  <2>3. ASSUME NEW p \in Pushes, NEW k \in Hosts, Turn(p, k) \/ SendFlag(p, k) \/ Connect(k, p)
        PROVE  LimitFor(h)'
    BY <2>3, TurnKeeps, SendFlagKeeps, ConnectKeeps
  <2>4. ASSUME NEW p \in Pushes, Begin(p) \/ Send(p) \/ SendFails(p) \/ Post(p)
        PROVE  LimitFor(h)'
    BY <2>4, BeginKeeps, SendKeeps, SendFailsKeeps, PostKeeps
  <2>5. ASSUME NEW p \in Pushes, Tick(p) PROVE LimitFor(h)'
    BY <2>5 DEF Tick, Announced
  <2>6. ASSUME NEW p \in Pushes, NEW c \in Callbacks, RunCallback(c, p) PROVE LimitFor(h)'
    BY <2>6, CallbackKeeps
  <2>7. CASE LicenseMoves \/ PanelRestarts
    BY <2>7, LicenseKeeps, RestartKeeps
  <2>8. ASSUME NEW k \in Hosts, Deliver(k) \/ Drop(k) PROVE LimitFor(h)'
    BY <2>8, DeliverKeeps, DropKeeps
  <2> QED BY <2>1, <2>2, <2>3, <2>4, <2>5, <2>6, <2>7, <2>8 DEF LimiterNext
<1> QED BY <1>1, <1>2 DEF LimiterInv

\* Every variable of the pushes keeps its type, whatever is pushed.
THEOREM LimiterTypeCorrect == LimiterSpec => []LimiterTypeOK
<1>1. LimiterInit => LimiterTypeOK /\ LimiterShape
  BY LimiterInitTypes
<1>2. LimiterTypeOK /\ LimiterShape /\ [LimiterNext]_limiterVars => (LimiterTypeOK /\ LimiterShape)'
  BY LimiterStepTypes
<1> QED BY <1>1, <1>2, PTL DEF LimiterSpec

\* The inductive invariant of the limiters, for any number of users, servers,
\* goroutines and requests: a limiter ends right, or something will reach it, or
\* the reason is known (PushToServer, RevokeAllEmbeddedServers, parseResponse).
THEOREM LimiterInvariant ==
    ASSUME Announced PROVE LimiterSpec => []LimiterInv
<1>1. LimiterInit => LimiterInv
  BY LimiterInitHolds
<1>2. LimiterInv /\ [LimiterNext]_limiterVars => LimiterInv'
  BY LimiterStepKeeps
<1> QED BY <1>1, <1>2, PTL DEF LimiterSpec

\* A connected agent limits whom the database says once everything is quiet, or has
\* a cause noted (PushToAllServersForUser, RevokeAllEmbeddedServers, handleAuth).
THEOREM StaleLimits ==
    ASSUME Announced PROVE LimiterSpec => []StaleLimitIsExplained
<1>1. LimiterInv => StaleLimitIsExplained
  <2> SUFFICES ASSUME LimiterInv, NEW h \in linked, Calm(h)
               PROVE  Right(h, table[h]) \/ why[h] # {}
    BY DEF StaleLimitIsExplained
  <2>1. h \in Hosts /\ LimitFor(h)
    BY DEF LimiterInv, LimiterTypeOK
  <2>2. EndsRight(h) => Right(h, table[h])
    BY DEF Calm, EndsRight, TablesOnLine
  <2>3. ~ToBeTold
    BY DEF Calm, ToBeTold
  <2>4. \A p \in Pushes : ~WillServe(push[p], h)
    BY DEF Calm, WillServe
  <2> QED BY <2>1, <2>2, <2>3, <2>4 DEF LimitFor
<1> QED BY <1>1, LimiterInvariant, PTL
=============================================================================
