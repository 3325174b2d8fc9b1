------------------------- MODULE EmailLedgerProofs -------------------------
(* The inductive invariant of EmailLedger.                                 *)
EXTENDS EmailLedger, TLAPS

\* Boot times only move forward on their way from the agent to the database,
\* to a report and to the detector; NULL is the only step back.
BootOrder ==
    \A s \in Servers :
        /\ bootDB[s] <= epoch[s]
        /\ bootDB[s] = 0 \/ detector[s] <= bootDB[s]
        /\ detector[s] <= epoch[s]
        /\ report[s].of \subseteq ClientsOn(s)
        /\ report[s].stage = "idle" => report[s].of = {}
        /\ report[s].stage # "idle" =>
              /\ report[s].epoch # 0
              /\ report[s].epoch <= epoch[s]
              /\ detector[s] <= report[s].epoch
        /\ report[s].stage = "booted" =>
              /\ report[s].boot <= epoch[s]
              /\ bootDB[s] = 0 \/ report[s].boot <= bootDB[s]
              /\ report[s].boot = 0 \/ detector[s] <= report[s].boot

\* A reading is of the counter the client has now, or of an earlier one; of
\* two readings of the same counter the later is the larger.
InOrder(c) ==
    LET s == ServerOf[c]
        r == report[s]
    IN  /\ row[c].known =>
              /\ seen[c].inc <= inc[c]
              /\ seen[c].epoch <= epoch[s]
              /\ seen[c].inc = inc[c] =>
                    seen[c].epoch = epoch[s] /\ seen[c].raw <= raw[c]
        /\ c \in r.of =>
              /\ r.inc[c] <= inc[c]
              /\ r.inc[c] = inc[c] =>
                    r.epoch = epoch[s] /\ r.raw[c] <= raw[c]
        /\ c \in r.of /\ row[c].known =>
              /\ seen[c].inc <= r.inc[c]
              /\ seen[c].epoch <= r.epoch
              /\ seen[c].inc = r.inc[c] =>
                    seen[c].epoch = r.epoch /\ seen[c].raw <= r.raw[c]

ReadingOrder == \A c \in Clients : InOrder(c)

\* A row whose reports were all judged with their own boot time: no boot time
\* the master knows is older than the row's last reading, and what the row
\* may still count of that reading is covered by what was witnessed.
CoveredFor(c) ==
    LET s == ServerOf[c]
        r == report[s]
    IN  row[c].known /\ "staleBoot" \notin doubt[c] =>
            /\ row[c].up + Monus(seen[c].raw, row[c].last) <= truth[c]
            /\ detector[s] = 0 \/ seen[c].epoch <= detector[s]
            /\ bootDB[s] = 0 \/ seen[c].epoch <= bootDB[s]
            /\ r.stage = "booted" =>
                  r.boot = 0 \/ seen[c].epoch <= r.boot

Covered == \A c \in Clients : CoveredFor(c)

\* A client that met no hazard changed its counter only with its server's
\* boot time, and the detector knows the boot time of its last reading.
ExactFor(c) ==
    LET s == ServerOf[c]
        r == report[s]
    IN  doubt[c] = {} =>
            /\ c \in r.of /\ c \in present /\ r.epoch = epoch[s] =>
                  r.inc[c] = inc[c]
            /\ ~row[c].known => truth[c] = 0
            /\ row[c].known =>
                  /\ row[c].up = truth[c]
                  /\ row[c].last = seen[c].raw
                  /\ c \in present /\ r.stage # "idle" => c \in r.of
                  /\ c \in present \cup r.of /\ detector[s] # 0 =>
                        detector[s] = seen[c].epoch
                  /\ c \in r.of /\ seen[c].epoch = r.epoch =>
                        seen[c].inc = r.inc[c]
                  /\ c \in present /\ seen[c].epoch = epoch[s] =>
                        seen[c].inc = inc[c]

Exact == \A c \in Clients : ExactFor(c)

\* The inductive invariant.
LedgerInv == TypeOK /\ BootOrder /\ ReadingOrder /\ Covered /\ Exact

----------------------------------------------------------------------------
(* What the proofs of every step start from.                               *)

\* The initial states satisfy the invariant.
LEMMA InitInv == Init => LedgerInv
<1> USE LedgerAssumption
<1> SUFFICES ASSUME Init PROVE LedgerInv
  OBVIOUS
<1>1. TypeOK
  BY DEF Init, TypeOK, Zeros, Idle, NoRow, Row, Report, Stage
<1>2. BootOrder
  BY DEF Init, BootOrder, Idle
<1>3. ReadingOrder
  BY DEF Init, ReadingOrder, InOrder, Idle, NoRow
<1>4. Covered
  BY DEF Init, Covered, CoveredFor, NoRow
<1>5. Exact
  BY DEF Init, Exact, ExactFor, Idle, NoRow, Zeros
<1> QED
  BY <1>1, <1>2, <1>3, <1>4, <1>5 DEF LedgerInv

\* A report under way witnesses a number of bytes.
LEMMA WitnessedNat ==
    ASSUME LedgerInv, NEW c \in Clients, c \in report[ServerOf[c]].of,
           row[c].known
    PROVE  Witnessed(c, report[ServerOf[c]]) \in Nat
<1> USE LedgerAssumption
<1> DEFINE r == report[ServerOf[c]]
<1>1. r.raw[c] \in Nat /\ seen[c].raw \in Nat
  BY DEF LedgerInv, TypeOK, Report
<1>2. seen[c].inc = r.inc[c] => seen[c].raw <= r.raw[c]
  BY DEF LedgerInv, ReadingOrder, InOrder
<1> QED
  BY <1>1, <1>2 DEF Witnessed

\* What an upsert makes of a row is a row.
LEMMA UpsertedRow ==
    ASSUME NEW old \in Row, NEW value \in Nat, NEW restarted \in BOOLEAN
    PROVE  Upserted(old, value, restarted) \in Row
<1>1. CASE ~old.known
  BY <1>1 DEF Row, NoRow, Upserted
<1>2. CASE old.known
  <2>1. Delta(value, old.last, restarted) \in Nat
    BY DEF Row, Delta, Monus
  <2>2. old.total + old.last \in Nat
    BY DEF Row
  <2>3. old.up + Delta(value, old.last, restarted) \in Nat
    BY <2>1 DEF Row
  <2> QED
    BY <1>2, <2>2, <2>3 DEF Row, Upserted
<1> QED
  BY <1>1, <1>2

\* The bookkeeping of a batch keeps its types.
LEMMA AccountType ==
    ASSUME LedgerInv, NEW s \in Servers, NEW ok \in BOOLEAN,
           Account(report[s], ok)
    PROVE  /\ truth' \in [Clients -> Nat]
           /\ seen' \in [Clients -> [inc: Nat, raw: Nat, epoch: Nat]]
           /\ doubt' \in [Clients -> SUBSET Hazards]
           /\ inc' = inc
<1> USE LedgerAssumption
<1> DEFINE r == report[s]
<1>1. TypeOK /\ r \in Report
  BY DEF LedgerInv, TypeOK
<1>2. \A c \in r.of : c \in Clients /\ ServerOf[c] = s
  BY DEF LedgerInv, BootOrder, ClientsOn
<1>3. \A c \in Clients : c \in r.of /\ row[c].known => Witnessed(c, r) \in Nat
  BY <1>2, WitnessedNat
<1>4. truth' \in [Clients -> Nat]
  BY <1>1, <1>3 DEF TypeOK, Account
<1>5. \A c \in Clients : Reading(c, r) \in [inc: Nat, raw: Nat, epoch: Nat]
  BY <1>1 DEF Report, Reading
<1>6. seen' \in [Clients -> [inc: Nat, raw: Nat, epoch: Nat]]
  BY <1>1, <1>5 DEF TypeOK, Account
<1>7. doubt' \in [Clients -> SUBSET Hazards]
  BY <1>1 DEF TypeOK, Account, NewDoubt, Hazards
<1> QED
  BY <1>4, <1>6, <1>7 DEF Account

\* What an upsert does to one row, field by field.
LEMMA UpsertedFields ==
    ASSUME NEW old \in Row, NEW value \in Nat, NEW restarted \in BOOLEAN
    PROVE  LET new == Upserted(old, value, restarted)
           IN  /\ new.known
               /\ new.last = value
               /\ ~old.known => new.up = 0
               /\ old.known =>
                     new.up = old.up + Delta(value, old.last, restarted)
BY DEF Row, NoRow, Upserted

\* What a committed batch of server s does to one client.
LEMMA CommitOnClient ==
    ASSUME LedgerInv, NEW s \in Servers, NEW c \in Clients, Commit(s)
    PROVE  LET r    == report[s]
               flag == Restarted(s, r.boot)
           IN  /\ c \in r.of =>
                     /\ ServerOf[c] = s
                     /\ row'[c].known
                     /\ row'[c].last = r.raw[c]
                     /\ ~row[c].known => row'[c].up = 0
                     /\ row[c].known =>
                           row'[c].up = row[c].up
                                          + Delta(r.raw[c], row[c].last, flag)
                     /\ seen'[c] = Reading(c, r)
                     /\ row[c].known => truth'[c] = truth[c] + Witnessed(c, r)
                     /\ ~row[c].known => truth'[c] = truth[c]
                     /\ doubt'[c] = doubt[c] \cup NewDoubt(c, r)
               /\ c \notin r.of =>
                     /\ row'[c] = row[c]
                     /\ seen'[c] = seen[c]
                     /\ truth'[c] = truth[c]
                     /\ doubt'[c] = doubt[c]
<1> USE LedgerAssumption
<1> DEFINE r    == report[s]
           flag == Restarted(s, r.boot)
<1>1. row[c] \in Row /\ r.raw[c] \in Nat /\ flag \in BOOLEAN
  BY DEF LedgerInv, TypeOK, Report, Restarted
<1>2. row'[c] = IF c \in r.of THEN Upserted(row[c], r.raw[c], flag) ELSE row[c]
  BY DEF Commit
<1>3. Account(r, TRUE)
  BY DEF Commit
<1>4. /\ doubt'[c] = IF c \in r.of
                     THEN doubt[c] \cup NewDoubt(c, r) \cup {} ELSE doubt[c]
      /\ truth'[c] = IF c \in r.of /\ row[c].known
                     THEN truth[c] + Witnessed(c, r) ELSE truth[c]
      /\ seen'[c] = IF c \in r.of THEN Reading(c, r) ELSE seen[c]
  BY <1>3 DEF Account
<1>5. c \in r.of => ServerOf[c] = s
  BY DEF LedgerInv, BootOrder, ClientsOn
<1> QED
  BY <1>1, <1>2, <1>4, <1>5, UpsertedFields

\* What a batch of server s that is rolled back does to one client.
LEMMA FailOnClient ==
    ASSUME LedgerInv, NEW s \in Servers, NEW c \in Clients, BatchFails(s)
    PROVE  LET r == report[s]
           IN  /\ row' = row
               /\ c \in r.of =>
                     /\ ServerOf[c] = s
                     /\ row[c].known =>
                           /\ seen'[c] = Reading(c, r)
                           /\ truth'[c] = truth[c] + Witnessed(c, r)
                     /\ doubt'[c] = doubt[c] \cup NewDoubt(c, r)
                                       \cup {"batchFailed"}
               /\ c \notin r.of =>
                     /\ seen'[c] = seen[c]
                     /\ truth'[c] = truth[c]
                     /\ doubt'[c] = doubt[c]
<1> USE LedgerAssumption
<1> DEFINE r == report[s]
<1>1. Account(r, FALSE) /\ row' = row
  BY DEF BatchFails
<1>2. /\ doubt'[c] = IF c \in r.of
                     THEN doubt[c] \cup NewDoubt(c, r) \cup {"batchFailed"}
                     ELSE doubt[c]
      /\ truth'[c] = IF c \in r.of /\ row[c].known
                     THEN truth[c] + Witnessed(c, r) ELSE truth[c]
      /\ seen'[c] = IF c \in r.of /\ row[c].known
                    THEN Reading(c, r) ELSE seen[c]
  BY <1>1 DEF Account
<1>3. c \in r.of => ServerOf[c] = s
  BY DEF LedgerInv, BootOrder, ClientsOn
<1> QED
  BY <1>1, <1>2, <1>3

\* A batch, committed or not, frees the report and moves the detector.
LEMMA BatchOnServer ==
    ASSUME LedgerInv, NEW s \in Servers, Commit(s) \/ BatchFails(s)
    PROVE  /\ report[s].stage = "booted"
           /\ report'[s].stage = "idle" /\ report'[s].of = {}
           /\ detector'[s] = Remembered(s, report[s].boot)
           /\ \A t \in Servers \ {s} : /\ report'[t] = report[t]
                                       /\ detector'[t] = detector[t]
           /\ UNCHANGED <<raw, present, epoch, bootDB, inc>>
BY DEF LedgerInv, TypeOK, Commit, BatchFails, Account, Idle

----------------------------------------------------------------------------
(* Every step keeps every part of the invariant.                           *)

\* The types stay right.
LEMMA TypeStep == LedgerInv /\ [Next]_vars => TypeOK'
<1> USE LedgerAssumption
<1> SUFFICES ASSUME LedgerInv, [Next]_vars PROVE TypeOK'
  OBVIOUS
<1>0. TypeOK
  BY DEF LedgerInv
<1>1. ASSUME NEW c \in Clients, Traffic(c) PROVE TypeOK'
  BY <1>0, <1>1 DEF Traffic, TypeOK, ghostVars
<1>2. ASSUME NEW c \in Clients, AddClient(c) PROVE TypeOK'
  BY <1>0, <1>2 DEF AddClient, TypeOK, Hazards
<1>3. ASSUME NEW c \in Clients, RemoveClient(c) PROVE TypeOK'
  BY <1>0, <1>3 DEF RemoveClient, TypeOK, ghostVars
<1>4. ASSUME NEW s \in Servers, XrayRestart(s) PROVE TypeOK'
  BY <1>0, <1>4 DEF XrayRestart, TypeOK
<1>5. ASSUME NEW s \in Servers, Send(s) PROVE TypeOK'
  BY <1>0, <1>5 DEF Send, TypeOK, ghostVars, Report, Stage
<1>6. ASSUME NEW s \in Servers, Heartbeat(s) PROVE TypeOK'
  BY <1>0, <1>6 DEF Heartbeat, Known, TypeOK, ghostVars
<1>7. ASSUME NEW s \in Servers, ReadBoot(s) PROVE TypeOK'
  <2>1. PICK boot \in Known(bootDB[s]) :
           report' = [report EXCEPT ![s].stage = "booted", ![s].boot = boot]
    BY <1>7 DEF ReadBoot
  <2>2. boot \in Nat
    BY <1>0 DEF Known, TypeOK
  <2>3. report' \in [Servers -> Report]
    <3>1. /\ report[s] \in Report
          /\ report' = [report EXCEPT
                ![s] = [report[s] EXCEPT !.stage = "booted", !.boot = boot]]
      BY <1>0, <2>1 DEF TypeOK
    <3>2. [report[s] EXCEPT !.stage = "booted", !.boot = boot] \in Report
      BY <2>2, <3>1 DEF Report, Stage
    <3> QED
      BY <1>0, <3>1, <3>2 DEF TypeOK
  <2> QED
    BY <1>0, <1>7, <2>3 DEF ReadBoot, TypeOK, ghostVars
<1>8. ASSUME NEW s \in Servers, Commit(s) PROVE TypeOK'
  <2> DEFINE r == report[s]
             flag == Restarted(s, r.boot)
  <2>1. r \in Report /\ Idle \in Report /\ flag \in BOOLEAN
    BY <1>0 DEF TypeOK, Idle, Zeros, Report, Stage, Restarted
  <2>2. row' \in [Clients -> Row]
    <3>1. \A c \in Clients : Upserted(row[c], r.raw[c], flag) \in Row
      BY <1>0, <2>1, UpsertedRow DEF TypeOK, Report
    <3> QED
      BY <1>0, <1>8, <3>1 DEF Commit, TypeOK
  <2>3. detector' \in [Servers -> Nat] /\ report' \in [Servers -> Report]
    BY <1>0, <1>8, <2>1 DEF Commit, Remembered, TypeOK, Report
  <2>4. Account(r, TRUE)
    BY <1>8 DEF Commit
  <2> QED
    BY <1>0, <1>8, <2>2, <2>3, <2>4, AccountType DEF Commit, TypeOK
<1>9. ASSUME NEW s \in Servers, BatchFails(s) PROVE TypeOK'
  <2> DEFINE r == report[s]
  <2>1. r \in Report /\ Idle \in Report
    BY <1>0 DEF TypeOK, Idle, Zeros, Report, Stage
  <2>2. detector' \in [Servers -> Nat] /\ report' \in [Servers -> Report]
    BY <1>0, <1>9, <2>1 DEF BatchFails, Remembered, TypeOK, Report
  <2>3. Account(r, FALSE)
    BY <1>9 DEF BatchFails
  <2> QED
    BY <1>0, <1>9, <2>2, <2>3, AccountType DEF BatchFails, TypeOK
<1>10. ASSUME NEW s \in Servers, Lose(s) PROVE TypeOK'
  BY <1>0, <1>10 DEF Lose, TypeOK, ghostVars, Idle, Zeros, Report, Stage
<1>11. ASSUME MasterRestart PROVE TypeOK'
  BY <1>0, <1>11 DEF MasterRestart, TypeOK, ghostVars, Idle, Zeros, Report, Stage
<1>12. ASSUME UNCHANGED vars PROVE TypeOK'
  BY <1>0, <1>12 DEF vars, TypeOK
<1> QED
  BY <1>1, <1>2, <1>3, <1>4, <1>5, <1>6, <1>7, <1>8, <1>9, <1>10, <1>11, <1>12
  DEF Next

\* No boot time the master holds runs ahead of the agent's.
LEMMA BootStep == LedgerInv /\ [Next]_vars => BootOrder'
<1> USE LedgerAssumption
<1> SUFFICES ASSUME LedgerInv, [Next]_vars PROVE BootOrder'
  OBVIOUS
<1>0. TypeOK /\ BootOrder
  BY DEF LedgerInv
<1>1. ASSUME NEW c \in Clients, Traffic(c) PROVE BootOrder'
  BY <1>0, <1>1 DEF Traffic, BootOrder
<1>2. ASSUME NEW c \in Clients, AddClient(c) PROVE BootOrder'
  BY <1>0, <1>2 DEF AddClient, BootOrder
<1>3. ASSUME NEW c \in Clients, RemoveClient(c) PROVE BootOrder'
  BY <1>0, <1>3 DEF RemoveClient, BootOrder
<1>4. ASSUME NEW s \in Servers, XrayRestart(s) PROVE BootOrder'
  BY <1>0, <1>4 DEF XrayRestart, BootOrder, TypeOK, Report
<1>5. ASSUME NEW s \in Servers, Send(s) PROVE BootOrder'
  BY <1>0, <1>5 DEF Send, BootOrder, TypeOK
<1>6. ASSUME NEW s \in Servers, Heartbeat(s) PROVE BootOrder'
  BY <1>0, <1>6 DEF Heartbeat, Known, BootOrder, TypeOK, Report
<1>7. ASSUME NEW s \in Servers, ReadBoot(s) PROVE BootOrder'
  BY <1>0, <1>7 DEF ReadBoot, Known, BootOrder, TypeOK, Report
<1>8. ASSUME NEW s \in Servers, Commit(s) PROVE BootOrder'
  BY <1>0, <1>8 DEF Commit, Remembered, BootOrder, TypeOK, Idle, Report
<1>9. ASSUME NEW s \in Servers, BatchFails(s) PROVE BootOrder'
  BY <1>0, <1>9 DEF BatchFails, Remembered, BootOrder, TypeOK, Idle, Report
<1>10. ASSUME NEW s \in Servers, Lose(s) PROVE BootOrder'
  BY <1>0, <1>10 DEF Lose, BootOrder, TypeOK, Idle
<1>11. ASSUME MasterRestart PROVE BootOrder'
  BY <1>0, <1>11 DEF MasterRestart, BootOrder, TypeOK, Idle
<1>12. ASSUME UNCHANGED vars PROVE BootOrder'
  BY <1>0, <1>12 DEF vars, BootOrder
<1> QED
  BY <1>1, <1>2, <1>3, <1>4, <1>5, <1>6, <1>7, <1>8, <1>9, <1>10, <1>11, <1>12
  DEF Next

\* Readings stay in order.

\* Readings stay in order.

\* Readings stay in order.

\* Readings stay in order.

\* Readings stay in order.

\* Readings stay in order.

\* Readings stay in order.
LEMMA ReadingStep == LedgerInv /\ [Next]_vars => ReadingOrder'
<1> USE LedgerAssumption
<1> SUFFICES ASSUME LedgerInv, [Next]_vars, NEW d \in Clients
             PROVE  InOrder(d)'
  BY DEF ReadingOrder
<1>0. TypeOK /\ BootOrder /\ InOrder(d) /\ ServerOf[d] \in Servers
  BY DEF LedgerInv, ReadingOrder
<1>1. ASSUME NEW c \in Clients, Traffic(c) PROVE InOrder(d)'
  BY <1>0, <1>1
  DEF Traffic, ghostVars, InOrder, BootOrder, TypeOK, Report, Row
<1>2. ASSUME NEW c \in Clients, AddClient(c) PROVE InOrder(d)'
  BY <1>0, <1>2
  DEF AddClient, InOrder, BootOrder, TypeOK, Report, Row
<1>3. ASSUME NEW c \in Clients, RemoveClient(c) PROVE InOrder(d)'
  BY <1>0, <1>3
  DEF RemoveClient, ghostVars, InOrder, BootOrder, TypeOK, Report, Row
<1>4. ASSUME NEW s \in Servers, XrayRestart(s) PROVE InOrder(d)'
  BY <1>0, <1>4
  DEF XrayRestart, InOrder, BootOrder, TypeOK, Report, Row
<1>5. ASSUME NEW s \in Servers, Send(s) PROVE InOrder(d)'
  BY <1>0, <1>5
  DEF Send, ghostVars, ClientsOn, InOrder, BootOrder, TypeOK, Report, Row
<1>6. ASSUME NEW s \in Servers, Heartbeat(s) PROVE InOrder(d)'
  BY <1>0, <1>6
  DEF Heartbeat, Known, ghostVars, InOrder, BootOrder, TypeOK, Report, Row
<1>7. ASSUME NEW s \in Servers, ReadBoot(s) PROVE InOrder(d)'
  BY <1>0, <1>7
  DEF ReadBoot, Known, ghostVars, InOrder, BootOrder, TypeOK, Report, Row
<1>8. ASSUME NEW s \in Servers, Commit(s) PROVE InOrder(d)'
  <2>1. CASE d \in report[s].of
    <3>1. /\ ServerOf[d] = s
          /\ row'[d].known => seen'[d] = Reading(d, report[s])
      BY <1>8, <2>1, CommitOnClient
    <3>2. report'[s].of = {} /\ UNCHANGED <<raw, epoch, inc>>
      BY <1>8, BatchOnServer
    <3>3. report[s].epoch <= epoch[s]
      BY <1>0, <1>8, BatchOnServer DEF BootOrder
    <3> QED
      BY <1>0, <2>1, <3>1, <3>2, <3>3 DEF InOrder, Reading
  <2>2. CASE d \notin report[s].of
    BY <1>0, <1>8, <2>2, CommitOnClient, BatchOnServer
    DEF InOrder
  <2> QED
    BY <2>1, <2>2
<1>9. ASSUME NEW s \in Servers, BatchFails(s) PROVE InOrder(d)'
  <2>1. CASE d \in report[s].of
    <3>1. /\ ServerOf[d] = s
          /\ row'[d].known => seen'[d] = Reading(d, report[s])
      BY <1>9, <2>1, FailOnClient
    <3>2. report'[s].of = {} /\ UNCHANGED <<raw, epoch, inc>>
      BY <1>9, BatchOnServer
    <3>3. report[s].epoch <= epoch[s]
      BY <1>0, <1>9, BatchOnServer DEF BootOrder
    <3> QED
      BY <1>0, <2>1, <3>1, <3>2, <3>3 DEF InOrder, Reading
  <2>2. CASE d \notin report[s].of
    BY <1>0, <1>9, <2>2, FailOnClient, BatchOnServer
    DEF InOrder
  <2> QED
    BY <2>1, <2>2
<1>10. ASSUME NEW s \in Servers, Lose(s) PROVE InOrder(d)'
  BY <1>0, <1>10
  DEF Lose, ghostVars, Idle, InOrder, BootOrder, TypeOK, Report, Row
<1>11. ASSUME MasterRestart PROVE InOrder(d)'
  BY <1>0, <1>11
  DEF MasterRestart, ghostVars, Idle, InOrder, BootOrder, TypeOK, Report, Row
<1>12. ASSUME UNCHANGED vars PROVE InOrder(d)'
  BY <1>0, <1>12
  DEF vars, InOrder, BootOrder, TypeOK, Report, Row
<1> QED
  BY <1>1, <1>2, <1>3, <1>4, <1>5, <1>6, <1>7, <1>8, <1>9, <1>10, <1>11, <1>12
  DEF Next

\* What a row may still count stays covered.
LEMMA CoveredStep == LedgerInv /\ [Next]_vars => Covered'
<1> USE LedgerAssumption
<1> SUFFICES ASSUME LedgerInv, [Next]_vars, NEW d \in Clients
             PROVE  CoveredFor(d)'
  BY DEF Covered
<1>0. /\ TypeOK /\ BootOrder /\ InOrder(d) /\ CoveredFor(d)
      /\ ServerOf[d] \in Servers
  BY DEF LedgerInv, ReadingOrder, Covered
<1>1. ASSUME NEW c \in Clients, Traffic(c) PROVE CoveredFor(d)'
  BY <1>0, <1>1
  DEF Traffic, ghostVars, CoveredFor, InOrder, BootOrder, Monus, TypeOK,
      Report, Row
<1>2. ASSUME NEW c \in Clients, AddClient(c) PROVE CoveredFor(d)'
  BY <1>0, <1>2
  DEF AddClient, CoveredFor, InOrder, BootOrder, Monus, TypeOK, Report, Row
<1>3. ASSUME NEW c \in Clients, RemoveClient(c) PROVE CoveredFor(d)'
  BY <1>0, <1>3
  DEF RemoveClient, ghostVars, CoveredFor, InOrder, BootOrder, Monus, TypeOK,
      Report, Row
<1>4. ASSUME NEW s \in Servers, XrayRestart(s) PROVE CoveredFor(d)'
  BY <1>0, <1>4
  DEF XrayRestart, CoveredFor, InOrder, BootOrder, Monus, TypeOK, Report, Row
<1>5. ASSUME NEW s \in Servers, Send(s) PROVE CoveredFor(d)'
  BY <1>0, <1>5
  DEF Send, ghostVars, ClientsOn, CoveredFor, InOrder, BootOrder, Monus,
      TypeOK, Report, Row
<1>6. ASSUME NEW s \in Servers, Heartbeat(s) PROVE CoveredFor(d)'
  BY <1>0, <1>6
  DEF Heartbeat, Known, ghostVars, CoveredFor, InOrder, BootOrder, Monus,
      TypeOK, Report, Row
<1>7. ASSUME NEW s \in Servers, ReadBoot(s) PROVE CoveredFor(d)'
  BY <1>0, <1>7
  DEF ReadBoot, Known, ghostVars, CoveredFor, InOrder, BootOrder, Monus,
      TypeOK, Report, Row
<1>8. ASSUME NEW s \in Servers, Commit(s) PROVE CoveredFor(d)'
  <2> DEFINE r == report[s]
             v == r.raw[d]
  <2>1. CASE d \in r.of /\ "staleBoot" \notin doubt'[d]
    <3>1. /\ ServerOf[d] = s
          /\ "staleBoot" \notin doubt[d]
          /\ r.boot = r.epoch
      BY <1>8, <2>1, CommitOnClient DEF NewDoubt
    <3>2. /\ r.epoch \in Nat \ {0} /\ v \in Nat /\ detector[s] \in Nat
          /\ detector[s] <= r.epoch
          /\ bootDB[s] = 0 \/ r.boot <= bootDB[s]
          /\ detector'[s] = r.epoch
      BY <1>0, <1>8, <3>1, BatchOnServer
      DEF BootOrder, TypeOK, Report, Remembered
    <3>3. CASE row[d].known
      <4> DEFINE last == row[d].last
                 flag == Restarted(s, r.boot)
                 W    == Witnessed(d, r)
      <4>1. /\ row[d] \in Row
            /\ seen[d] \in [inc: Nat, raw: Nat, epoch: Nat]
            /\ truth[d] \in Nat /\ W \in Nat
        BY <1>0, <2>1, <3>1, <3>3, WitnessedNat DEF TypeOK
      <4>2. /\ seen'[d] = Reading(d, r)
            /\ truth'[d] = truth[d] + W
            /\ row'[d].last = v
            /\ row'[d].up = row[d].up + Delta(v, last, flag)
        BY <1>8, <2>1, <3>3, CommitOnClient
      <4>3. row[d].up + Monus(seen[d].raw, last) <= truth[d]
        BY <1>0, <3>1, <3>3 DEF CoveredFor
      <4>4. row[d].up + Delta(v, last, flag) <= truth[d] + W
        <5>1. CASE flag
          <6>1. seen[d].inc # r.inc[d]
            BY <1>0, <2>1, <3>1, <3>2, <3>3, <4>1, <5>1
            DEF CoveredFor, InOrder, Restarted
          <6> QED
            BY <3>2, <4>1, <4>3, <5>1, <6>1 DEF Witnessed, Delta, Monus, Row
        <5>2. CASE ~flag
          <6>1. seen[d].inc = r.inc[d] => seen[d].raw <= v
            BY <1>0, <2>1, <3>1, <3>3 DEF InOrder
          <6> QED
            BY <3>2, <4>1, <4>3, <5>2, <6>1 DEF Witnessed, Delta, Monus, Row
        <5> QED
          BY <5>1, <5>2
      <4>5. Monus(v, v) = 0
        BY <3>2 DEF Monus
      <4>6. row'[d].up + Monus(seen'[d].raw, row'[d].last) <= truth'[d]
        BY <3>2, <4>1, <4>2, <4>4, <4>5 DEF Reading, Row, Delta, Monus
      <4> QED
        BY <1>0, <1>8, <3>1, <3>2, <4>2, <4>6, BatchOnServer
        DEF CoveredFor, Reading
    <3>4. CASE ~row[d].known
      <4>1. /\ seen'[d] = Reading(d, r)
            /\ truth'[d] = truth[d] /\ truth[d] \in Nat
            /\ row'[d].last = v
            /\ row'[d].up = 0
        BY <1>0, <1>8, <2>1, <3>4, CommitOnClient
        DEF TypeOK
      <4>2. row'[d].up + Monus(seen'[d].raw, row'[d].last) <= truth'[d]
        BY <3>2, <4>1 DEF Reading, Monus
      <4> QED
        BY <1>0, <1>8, <3>1, <3>2, <4>1, <4>2, BatchOnServer
        DEF CoveredFor, Reading
    <3> QED
      BY <3>3, <3>4
  <2>2. CASE d \in r.of /\ "staleBoot" \in doubt'[d]
    BY <2>2 DEF CoveredFor
  <2>3. CASE d \notin r.of
    BY <1>0, <1>8, <2>3, CommitOnClient, BatchOnServer
    DEF CoveredFor, BootOrder, TypeOK, Report, Remembered
  <2> QED
    BY <2>1, <2>2, <2>3
<1>9. ASSUME NEW s \in Servers, BatchFails(s) PROVE CoveredFor(d)'
  <2> DEFINE r == report[s]
             v == r.raw[d]
  <2>1. CASE d \in r.of /\ "staleBoot" \notin doubt'[d]
    <3>1. /\ ServerOf[d] = s
          /\ "staleBoot" \notin doubt[d]
          /\ r.boot = r.epoch
      BY <1>9, <2>1, FailOnClient DEF NewDoubt
    <3>2. /\ r.epoch \in Nat \ {0} /\ v \in Nat /\ detector[s] \in Nat
          /\ detector[s] <= r.epoch
          /\ bootDB[s] = 0 \/ r.boot <= bootDB[s]
          /\ detector'[s] = r.epoch
      BY <1>0, <1>9, <3>1, BatchOnServer
      DEF BootOrder, TypeOK, Report, Remembered
    <3>3. CASE row[d].known
      <4> DEFINE last == row[d].last
                 W    == Witnessed(d, r)
      <4>1. /\ row[d] \in Row
            /\ seen[d] \in [inc: Nat, raw: Nat, epoch: Nat]
            /\ truth[d] \in Nat /\ W \in Nat
        BY <1>0, <2>1, <3>1, <3>3, WitnessedNat DEF TypeOK
      <4>2. /\ seen'[d] = Reading(d, r)
            /\ truth'[d] = truth[d] + W
            /\ row' = row
        BY <1>9, <2>1, <3>3, FailOnClient
      <4>3. row[d].up + Monus(seen[d].raw, last) <= truth[d]
        BY <1>0, <3>1, <3>3 DEF CoveredFor
      <4>4. seen[d].inc = r.inc[d] => seen[d].raw <= v
        BY <1>0, <2>1, <3>1, <3>3 DEF InOrder
      <4>5. row[d].up + Monus(v, last) <= truth[d] + W
        <5>1. CASE seen[d].inc = r.inc[d]
          BY <3>2, <4>1, <4>3, <4>4, <5>1 DEF Witnessed, Monus, Row
        <5>2. CASE seen[d].inc # r.inc[d]
          BY <3>2, <4>1, <4>3, <5>2 DEF Witnessed, Monus, Row
        <5> QED
          BY <5>1, <5>2
      <4> QED
        BY <1>0, <1>9, <3>1, <3>2, <4>2, <4>5, BatchOnServer
        DEF CoveredFor, Reading
    <3>4. CASE ~row[d].known
      BY <1>9, <3>4, FailOnClient DEF CoveredFor
    <3> QED
      BY <3>3, <3>4
  <2>2. CASE d \in r.of /\ "staleBoot" \in doubt'[d]
    BY <2>2 DEF CoveredFor
  <2>3. CASE d \notin r.of
    BY <1>0, <1>9, <2>3, FailOnClient, BatchOnServer
    DEF CoveredFor, BootOrder, TypeOK, Report, Remembered
  <2> QED
    BY <2>1, <2>2, <2>3
<1>10. ASSUME NEW s \in Servers, Lose(s) PROVE CoveredFor(d)'
  BY <1>0, <1>10
  DEF Lose, ghostVars, Idle, CoveredFor, InOrder, BootOrder, Monus, TypeOK,
      Report, Row
<1>11. ASSUME MasterRestart PROVE CoveredFor(d)'
  BY <1>0, <1>11
  DEF MasterRestart, ghostVars, Idle, CoveredFor, InOrder, BootOrder, Monus,
      TypeOK, Report, Row
<1>12. ASSUME UNCHANGED vars PROVE CoveredFor(d)'
  BY <1>0, <1>12
  DEF vars, CoveredFor, InOrder, BootOrder, Monus, TypeOK, Report, Row
<1> QED
  BY <1>1, <1>2, <1>3, <1>4, <1>5, <1>6, <1>7, <1>8, <1>9, <1>10, <1>11, <1>12
  DEF Next

\* A row that met no hazard stays exact.
LEMMA ExactStep == LedgerInv /\ [Next]_vars => Exact'
<1> USE LedgerAssumption
<1> SUFFICES ASSUME LedgerInv, [Next]_vars, NEW d \in Clients
             PROVE  ExactFor(d)'
  BY DEF Exact
<1>0. /\ TypeOK /\ BootOrder /\ InOrder(d) /\ ExactFor(d)
      /\ ServerOf[d] \in Servers
  BY DEF LedgerInv, ReadingOrder, Exact
<1>1. ASSUME NEW c \in Clients, Traffic(c) PROVE ExactFor(d)'
  BY <1>0, <1>1
  DEF Traffic, ghostVars, ExactFor, InOrder, BootOrder, TypeOK, Report, Row
<1>2. ASSUME NEW c \in Clients, AddClient(c) PROVE ExactFor(d)'
  <2>1. CASE c = d
    BY <1>0, <1>2, <2>1 DEF AddClient, ExactFor, InOrder, BootOrder, TypeOK
  <2>2. CASE c # d
    BY <1>0, <1>2, <2>2 DEF AddClient, ExactFor, TypeOK
  <2> QED
    BY <2>1, <2>2
<1>3. ASSUME NEW c \in Clients, RemoveClient(c) PROVE ExactFor(d)'
  BY <1>0, <1>3
  DEF RemoveClient, ghostVars, ExactFor, InOrder, BootOrder, TypeOK, Report,
      Row
<1>4. ASSUME NEW s \in Servers, XrayRestart(s) PROVE ExactFor(d)'
  BY <1>0, <1>4
  DEF XrayRestart, ExactFor, InOrder, BootOrder, TypeOK, Report, Row
<1>5. ASSUME NEW s \in Servers, Send(s) PROVE ExactFor(d)'
  BY <1>0, <1>5
  DEF Send, ghostVars, ClientsOn, ExactFor, InOrder, BootOrder, TypeOK,
      Report, Row
<1>6. ASSUME NEW s \in Servers, Heartbeat(s) PROVE ExactFor(d)'
  BY <1>0, <1>6
  DEF Heartbeat, Known, ghostVars, ExactFor, InOrder, BootOrder, TypeOK,
      Report, Row
<1>7. ASSUME NEW s \in Servers, ReadBoot(s) PROVE ExactFor(d)'
  BY <1>0, <1>7
  DEF ReadBoot, Known, ghostVars, ExactFor, InOrder, BootOrder, TypeOK,
      Report, Row
<1>8. ASSUME NEW s \in Servers, Commit(s) PROVE ExactFor(d)'
  <2> DEFINE r == report[s]
             v == r.raw[d]
  <2>1. CASE d \in r.of /\ doubt'[d] = {}
    <3>1. /\ ServerOf[d] = s
          /\ doubt[d] = {}
          /\ r.boot = r.epoch
          /\ ~ (detector[s] = 0 /\ row[d].known /\ seen[d].epoch # r.epoch)
      <4>1. ServerOf[d] = s /\ doubt[d] = {}
        BY <1>8, <2>1, CommitOnClient
      <4>2. doubt'[d] = doubt[d] \cup NewDoubt(d, r)
        BY <1>8, <2>1, CommitOnClient
      <4>3. \A h : h \notin NewDoubt(d, r)
        BY <2>1, <4>2
      <4>4. "staleBoot" \notin NewDoubt(d, r) /\ "coldStart" \notin NewDoubt(d, r)
        BY <4>3
      <4> QED
        BY <4>1, <4>4 DEF NewDoubt
    <3>2. /\ r.epoch \in Nat \ {0} /\ v \in Nat
          /\ detector'[s] = r.epoch
      BY <1>0, <1>8, <3>1, BatchOnServer
      DEF BootOrder, TypeOK, Report, Remembered
    <3>3. seen'[d] = Reading(d, r) /\ row'[d].known /\ row'[d].last = v
      BY <1>8, <2>1, CommitOnClient
    <3>4. row'[d].up = truth'[d]
      <4>1. CASE row[d].known
        <5> DEFINE flag == Restarted(s, r.boot)
        <5>1. /\ row[d].up = truth[d] /\ row[d].last = seen[d].raw
              /\ detector[s] # 0 => detector[s] = seen[d].epoch
              /\ seen[d].epoch = r.epoch => seen[d].inc = r.inc[d]
          BY <1>0, <2>1, <3>1, <4>1 DEF ExactFor
        <5>2. seen[d].inc = r.inc[d] =>
                 seen[d].epoch = r.epoch /\ seen[d].raw <= v
          BY <1>0, <2>1, <3>1, <4>1 DEF InOrder
        <5>3. flag <=> seen[d].inc # r.inc[d]
          BY <3>1, <3>2, <4>1, <5>1, <5>2 DEF Restarted
        <5>4. seen[d].raw \in Nat
          BY <1>0 DEF TypeOK
        <5>5. Delta(v, row[d].last, flag) = Witnessed(d, r)
          BY <3>2, <5>1, <5>2, <5>3, <5>4 DEF Delta, Monus, Witnessed
        <5>6. /\ truth'[d] = truth[d] + Witnessed(d, r)
              /\ row'[d].up = row[d].up + Delta(v, row[d].last, flag)
          BY <1>8, <2>1, <4>1, CommitOnClient
        <5> QED
          BY <5>1, <5>5, <5>6
      <4>2. CASE ~row[d].known
        BY <1>0, <1>8, <2>1, <3>1, <4>2, CommitOnClient
        DEF ExactFor
      <4> QED
        BY <4>1, <4>2
    <3>5. report'[s].of = {} /\ report'[s].stage = "idle"
      BY <1>8, BatchOnServer
    <3>6. d \in present /\ r.epoch = epoch[s] => r.inc[d] = inc[d]
      BY <1>0, <2>1, <3>1 DEF ExactFor
    <3> QED
      BY <1>8, <3>1, <3>2, <3>3, <3>4, <3>5, <3>6, BatchOnServer
      DEF ExactFor, Reading
  <2>2. CASE d \in r.of /\ doubt'[d] # {}
    BY <2>2 DEF ExactFor
  <2>3. CASE d \notin r.of
    BY <1>0, <1>8, <2>3, CommitOnClient, BatchOnServer
    DEF ExactFor
  <2> QED
    BY <2>1, <2>2, <2>3
<1>9. ASSUME NEW s \in Servers, BatchFails(s) PROVE ExactFor(d)'
  <2>1. CASE d \in report[s].of
    BY SMTT(30), <1>9, <2>1, FailOnClient DEF ExactFor
  <2>2. CASE d \notin report[s].of
    BY <1>0, <1>9, <2>2, FailOnClient, BatchOnServer
    DEF ExactFor
  <2> QED
    BY <2>1, <2>2
<1>10. ASSUME NEW s \in Servers, Lose(s) PROVE ExactFor(d)'
  BY <1>0, <1>10
  DEF Lose, ghostVars, Idle, ExactFor, InOrder, BootOrder, TypeOK, Report, Row
<1>11. ASSUME MasterRestart PROVE ExactFor(d)'
  BY <1>0, <1>11
  DEF MasterRestart, ghostVars, Idle, ExactFor, InOrder, BootOrder, TypeOK,
      Report, Row
<1>12. ASSUME UNCHANGED vars PROVE ExactFor(d)'
  BY <1>0, <1>12
  DEF vars, ExactFor, InOrder, BootOrder, TypeOK, Report, Row
<1> QED
  BY <1>1, <1>2, <1>3, <1>4, <1>5, <1>6, <1>7, <1>8, <1>9, <1>10, <1>11, <1>12
  DEF Next

----------------------------------------------------------------------------
(* The theorems.                                                           *)

\* The invariant holds of every behaviour of the ledger.
THEOREM LedgerInvariant == Spec => []LedgerInv
<1>1. Init => LedgerInv
  BY InitInv
<1>2. LedgerInv /\ [Next]_vars => LedgerInv'
  BY TypeStep, BootStep, ReadingStep, CoveredStep, ExactStep DEF LedgerInv
<1> QED
  BY <1>1, <1>2, PTL DEF Spec

\* Every variable of the ledger keeps its type: in particular no counter of a
\* row ever goes below zero.
THEOREM LedgerTypeCorrect == Spec => []TypeOK
<1>1. LedgerInv => TypeOK
  BY DEF LedgerInv
<1> QED
  BY <1>1, LedgerInvariant, PTL

\* Nobody is billed for bytes that were never seen, whatever the number of
\* servers and clients and whichever failures happen.
THEOREM NoOverbilling == Spec => []NeverOverbilled
<1>1. LedgerInv => NeverOverbilled
  <2> SUFFICES ASSUME LedgerInv, NEW c \in Clients,
                      row[c].known, "staleBoot" \notin doubt[c]
               PROVE  row[c].up <= truth[c]
    BY DEF NeverOverbilled
  <2>1. /\ row[c] \in Row /\ truth[c] \in Nat
        /\ seen[c] \in [inc: Nat, raw: Nat, epoch: Nat]
    BY DEF LedgerInv, TypeOK
  <2>2. row[c].up + Monus(seen[c].raw, row[c].last) <= truth[c]
    BY DEF LedgerInv, Covered, CoveredFor
  <2> QED
    BY <2>1, <2>2 DEF Monus, Row
<1> QED
  BY <1>1, LedgerInvariant, PTL

\* A row that met no hazard is exact.
THEOREM ExactLedger == Spec => []LedgerExact
<1>1. LedgerInv => LedgerExact
  BY DEF LedgerInv, Exact, ExactFor, LedgerExact
<1> QED
  BY <1>1, LedgerInvariant, PTL

\* No restart of xray is acted on twice.
THEOREM RestartsAnnouncedOnce == Spec => AnnouncedOnce
<1> DEFINE Announced ==
      \A s \in Servers :
          /\ report[s].stage = "booted" /\ report'[s].stage = "idle"
          /\ detector'[s] # 0
          /\ Restarted(s, report[s].boot)
          => detector'[s] > detector[s]
<1>1. LedgerInv /\ [Next]_vars => [Announced]_vars
  <2> SUFFICES ASSUME LedgerInv, Next, NEW s \in Servers,
                      report[s].stage = "booted", report'[s].stage = "idle",
                      detector'[s] # 0, Restarted(s, report[s].boot)
               PROVE  detector'[s] > detector[s]
    BY DEF vars
  <2>1. /\ report[s].boot = 0 \/ detector[s] <= report[s].boot
        /\ report[s].boot \in Nat /\ detector[s] \in Nat
    BY DEF LedgerInv, BootOrder, TypeOK, Report
  <2>2. Commit(s) \/ BatchFails(s)
    BY ZenonT(40) DEF LedgerInv, TypeOK, Next, Traffic, AddClient, RemoveClient,
           XrayRestart, Send, Heartbeat, ReadBoot, Commit, BatchFails, Lose,
           MasterRestart
  <2>3. detector'[s] = report[s].boot
    BY <2>2, BatchOnServer DEF Remembered, Restarted
  <2> QED
    BY <2>1, <2>3 DEF Restarted
<1> QED
  BY <1>1, LedgerInvariant, PTL DEF Spec, AnnouncedOnce
=============================================================================
