---------------------------- MODULE EmailLedger ----------------------------
(***************************************************************************)
(* The billing ledger of the master: how the cumulative counters an agent *)
(* reports for each xray client become the rows of user_email_traffic,    *)
(* from which every bill is computed.                                     *)
(*                                                                        *)
(* Three chains of events meet here and nothing orders them:              *)
(*   - the agent's counters, zeroed by an xray restart and by deleting    *)
(*     and re-adding a client;                                            *)
(*   - the heartbeats, which alone carry xray_boot_time to the database;  *)
(*   - the traffic reports, which read that column, ask the in-memory     *)
(*     restart detector about it and then write one batch of rows.        *)
(*                                                                        *)
(* One direction (uplink) is modelled: downlink goes through the same     *)
(* statements with the same flag and never mixes with it.                 *)
(***************************************************************************)
EXTENDS Integers, FiniteSets

CONSTANTS
    Servers,      \* remote servers
    Clients,      \* one per (server, email): the key of user_email_traffic
    ServerOf,     \* the server a client lives on
    Faults,       \* bound: the failures an instance lets happen
    MaxRaw,       \* bound: bytes a counter may reach between two zeroings
    MaxEpoch,     \* bound: xray boots per server
    MaxInc        \* bound: zeroings of one counter

\* nullBoot       an agent reports no boot time, or the master fails to read it
\* lostReport     a report never arrives
\* failedBatch    a batch is rolled back
\* masterRestart  the master restarts
\* clientRemoved  clients come and go (without it they only come)
\* noAttributor   the table that attributes emails to users cannot be built
FaultKinds == {"nullBoot", "lostReport", "failedBatch", "masterRestart",
               "clientRemoved", "noAttributor"}

ASSUME LedgerAssumption ==
    /\ ServerOf \in [Clients -> Servers]
    /\ Faults \subseteq FaultKinds
    /\ MaxRaw \in Nat
    /\ MaxEpoch \in Nat
    /\ MaxInc \in Nat

VARIABLES
    \* --- the agent ---
    raw,        \* xray's counter of each client
    present,    \* clients xray currently has
    epoch,      \* xray boot time of each server, as an ordinal
    \* --- the master's database ---
    bootDB,     \* remote_servers.xray_boot_time, 0 for NULL
    row,        \* user_email_traffic
    \* --- the master's memory ---
    detector,   \* XrayRestartDetector.cache, 0 for a server never seen
    report,     \* the traffic report each server has under way
    \* --- what really happened, for the properties only ---
    inc,        \* how often the counter of a client was zeroed
    seen,       \* the last reading of a client the master processed
    truth,      \* bytes those readings witness since the row was created
    doubt       \* the hazards a client's row has met

ghostVars == <<inc, seen, truth, doubt>>
vars == <<raw, present, epoch, bootDB, row, detector, report,
          inc, seen, truth, doubt>>

----------------------------------------------------------------------------

\* The ways a row may stop telling the truth:
\*   staleBoot    a report was judged with a boot time that is not its own
\*   batchFailed  the transaction of a report was rolled back
\*   coldStart    the first report after a restart of the master followed
\*                a restart of xray that nobody remembers
\*   reAdded      the client was deleted and added again
Hazards == {"staleBoot", "batchFailed", "coldStart", "reAdded"}

ClientsOn(s) == {c \in Clients : ServerOf[c] = s}

Row == [known: BOOLEAN, up: Nat, total: Nat, last: Nat]

NoRow == [known |-> FALSE, up |-> 0, total |-> 0, last |-> 0]

Stage == {"idle", "sent", "booted"}

Report == [stage: Stage, raw: [Clients -> Nat], inc: [Clients -> Nat],
           of: SUBSET Clients, epoch: Nat, boot: Nat]

Zeros == [c \in Clients |-> 0]

Idle == [stage |-> "idle", raw |-> Zeros, inc |-> Zeros, of |-> {},
         epoch |-> 0, boot |-> 0]

Monus(a, b) == IF a >= b THEN a - b ELSE 0

----------------------------------------------------------------------------
(* The pure part: what one row becomes, and what the detector answers.    *)

\* mutant: an unknown boot time counts as a new one
NullIsNew(s, boot) == detector[s] # 0 /\ detector[s] # boot

\* CheckAndUpdate, its answer: TRUE only when both boot times are known and
\* differ.
Restarted(s, boot) ==
    /\ boot # 0
    /\ detector[s] # 0
    /\ detector[s] # boot

\* mutant: only the first boot time of a server is remembered
FirstRemembered(s, boot) == IF detector[s] = 0 THEN boot ELSE detector[s]

\* CheckAndUpdate, its effect: the cache moves before the batch is written.
Remembered(s, boot) == IF boot = 0 THEN detector[s] ELSE boot

\* mutant: a restart is not told from a smaller counter
FlagIgnored(value, last, restarted) == Monus(value, last)

\* The branch of upsertUserEmailTrafficOn that turns a counter into a delta.
Delta(value, last, restarted) ==
    IF restarted THEN value ELSE Monus(value, last)

\* mutant: the first reading of a client is counted
FirstCounted(old, value, restarted) ==
    [old EXCEPT !.known = TRUE,
                !.up = @ + Delta(value, old.last, restarted),
                !.last = value]

\* mutant: the baseline never goes down
HighWater(old, value, restarted) ==
    [old EXCEPT !.known = TRUE,
                !.up = IF old.known
                       THEN @ + Delta(value, old.last, restarted) ELSE @,
                !.last = IF value > @ THEN value ELSE @]

\* A row after an upsert of value. A row seen for the first time only takes
\* value as its baseline.
Upserted(old, value, restarted) ==
    IF ~old.known
    THEN [NoRow EXCEPT !.known = TRUE, !.last = value]
    ELSE [old EXCEPT !.up = @ + Delta(value, old.last, restarted),
                     !.total = IF restarted THEN @ + old.last ELSE @,
                     !.last = value]

----------------------------------------------------------------------------
(* The bookkeeping of what really happened.                               *)

\* Bytes a reading of client c adds to what the master has witnessed: all of
\* it when the counter was zeroed since the last reading.
Witnessed(c, r) ==
    IF r.inc[c] = seen[c].inc THEN r.raw[c] - seen[c].raw ELSE r.raw[c]

\* Hazards that report r brings on client c.
NewDoubt(c, r) ==
    {h \in {"staleBoot", "coldStart"} :
        \/ h = "staleBoot" /\ r.boot # r.epoch
        \/ h = "coldStart" /\ detector[ServerOf[c]] = 0
                           /\ row[c].known /\ seen[c].epoch # r.epoch}

Reading(c, r) == [inc |-> r.inc[c], raw |-> r.raw[c], epoch |-> r.epoch]

\* A batch for report r was attempted; it committed iff ok.
Account(r, ok) ==
    /\ doubt' = [c \in Clients |->
                    IF c \in r.of
                    THEN doubt[c] \cup NewDoubt(c, r)
                             \cup (IF ok THEN {} ELSE {"batchFailed"})
                    ELSE doubt[c]]
    /\ truth' = [c \in Clients |->
                    IF c \in r.of /\ row[c].known
                    THEN truth[c] + Witnessed(c, r) ELSE truth[c]]
    /\ seen' = [c \in Clients |->
                    IF c \in r.of /\ (row[c].known \/ ok)
                    THEN Reading(c, r) ELSE seen[c]]
    /\ UNCHANGED inc

\* A boot time, or none.
Known(boot) == IF "nullBoot" \in Faults THEN {boot, 0} ELSE {boot}

----------------------------------------------------------------------------
(* The agent.                                                             *)

\* Bytes flow through a client.
Traffic(c) ==
    /\ c \in present
    /\ raw[c] < MaxRaw
    /\ raw' = [raw EXCEPT ![c] = @ + 1]
    /\ UNCHANGED <<present, epoch, bootDB, row, detector, report>>
    /\ UNCHANGED ghostVars

\* xray restarts: a new boot time, and every counter of the server is zero.
XrayRestart(s) ==
    /\ epoch[s] < MaxEpoch
    /\ \A c \in ClientsOn(s) : inc[c] < MaxInc
    /\ epoch' = [epoch EXCEPT ![s] = @ + 1]
    /\ raw' = [c \in Clients |-> IF ServerOf[c] = s THEN 0 ELSE raw[c]]
    /\ inc' = [c \in Clients |-> IF ServerOf[c] = s THEN inc[c] + 1 ELSE inc[c]]
    /\ UNCHANGED <<present, bootDB, row, detector, report, seen, truth, doubt>>

\* The master adds a client to an inbound: its counter starts from zero.
AddClient(c) ==
    /\ c \notin present
    /\ inc[c] < MaxInc
    /\ present' = present \cup {c}
    /\ raw' = [raw EXCEPT ![c] = 0]
    /\ inc' = [inc EXCEPT ![c] = @ + 1]
    /\ doubt' = [doubt EXCEPT ![c] =
                    IF row[c].known \/ c \in report[ServerOf[c]].of
                    THEN @ \cup {"reAdded"} ELSE @]
    /\ UNCHANGED <<epoch, bootDB, row, detector, report, seen, truth>>

\* The master removes a client: it is no longer in the reports.
RemoveClient(c) ==
    /\ "clientRemoved" \in Faults
    /\ c \in present
    /\ present' = present \ {c}
    /\ UNCHANGED <<raw, epoch, bootDB, row, detector, report>>
    /\ UNCHANGED ghostVars

\* The agent reads its counters and sends them (or answers a pull).
Send(s) ==
    /\ report[s].stage = "idle"
    /\ report' = [report EXCEPT ![s] =
                    [stage |-> "sent", raw |-> raw, inc |-> inc,
                     of |-> present \cap ClientsOn(s),
                     epoch |-> epoch[s], boot |-> 0]]
    /\ UNCHANGED <<raw, present, epoch, bootDB, row, detector>>
    /\ UNCHANGED ghostVars

----------------------------------------------------------------------------
(* The master.                                                            *)

\* A heartbeat writes the boot time it carries, and NULL when the agent does
\* not know it.
Heartbeat(s) ==
    /\ \E boot \in Known(epoch[s]) : bootDB' = [bootDB EXCEPT ![s] = boot]
    /\ UNCHANGED <<raw, present, epoch, row, detector, report>>
    /\ UNCHANGED ghostVars

\* The handler of the report reads the server's row; over the WebSocket a
\* failed read leaves the boot time nil and the report is processed anyway.
ReadBoot(s) ==
    /\ report[s].stage = "sent"
    /\ \E boot \in Known(bootDB[s]) :
          report' = [report EXCEPT ![s].stage = "booted", ![s].boot = boot]
    /\ UNCHANGED <<raw, present, epoch, bootDB, row, detector>>
    /\ UNCHANGED ghostVars

\* ProcessRemoteMetrics with a batch that commits.
Commit(s) ==
    LET r    == report[s]
        flag == Restarted(s, r.boot)
    IN  /\ r.stage = "booted"
        /\ row' = [c \in Clients |->
                     IF c \in r.of THEN Upserted(row[c], r.raw[c], flag)
                                   ELSE row[c]]
        /\ detector' = [detector EXCEPT ![s] = Remembered(s, r.boot)]
        /\ report' = [report EXCEPT ![s] = Idle]
        /\ Account(r, TRUE)
        /\ UNCHANGED <<raw, present, epoch, bootDB>>

\* The same, the batch rolled back: the error is logged and dropped, and the
\* detector has already moved.
BatchFails(s) ==
    LET r == report[s]
    IN  /\ "failedBatch" \in Faults
        /\ r.stage = "booted"
        /\ detector' = [detector EXCEPT ![s] = Remembered(s, r.boot)]
        /\ report' = [report EXCEPT ![s] = Idle]
        /\ Account(r, FALSE)
        /\ UNCHANGED <<raw, present, epoch, bootDB, row>>

\* A report is lost on its way.
Lose(s) ==
    /\ "lostReport" \in Faults
    /\ report[s].stage = "sent"
    /\ report' = [report EXCEPT ![s] = Idle]
    /\ UNCHANGED <<raw, present, epoch, bootDB, row, detector>>
    /\ UNCHANGED ghostVars

\* The master restarts: the detector and every report under way are gone.
MasterRestart ==
    /\ "masterRestart" \in Faults
    /\ detector' = [s \in Servers |-> 0]
    /\ report' = [s \in Servers |-> Idle]
    /\ UNCHANGED <<raw, present, epoch, bootDB, row>>
    /\ UNCHANGED ghostVars

----------------------------------------------------------------------------

Init ==
    /\ raw = Zeros
    /\ present = {}
    /\ epoch = [s \in Servers |-> 1]
    /\ bootDB = [s \in Servers |-> 0]
    /\ row = [c \in Clients |-> NoRow]
    /\ detector = [s \in Servers |-> 0]
    /\ report = [s \in Servers |-> Idle]
    /\ inc = Zeros
    /\ seen = [c \in Clients |-> [inc |-> 0, raw |-> 0, epoch |-> 0]]
    /\ truth = Zeros
    /\ doubt = [c \in Clients |-> {}]

Next ==
    \/ \E c \in Clients : Traffic(c) \/ AddClient(c) \/ RemoveClient(c)
    \/ \E s \in Servers :
          \/ XrayRestart(s) \/ Send(s) \/ Heartbeat(s) \/ ReadBoot(s)
          \/ Commit(s) \/ BatchFails(s) \/ Lose(s)
    \/ MasterRestart

Spec == Init /\ [][Next]_vars

\* The collector and the agents keep reporting: a report is sent, judged and
\* written again and again, whatever is lost or rolled back in between.
FairSpec ==
    /\ Spec
    /\ \A s \in Servers : SF_vars(Send(s)) /\ SF_vars(ReadBoot(s))
                                            /\ SF_vars(Commit(s))

----------------------------------------------------------------------------
(* Properties.                                                            *)

\* Every variable has its type.
TypeOK ==
    /\ raw \in [Clients -> Nat]
    /\ present \in SUBSET Clients
    /\ epoch \in [Servers -> Nat \ {0}]
    /\ bootDB \in [Servers -> Nat]
    /\ row \in [Clients -> Row]
    /\ detector \in [Servers -> Nat]
    /\ report \in [Servers -> Report]
    /\ inc \in [Clients -> Nat]
    /\ seen \in [Clients -> [inc: Nat, raw: Nat, epoch: Nat]]
    /\ truth \in [Clients -> Nat]
    /\ doubt \in [Clients -> SUBSET Hazards]

\* Nobody is billed for bytes that were never seen: as long as every report of
\* a client was judged with its own boot time, its row has counted no more
\* than the counters witnessed, through failed batches, restarts of the master
\* and of xray, and clients deleted and added again
\* (collector.go ProcessRemoteMetrics, upsertUserEmailTrafficOn).
NeverOverbilled ==
    \A c \in Clients :
        row[c].known /\ "staleBoot" \notin doubt[c] => row[c].up <= truth[c]

\* And when none of the four hazards was met, the row is exact and its
\* baseline is the last reading: restarts of xray alone cost nothing that was
\* ever reported.
LedgerExact ==
    \A c \in Clients :
        row[c].known /\ doubt[c] = {} =>
            /\ row[c].up = truth[c]
            /\ row[c].last = seen[c].raw

\* One restart of xray is acted on once: whenever a batch runs with the
\* restart flag up, the detector moves forward to a boot time it had not
\* reached, so the flag cannot be raised again for the same boot.
AnnouncedOnce ==
    [][\A s \in Servers :
          /\ report[s].stage = "booted" /\ report'[s].stage = "idle"
          /\ detector'[s] # 0
          /\ Restarted(s, report[s].boot)
          => detector'[s] > detector[s]]_vars

\* A late, lost or rolled back report heals: once an agent stops moving bytes,
\* each of its clients gets a row whose baseline is the counter, for good.
BaselineCatchesUp ==
    <>[](\A c \in present : row[c].known /\ row[c].last = raw[c])

----------------------------------------------------------------------------
(* What the comments of the code claim of it.                             *)

\* "a missed round loses no data, the counters are cumulative"
\* (UpsertTrafficBatch): a rolled back batch alone never makes a row wrong.
LostBatchLosesNothing ==
    \A c \in Clients :
        row[c].known /\ doubt[c] \subseteq {"batchFailed"}
            /\ row[c].last = seen[c].raw => row[c].up = truth[c]
=============================================================================
