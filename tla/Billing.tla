------------------------------ MODULE Billing ------------------------------
(***************************************************************************)
(* What the accounts are billed. A committed report does more than move   *)
(* the counters of EmailLedger: in the same transaction every delta is    *)
(* priced at the multiplier of that moment and attributed to an account,  *)
(* and the counters of one account are added up into its user_traffic     *)
(* row, the one the panels, snapshots and limiters read. A cycle reset    *)
(* must bring both tables to zero together.                               *)
(***************************************************************************)
EXTENDS EmailLedger, FiniteSetsExt

CONSTANTS
    Users,        \* accounts
    OwnerOf,      \* the account an email resolves to
    NoUser,       \* attributed_username = ''
    Weights       \* multipliers in force (node multiplier x package mode)

ASSUME BillingAssumption ==
    /\ OwnerOf \in [Clients -> Users]
    /\ NoUser \notin Users
    /\ Weights \subseteq Nat \ {0}
    /\ IsFiniteSet(Clients) /\ IsFiniteSet(Weights)

VARIABLES
    price,      \* the priced half of a user_email_traffic row
    urow,       \* user_traffic, one row per server and account
    closed,     \* (history) what a row had billed when its cycle last started
    torn        \* (history) the two tables of an account were torn apart

billVars == <<price, urow, closed, torn>>
allVars == <<vars, billVars>>

----------------------------------------------------------------------------

Price == [weighted: Nat, ubase: Nat, wbase: Nat, attr: Users \cup {NoUser}]
NoPrice == [weighted |-> 0, ubase |-> 0, wbase |-> 0, attr |-> NoUser]

UserRow == [known: BOOLEAN, up: Nat, last: Nat]
NoUserRow == [known |-> FALSE, up |-> 0, last |-> 0]

ClientsOf(s, u) == {c \in ClientsOn(s) : OwnerOf[c] = u}

\* What GetUserBillableTraffic adds for one row of user u.
BillableOf(c, u) ==
    IF price[c].attr = u THEN Monus(price[c].weighted, price[c].wbase) ELSE 0

\* The bill of user u in the current cycle.
Billable(u) == SumFunction([c \in Clients |-> BillableOf(c, u)])

\* The priced half of an upsert of value at weight w, attributed to user.
Priced(c, value, restarted, w, user) ==
    IF ~row[c].known
    THEN [NoPrice EXCEPT !.attr = user]
    ELSE [price[c] EXCEPT
            !.weighted = @ + Delta(value, row[c].last, restarted) * w,
            !.attr = user]

\* mutant: the emails of an account overwrite each other
LargestOnly(r, s, u) ==
    Max({0} \cup {r.raw[c] : c \in r.of \cap ClientsOf(s, u)})

\* The counters of user u in report r, added up.
Sum(r, s, u) ==
    SumFunctionOnSet(r.raw, r.of \cap ClientsOf(s, u))

\* upsertUserTrafficOn: the same arithmetic, on the sum.
UserUpserted(old, value, restarted) ==
    IF ~old.known
    THEN [known |-> TRUE, up |-> 0, last |-> value]
    ELSE [old EXCEPT !.up = @ + Delta(value, old.last, restarted),
                     !.last = value]

\* mutant: the reset lifts the baseline of the panel only
PricesNotReset(c, u) ==
    IF price[c].attr = u THEN [price[c] EXCEPT !.ubase = row[c].up]
                         ELSE price[c]

\* The baselines ResetUserTrafficCycle lifts in the rows attributed to u.
CycleReset(c, u) ==
    IF price[c].attr = u
    THEN [price[c] EXCEPT !.ubase = row[c].up, !.wbase = price[c].weighted]
    ELSE price[c]

\* The rows of user u are in use, or about to be by a report under way.
Rostered(s, u) ==
    urow[s][u].known \/ report[s].of \cap ClientsOf(s, u) # {}

----------------------------------------------------------------------------

\* Whether the attributor could be built.
Built == IF "noAttributor" \in Faults THEN BOOLEAN ELSE {TRUE}

\* The batch of a report commits. When the attributor could not be built the
\* whole report is written at weight 1 and to nobody.
CommitBatch(s) ==
    LET r    == report[s]
        flag == Restarted(s, r.boot)
    IN  /\ Commit(s)
        /\ \E built \in Built : \E w \in (IF built THEN Weights ELSE {1}) :
              price' = [c \in Clients |->
                          IF c \in r.of
                          THEN Priced(c, r.raw[c], flag, w,
                                      IF built THEN OwnerOf[c] ELSE NoUser)
                          ELSE price[c]]
        /\ urow' = [urow EXCEPT ![s] = [u \in Users |->
                      IF r.of \cap ClientsOf(s, u) # {}
                      THEN UserUpserted(@[u], Sum(r, s, u), flag)
                      ELSE @[u]]]
        /\ UNCHANGED <<closed, torn>>

\* The traffic cycle of user u starts again, on every server at once: the
\* sums go to zero, the rows of the emails get the present as their baseline.
ResetCycle(u) ==
    /\ price' = [c \in Clients |-> CycleReset(c, u)]
    /\ urow' = [s \in Servers |-> [urow[s] EXCEPT ![u].up = 0]]
    /\ closed' = [c \in Clients |->
                    IF OwnerOf[c] = u THEN price[c].weighted ELSE closed[c]]
    /\ torn' = [s \in Servers |-> [torn[s] EXCEPT ![u] =
                    \/ @
                    \/ \E c \in ClientsOf(s, u) :
                          row[c].known /\ price[c].attr # u]]
    /\ UNCHANGED vars

\* A client comes or goes: the sum its account is measured by jumps.
ChangeClient(c) ==
    LET s == ServerOf[c]
        u == OwnerOf[c]
    IN  /\ AddClient(c) \/ RemoveClient(c)
        /\ torn' = [torn EXCEPT ![s][u] = @ \/ Rostered(s, u)]
        /\ UNCHANGED <<price, urow, closed>>

\* Everything else leaves the bills alone.
LedgerOnly ==
    /\ \/ \E c \in Clients : Traffic(c)
       \/ \E s \in Servers :
             \/ XrayRestart(s) \/ Send(s) \/ Heartbeat(s) \/ ReadBoot(s)
             \/ BatchFails(s) \/ Lose(s)
       \/ MasterRestart
    /\ UNCHANGED billVars

BillInit ==
    /\ Init
    /\ price = [c \in Clients |-> NoPrice]
    /\ urow = [s \in Servers |-> [u \in Users |-> NoUserRow]]
    /\ closed = Zeros
    /\ torn = [s \in Servers |-> [u \in Users |-> FALSE]]

BillNext ==
    \/ \E s \in Servers : CommitBatch(s)
    \/ \E u \in Users : ResetCycle(u)
    \/ \E c \in Clients : ChangeClient(c)
    \/ LedgerOnly

BillSpec == BillInit /\ [][BillNext]_allVars

----------------------------------------------------------------------------
(* Properties.                                                            *)

\* Every variable has its type.
BillTypeOK ==
    /\ price \in [Clients -> Price]
    /\ urow \in [Servers -> [Users -> UserRow]]
    /\ closed \in [Clients -> Nat]
    /\ torn \in [Servers -> [Users -> BOOLEAN]]

\* What each row moved since its cycle started.
Moved == [c \in Clients |-> row[c].up - price[c].ubase]

\* The panel and the bill tell the same story: while the clients of an
\* account stay the same and no hazard was met, its user_traffic row equals
\* what its emails moved since the cycle started, across restarts of xray and
\* cycle resets at any moment (UpsertTrafficBatch, ResetUserTrafficCycle).
PanelAndBillAgree ==
    \A s \in Servers : \A u \in Users :
        ~torn[s][u] /\ (\A c \in ClientsOf(s, u) : doubt[c] = {}) =>
            urow[s][u].up = SumFunctionOnSet(Moved, ClientsOf(s, u))

\* A bill is never more than the bytes witnessed at the dearest multiplier
\* that was ever in force, and never reaches into a cycle that was closed
\* while every row of the account was attributed to it.
BillWithinCycle ==
    \A c \in Clients :
        "staleBoot" \notin doubt[c] /\ ~torn[ServerOf[c]][OwnerOf[c]] =>
            BillableOf(c, OwnerOf[c])
                <= Max(Weights \cup {1}) * truth[c] - closed[c]

----------------------------------------------------------------------------
(* What the comments of the code claim of it.                             *)

\* "rows whose attribution failed are billed to nobody and need no reset"
\* (ResetUserTrafficCycle): what a row is billed for never includes bytes of
\* a cycle that was closed.
ClosedCycleStaysClosed ==
    \A c \in Clients :
        BillableOf(c, OwnerOf[c]) <= price[c].weighted - closed[c]
=============================================================================
