------------------------- MODULE EntitlementProofs -------------------------
(***************************************************************************)
(* Proofs about Entitlement, for any accounts and servers and any number   *)
(* of outages: types, why a client has no row, why an account that is not  *)
(* entitled is served, and why one that is entitled loses anything.        *)
(***************************************************************************)
EXTENDS Entitlement, TLAPS

\* A job that is under way is about an account.
About(job) == job.op # "none" => job.who \in Users

EntTypeInv == TypeOK /\ About(admin) /\ About(enforcer)

-----------------------------------------------------------------------------
(* Types *)

\* A job that begins is a job.
LEMMA BeginTypes ==
  ASSUME NEW op \in Removing \cup Adding, NEW u \in Users, NEW calls \in SUBSET Servers
  PROVE  Begin(op, u, calls) \in Job /\ About(Begin(op, u, calls))
BY DEF Begin, Job, About, Removing, Adding

\* No job is a job.
LEMMA NoJobTypes == NoJob \in Job /\ About(NoJob)
BY DEF NoJob, Job, About

\* The calls of a job keep the types of what they change, and of the job: the
\* removal of a client.
LEMMA RemoveTypes ==
  ASSUME TypeOK, NEW job \in Job, About(job), NEW s \in Servers,
         NEW answered \in Answers(s), RemoveCall(job, s, answered)
  PROVE  /\ clients' \in SUBSET Bindings /\ rows' = rows /\ outages' \in Nat
         /\ cause' \in [Bindings -> SUBSET Causes]
         /\ AfterRemove(job, s, answered) \in Job
         /\ About(AfterRemove(job, s, answered))
<1>1. job.who \in Users /\ job.op # "none"
  BY DEF RemoveCall, About, Removing
<1>2. answered \in BOOLEAN
  BY DEF Answers
<1>3. outages' \in Nat
  BY DEF RemoveCall, Spend, TypeOK
<1>4. clients' \in SUBSET Bindings /\ rows' = rows
  BY DEF RemoveCall, TypeOK
<1>5. cause' \in [Bindings -> SUBSET Causes]
  BY <1>1 DEF RemoveCall, TypeOK, Mark, Clear, Causes, Bindings
<1>6. AfterRemove(job, s, answered) \in Job /\ About(AfterRemove(job, s, answered))
  BY <1>1, <1>2 DEF AfterRemove, Job, About
<1> QED BY <1>3, <1>4, <1>5, <1>6

\* The reservation of a row.
LEMMA ReserveTypes ==
  ASSUME TypeOK, NEW job \in Job, About(job), NEW s \in Servers,
         NEW answered \in Answers(s), ReserveCall(job, s, answered)
  PROVE  /\ rows' \in SUBSET Bindings /\ rows \subseteq rows' /\ outages' \in Nat
         /\ AfterReserve(job, s, answered) \in Job
         /\ About(AfterReserve(job, s, answered))
<1>1. job.who \in Users /\ job.op # "none"
  BY DEF ReserveCall, About, Adding
<1>2. outages' \in Nat
  BY DEF ReserveCall, Spend, TypeOK
<1>3. rows' \in SUBSET Bindings /\ rows \subseteq rows'
  BY <1>1 DEF ReserveCall, TypeOK, Bindings
<1>4. AfterReserve(job, s, answered) \in Job /\ About(AfterReserve(job, s, answered))
  BY <1>1 DEF AfterReserve, Job, About
<1> QED BY <1>2, <1>3, <1>4

\* The addition of a client.
LEMMA AddTypes ==
  ASSUME TypeOK, NEW job \in Job, About(job), NEW s \in Servers,
         NEW answered \in Answers(s), AddCall(job, s, answered)
  PROVE  /\ clients' \in SUBSET Bindings
         /\ rows' \in SUBSET Bindings /\ rows \subseteq rows' /\ outages' \in Nat
         /\ cause' \in [Bindings -> SUBSET Causes]
         /\ AfterAdd(job, s) \in Job /\ About(AfterAdd(job, s))
<1>1. job.who \in Users /\ job.op # "none" /\ <<job.who, s>> \in Bindings
  BY DEF AddCall, About, Adding, Bindings
<1>2. outages' \in Nat
  BY DEF AddCall, Spend, TypeOK
<1>3. clients' \in SUBSET Bindings /\ rows' \in SUBSET Bindings /\ rows \subseteq rows'
  BY <1>1 DEF AddCall, TypeOK
<1>4. WhyAdded(<<job.who, s>>) \in SUBSET Causes
  BY DEF WhyAdded, Causes
<1>5. cause' \in [Bindings -> SUBSET Causes]
  BY <1>1, <1>4 DEF AddCall, TypeOK, Mark
<1>6. AfterAdd(job, s) \in Job /\ About(AfterAdd(job, s))
  BY <1>1 DEF AfterAdd, Job, About
<1> QED BY <1>2, <1>3, <1>5, <1>6

\* What the handlers do to an account leaves an account.
LEMMA AccountTypes ==
  ASSUME NEW a \in Account, NEW o \in BOOLEAN
  PROVE  Bare(a) \in Account /\ [a EXCEPT !.over = o] \in Account
BY DEF Account, Bare

\* What has changed since a list was read is kept as accounts.
LEMMA NoteTypes ==
  ASSUME NEW n \in Since, NEW u \in Users
  PROVE  /\ [n EXCEPT !.renewed = @ \cup {u}] \in Since
         /\ [n EXCEPT !.renewed = @ \ {u}] \in Since
         /\ [n EXCEPT !.created = @ \cup {u}] \in Since
         /\ [n EXCEPT !.created = {}] \in Since
BY DEF Since

\* Each request of the admin keeps the types.
LEMMA AdminTypes == ASSUME EntTypeInv, AdminNext PROVE EntTypeInv'
<1> USE DEF EntTypeInv
<1>1. ASSUME NEW u \in Users, Disable(u) \/ Enable(u) PROVE EntTypeInv'
  <2>1. RowsOf(u) \in SUBSET Servers
    BY DEF RowsOf
  <2>2. admin' \in Job /\ About(admin')
    BY <1>1, <2>1, BeginTypes DEF Disable, Enable, Removing, Adding
  <2>3. user' \in [Users -> Account]
    BY <1>1 DEF Disable, Enable, TypeOK, Account
  <2> QED BY <1>1, <2>2, <2>3 DEF Disable, Enable, TypeOK, About
<1>2. ASSUME NEW u \in Users, Assign(u) PROVE EntTypeInv'
  <2>1. admin' \in Job /\ About(admin')
    BY <1>2, BeginTypes, NoJobTypes DEF Assign, Adding
  <2>2. user' \in [Users -> Account]
    BY <1>2 DEF Assign, TypeOK, Account
  <2>3. since' \in Since
    BY <1>2, NoteTypes DEF Assign, TypeOK
  <2> QED BY <1>2, <2>1, <2>2, <2>3 DEF Assign, TypeOK, About
<1>3. ASSUME NEW u \in Users, Create(u) PROVE EntTypeInv'
  <2>1. user' \in [Users -> Account]
    BY <1>3 DEF Create, TypeOK, Account, Fresh
  <2>2. since' \in Since
    BY <1>3, NoteTypes DEF Create, TypeOK
  <2> QED BY <1>3, <2>1, <2>2 DEF Create, TypeOK, About
<1>4. ASSUME NEW u \in Users, TakeAway(u, "unassign") \/ TakeAway(u, "delete")
      PROVE  EntTypeInv'
  <2>1. RowsOf(u) \in SUBSET Servers
    BY DEF RowsOf
  <2>2. admin' \in Job /\ About(admin')
    BY <1>4, <2>1, BeginTypes DEF TakeAway, Removing
  <2> QED BY <1>4, <2>2 DEF TakeAway, TypeOK, About
<1>5. ASSUME NEW s \in Servers, AdminRemoves(s) PROVE EntTypeInv'
  <2>1. PICK answered \in Answers(s) :
          /\ RemoveCall(admin, s, answered)
          /\ admin' = AfterRemove(admin, s, answered)
          /\ UNCHANGED <<user, quota, snap, online, enforcer, listed, late,
                         since, reconciler, cleaner>>
    BY <1>5 DEF AdminRemoves
  <2>2. /\ clients' \in SUBSET Bindings /\ rows' = rows /\ outages' \in Nat
        /\ cause' \in [Bindings -> SUBSET Causes]
        /\ admin' \in Job /\ About(admin')
    BY <2>1, RemoveTypes DEF TypeOK
  <2> QED BY <2>1, <2>2 DEF TypeOK, About
<1>6. ASSUME NEW s \in Servers, AdminReserves(s) PROVE EntTypeInv'
  <2>1. PICK answered \in Answers(s) :
          /\ ReserveCall(admin, s, answered)
          /\ admin' = AfterReserve(admin, s, answered)
          /\ UNCHANGED <<user, quota, snap, online, enforcer, listed, late,
                         since, reconciler, cleaner>>
    BY <1>6 DEF AdminReserves
  <2>2. rows' \in SUBSET Bindings /\ outages' \in Nat /\ admin' \in Job /\ About(admin')
    BY <2>1, ReserveTypes DEF TypeOK
  <2> QED BY <2>1, <2>2 DEF TypeOK, About, ReserveCall
<1>7. ASSUME NEW s \in Servers, AdminAdds(s) PROVE EntTypeInv'
  <2>1. PICK answered \in Answers(s) :
          /\ AddCall(admin, s, answered)
          /\ admin' = AfterAdd(admin, s)
          /\ UNCHANGED <<user, quota, snap, online, enforcer, listed, late,
                         since, reconciler, cleaner>>
    BY <1>7 DEF AdminAdds
  <2>2. /\ clients' \in SUBSET Bindings /\ rows' \in SUBSET Bindings
        /\ outages' \in Nat /\ cause' \in [Bindings -> SUBSET Causes]
        /\ admin' \in Job /\ About(admin')
    BY <2>1, AddTypes DEF TypeOK
  <2> QED BY <2>1, <2>2 DEF TypeOK, About
<1>8. CASE AdminDrops
  <2>1. admin' \in Job /\ About(admin')
    BY <1>8 DEF AdminDrops, TypeOK, Job, About
  <2> QED BY <1>8, <2>1 DEF AdminDrops, TypeOK, About, Without
<1>9. CASE AdminDone
  <2>1. admin' \in Job /\ About(admin')
    BY <1>9, NoJobTypes DEF AdminDone
  <2>2. user' \in [Users -> Account]
    BY ZenonT(40), <1>9 DEF AdminDone, TypeOK, Account, Bare, Gone, Fresh
  <2>3. rows' \in SUBSET Bindings
    BY <1>9 DEF AdminDone, TypeOK, Without
  <2> QED BY <1>9, <2>1, <2>2, <2>3 DEF AdminDone, TypeOK, About
<1> QED BY <1>1, <1>2, <1>3, <1>4, <1>5, <1>6, <1>7, <1>8, <1>9 DEF AdminNext

\* Each step of the enforcer keeps the types.
LEMMA EnforcerTypes == ASSUME EntTypeInv, EnforcerNext PROVE EntTypeInv'
<1> USE DEF EntTypeInv
<1>1. CASE EnforcerLists
  BY <1>1 DEF EnforcerLists, TypeOK, About
<1>2. ASSUME NEW u \in Users, EnforcerVisits(u) PROVE EntTypeInv'
  <2>1. PICK due \in BOOLEAN :
          /\ quota' = IF due /\ u \notin late /\ quota[u] = "over"
                      THEN [quota EXCEPT ![u] = "under"] ELSE quota
          /\ enforcer' = IF Verdict(u, due) = "none" THEN NoJob
                         ELSE Begin(Verdict(u, due), u, RowsOf(u))
    BY <1>2 DEF EnforcerVisits
  <2>2. quota' \in [Users -> Quota]
    BY <2>1 DEF TypeOK, Quota
  <2>3. Verdict(u, due) = "none" \/ Verdict(u, due) \in Removing \cup Adding
    BY DEF Verdict, Removing, Adding
  <2>4. RowsOf(u) \in SUBSET Servers
    BY DEF RowsOf
  <2>5. enforcer' \in Job /\ About(enforcer')
    BY <2>1, <2>3, <2>4, BeginTypes, NoJobTypes
  <2> QED BY <1>2, <2>2, <2>5 DEF EnforcerVisits, TypeOK, About
<1>5. ASSUME NEW s \in Servers, EnforcerRemoves(s) PROVE EntTypeInv'
  <2>1. PICK answered \in Answers(s) :
          /\ RemoveCall(enforcer, s, answered)
          /\ enforcer' = AfterRemove(enforcer, s, answered)
          /\ UNCHANGED <<user, quota, snap, online, admin, listed, late,
                         since, reconciler, cleaner>>
    BY <1>5 DEF EnforcerRemoves
  <2>2. /\ clients' \in SUBSET Bindings /\ rows' = rows /\ outages' \in Nat
        /\ cause' \in [Bindings -> SUBSET Causes]
        /\ enforcer' \in Job /\ About(enforcer')
    BY <2>1, RemoveTypes DEF TypeOK
  <2> QED BY <2>1, <2>2 DEF TypeOK, About
<1>6. ASSUME NEW s \in Servers, EnforcerReserves(s) PROVE EntTypeInv'
  <2>1. PICK answered \in Answers(s) :
          /\ ReserveCall(enforcer, s, answered)
          /\ enforcer' = AfterReserve(enforcer, s, answered)
          /\ UNCHANGED <<user, quota, snap, online, admin, listed, late,
                         since, reconciler, cleaner>>
    BY <1>6 DEF EnforcerReserves
  <2>2. /\ rows' \in SUBSET Bindings /\ outages' \in Nat
        /\ enforcer' \in Job /\ About(enforcer')
    BY <2>1, ReserveTypes DEF TypeOK
  <2> QED BY <2>1, <2>2 DEF TypeOK, About, ReserveCall
<1>7. ASSUME NEW s \in Servers, EnforcerAdds(s) PROVE EntTypeInv'
  <2>1. PICK answered \in Answers(s) :
          /\ AddCall(enforcer, s, answered)
          /\ enforcer' = AfterAdd(enforcer, s)
          /\ UNCHANGED <<user, quota, snap, online, admin, listed, late,
                         since, reconciler, cleaner>>
    BY <1>7 DEF EnforcerAdds
  <2>2. /\ clients' \in SUBSET Bindings /\ rows' \in SUBSET Bindings
        /\ outages' \in Nat /\ cause' \in [Bindings -> SUBSET Causes]
        /\ enforcer' \in Job /\ About(enforcer')
    BY <2>1, AddTypes DEF TypeOK
  <2> QED BY <2>1, <2>2 DEF TypeOK, About
<1>8. CASE EnforcerDrops
  <2>1. enforcer' \in Job /\ About(enforcer')
    BY <1>8 DEF EnforcerDrops, TypeOK, Job, About
  <2> QED BY <1>8, <2>1 DEF EnforcerDrops, TypeOK, About, Without
<1>9. CASE EnforcerDone
  <2>1. enforcer' \in Job /\ About(enforcer')
    BY <1>9, NoJobTypes DEF EnforcerDone
  <2>2. enforcer.who \in Users
    BY <1>9 DEF EnforcerDone, Closes, Called, About
  <2>3. PICK o \in BOOLEAN : o = (enforcer.op = "cutoff")
    OBVIOUS
  <2>4. /\ Bare(user[enforcer.who]) \in Account
        /\ [user[enforcer.who] EXCEPT !.over = o] \in Account
    BY <2>2, AccountTypes DEF TypeOK
  <2>5. \/ user' = user \/ user' = [user EXCEPT ![enforcer.who] = Bare(@)]
        \/ user' = [user EXCEPT ![enforcer.who].over = o]
    BY <1>9, <2>3 DEF EnforcerDone
  <2>6. user' \in [Users -> Account]
    BY <2>2, <2>3, <2>4, <2>5 DEF TypeOK
  <2>7. since' \in Since
    BY <1>9, <2>2, NoteTypes DEF EnforcerDone, TypeOK
  <2> QED BY <1>9, <2>1, <2>6, <2>7 DEF EnforcerDone, TypeOK, About
<1> QED BY <1>1, <1>2, <1>5, <1>6, <1>7, <1>8, <1>9 DEF EnforcerNext

\* Each step of the daily jobs and of the world keeps the types.
LEMMA OtherTypes == ASSUME EntTypeInv, DailyNext \/ WorldNext PROVE EntTypeInv'
<1> USE DEF EntTypeInv
<1>1. CASE ReconcilerScans
  BY <1>1 DEF ReconcilerScans, Missing, TypeOK, About
<1>2. ASSUME NEW b \in reconciler, ReconcilerSends(b) PROVE EntTypeInv'
  <2>1. PICK answered \in Answers(b[2]) :
          /\ reconciler' = reconciler \ {b} /\ Spend(b[2], answered)
          /\ IF b[2] \in online
             THEN /\ clients' = clients \cup {b}
                  /\ rows' = IF answered THEN rows \cup {b} ELSE rows
                  /\ Mark(b, WhyAdded(b))
             ELSE UNCHANGED <<clients, rows, cause>>
          /\ UNCHANGED <<user, quota, snap, online, admin, enforcer, listed,
                         late, since, cleaner>>
    BY <1>2 DEF ReconcilerSends
  <2>2. b \in Bindings
    BY DEF TypeOK
  <2>3. WhyAdded(b) \in SUBSET Causes
    BY DEF WhyAdded, Causes
  <2>4. cause' \in [Bindings -> SUBSET Causes]
    BY <2>1, <2>2, <2>3 DEF TypeOK, Mark
  <2>5. outages' \in Nat
    BY <2>1 DEF Spend, TypeOK
  <2>6. clients' \in SUBSET Bindings /\ rows' \in SUBSET Bindings
    BY <2>1, <2>2 DEF TypeOK
  <2> QED BY <2>1, <2>4, <2>5, <2>6 DEF TypeOK, About
<1>3. CASE CleanerStarts
  BY <1>3 DEF CleanerStarts, TypeOK, Sweep, About
<1>4. ASSUME NEW s \in Servers, CleanerVisits(s) PROVE EntTypeInv'
  <2>1. cleaner' \in Sweep
    BY <1>4 DEF CleanerVisits, TypeOK, Sweep, NoSweep
  <2>2. cause' \in [Bindings -> SUBSET Causes]
    BY <1>4 DEF CleanerVisits, TypeOK
  <2>3. clients' \in SUBSET Bindings
    BY <1>4 DEF CleanerVisits, TypeOK
  <2>4. since' = since \/ since' = [since EXCEPT !.created = {}]
    BY <1>4 DEF CleanerVisits
  <2>5. since' \in Since
    BY <2>4 DEF TypeOK, Since
  <2> QED BY <1>4, <2>1, <2>2, <2>3, <2>5 DEF CleanerVisits, TypeOK, About
<1>5. ASSUME NEW s \in Servers, Refresh(s) PROVE EntTypeInv'
  BY <1>5 DEF Refresh, TypeOK, About, jobVars
<1>6. ASSUME NEW u \in Users, Expire(u) PROVE EntTypeInv'
  <2>1. user' \in [Users -> Account]
    BY <1>6 DEF Expire, TypeOK, Account
  <2> QED BY <1>6, <2>1 DEF Expire, TypeOK, About, jobVars
<1>7. ASSUME NEW u \in Users, QuotaMoves(u) PROVE EntTypeInv'
  BY <1>7 DEF QuotaMoves, TypeOK, About, jobVars
<1>8. ASSUME NEW s \in Servers, GoOffline(s) \/ GoOnline(s) PROVE EntTypeInv'
  BY <1>8 DEF GoOffline, GoOnline, TypeOK, About, jobVars
<1>9. ASSUME NEW s \in Servers, Drift(s) PROVE EntTypeInv'
  BY <1>9 DEF Drift, TypeOK, About, jobVars
<1> QED BY <1>1, <1>2, <1>3, <1>4, <1>5, <1>6, <1>7, <1>8, <1>9
           DEF DailyNext, WorldNext

\* Each step keeps the types.
LEMMA TypeStep == ASSUME EntTypeInv, [Next]_vars PROVE EntTypeInv'
<1>1. CASE UNCHANGED vars
  BY <1>1 DEF vars, EntTypeInv, TypeOK, About
<1> QED BY <1>1, AdminTypes, EnforcerTypes, OtherTypes DEF Next

\* The types, and that a job under way is about an account, hold in every state.
LEMMA TypesHold == Spec => []EntTypeInv
<1>1. Init => EntTypeInv
  BY NoJobTypes, EntitlementAssumption
     DEF Init, EntTypeInv, TypeOK, Account, Fresh, Quota, Sweep, NoSweep, Unexplained,
         Since, NothingSince
<1>2. EntTypeInv /\ [Next]_vars => EntTypeInv'
  BY TypeStep
<1> QED BY <1>1, <1>2, PTL DEF Spec

\* Every variable keeps its type.
THEOREM EntitlementTypeCorrect == Spec => []TypeOK
<1>1. EntTypeInv => TypeOK
  BY DEF EntTypeInv
<1> QED BY <1>1, TypesHold, PTL

-----------------------------------------------------------------------------
(* Why a client is there *)

\* The reasons why an account may be served without a row.
Excuses(b) == cause[b] \ {"retried"}

\* What a series of removals has done so far: a client it is done with is gone,
\* or there is a reason why it is not. Only when the enforcer removes an expired
\* account, and an agent did not confirm, may the reason be that it will be
\* tried again.
SweptOf(job, there, why) ==
    job.op \in Removing =>
        \A s \in Servers \ job.todo :
            <<job.who, s>> \in there =>
                IF job.op = "expiry" /\ ~job.ok
                THEN why[<<job.who, s>>] # {}
                ELSE why[<<job.who, s>>] \ {"retried"} # {}

Swept(job) == SweptOf(job, clients, cause)

ReasonInv == OrphansExplained /\ ServedForAReason /\ Swept(admin) /\ Swept(enforcer)

\* A client that stays keeps its reasons, and one that comes has its own.
Reasoned == \A b \in clients' : /\ cause[b] \subseteq cause'[b]
                                /\ b \in clients \/ WhyAdded(b) \subseteq cause'[b]

\* The job goes on, about the same user and to the same end.
GoesOn(job, next) == next.op = job.op /\ next.who = job.who

\* A call of a job changes clients with a reason, and the job goes on: the
\* removal of a client, and what excuses one that stays.
LEMMA RemoveReasoned ==
  ASSUME TypeOK, NEW job \in Job, About(job), NEW s \in Servers,
         NEW answered \in Answers(s), RemoveCall(job, s, answered)
  PROVE  /\ Reasoned /\ rows' = rows /\ GoesOn(job, AfterRemove(job, s, answered))
         /\ <<job.who, s>> \in clients' =>
               /\ ~AfterRemove(job, s, answered).ok
               /\ IF job.op = "expiry" THEN "retried" \in cause'[<<job.who, s>>]
                                       ELSE "missed" \in cause'[<<job.who, s>>]
<1>1. <<job.who, s>> \in Bindings
  BY DEF RemoveCall, About, Removing, Bindings
<1>2. rows' = rows /\ job.op \in Removing
  BY DEF RemoveCall
<1>3. GoesOn(job, AfterRemove(job, s, answered))
  BY DEF GoesOn, AfterRemove, Job
<1>4. CASE s \in online
  <2>1. clients' = clients \ {<<job.who, s>>}
    BY <1>4 DEF RemoveCall
  <2>2. cause' = [cause EXCEPT ![<<job.who, s>>] = {}]
    BY <1>4 DEF RemoveCall, Clear
  <2>3. Reasoned
    BY <2>1, <2>2 DEF Reasoned, TypeOK
  <2> QED BY <1>2, <1>3, <2>1, <2>3
<1>5. CASE s \notin online
  <2>1. clients' = clients
    BY <1>5 DEF RemoveCall
  <2>2. cause' = [cause EXCEPT ![<<job.who, s>>] =
                     @ \cup {IF job.op = "expiry" THEN "retried" ELSE "missed"}]
    BY <1>5 DEF RemoveCall, Mark
  <2>3. Reasoned
    BY <2>1, <2>2 DEF Reasoned, TypeOK
  <2>4. answered = FALSE
    BY <1>5 DEF Answers
  <2>5. ~AfterRemove(job, s, answered).ok
    BY <2>4 DEF AfterRemove, Job
  <2> QED BY <1>1, <1>2, <1>3, <2>2, <2>3, <2>5 DEF TypeOK
<1> QED BY <1>4, <1>5

\* The addition of a client.
LEMMA AddReasoned ==
  ASSUME TypeOK, NEW job \in Job, About(job), NEW s \in Servers,
         NEW answered \in Answers(s), AddCall(job, s, answered)
  PROVE  /\ Reasoned /\ rows \subseteq rows' /\ GoesOn(job, AfterAdd(job, s))
         /\ job.op \notin Removing
<1>1. <<job.who, s>> \in Bindings
  BY DEF AddCall, About, Adding, Bindings
<1>2. rows \subseteq rows' /\ job.op \notin Removing
  BY DEF AddCall, Adding, Removing
<1>3. GoesOn(job, AfterAdd(job, s))
  BY DEF GoesOn, AfterAdd, Job
<1>4. Reasoned
  <2>1. CASE s \in online
    <3>1. clients' = clients \cup {<<job.who, s>>}
      BY <2>1 DEF AddCall
    <3>2. cause' = [cause EXCEPT ![<<job.who, s>>] = @ \cup WhyAdded(<<job.who, s>>)]
      BY <2>1 DEF AddCall, Mark
    <3> QED BY <1>1, <3>1, <3>2 DEF Reasoned, TypeOK
  <2>2. CASE s \notin online
    BY <2>2 DEF AddCall, Reasoned
  <2> QED BY <2>1, <2>2
<1> QED BY <1>2, <1>3, <1>4

\* The reservation of a row.
LEMMA ReserveReasoned ==
  ASSUME TypeOK, NEW job \in Job, About(job), NEW s \in Servers,
         NEW answered \in Answers(s), ReserveCall(job, s, answered)
  PROVE  /\ Reasoned /\ rows \subseteq rows'
         /\ GoesOn(job, AfterReserve(job, s, answered)) /\ job.op \notin Removing
BY DEF ReserveCall, Reasoned, Adding, Removing, AfterReserve, GoesOn, Job

\* A step after which every client has its reasons, that drops no row, keeps
\* every removal under way and takes no right from anybody.
LEMMA ReasonsStay ==
  ASSUME EntTypeInv, ReasonInv, Reasoned, rows \subseteq rows',
         \A u \in Users : BeingRemoved(u) => BeingRemoved(u)' \/ Entitled(u)',
         \A u \in Users : Entitled(u) => Entitled(u)' \/ BeingRemoved(u)',
         clients' \subseteq Bindings
  PROVE  OrphansExplained' /\ ServedForAReason'
<1>1. OrphansExplained'
  <2> SUFFICES ASSUME NEW b \in clients', b \notin rows' PROVE (cause[b] \ {"retried"})' # {}
    BY DEF OrphansExplained
  <2>1. CASE b \in clients
    <3>1. b \in clients \ rows
      BY <2>1
    <3>2. cause[b] \ {"retried"} # {}
      BY <3>1 DEF ReasonInv, OrphansExplained
    <3> QED BY <3>2 DEF Reasoned
  <2>2. CASE b \notin clients
    <3>1. "raced" \in WhyAdded(b)
      BY DEF WhyAdded
    <3> QED BY <2>2, <3>1 DEF Reasoned
  <2> QED BY <2>1, <2>2
<1>2. ServedForAReason'
  <2> SUFFICES ASSUME NEW b \in clients'
               PROVE  Entitled(b[1])' \/ BeingRemoved(b[1])' \/ cause'[b] # {}
    BY DEF ServedForAReason
  <2>1. b[1] \in Users
    BY DEF Bindings
  <2>2. CASE b \in clients
    <3>1. Entitled(b[1]) \/ BeingRemoved(b[1]) \/ cause[b] # {}
      BY <2>2 DEF ReasonInv, ServedForAReason
    <3> QED BY <2>1, <3>1 DEF Reasoned
  <2>3. CASE b \notin clients
    <3>1. Entitled(b[1]) \/ "uninvited" \in WhyAdded(b)
      BY DEF WhyAdded
    <3> QED BY <2>1, <2>3, <3>1 DEF Reasoned
  <2> QED BY <2>2, <2>3
<1> QED BY <1>1, <1>2

\* A series of removals that goes on stays swept, if what it has just done is.
LEMMA StaysSwept ==
  ASSUME EntTypeInv, Reasoned, NEW job \in Job, NEW next \in Job, Swept(job), About(job),
         job.op \in Removing => BeingRemoved(job.who),
         GoesOn(job, next), next.ok => job.ok,
         \A s \in job.todo \ next.todo :
            job.op \in Removing /\ <<job.who, s>> \in clients' =>
               IF job.op = "expiry" /\ ~next.ok
               THEN cause'[<<job.who, s>>] # {}
               ELSE cause'[<<job.who, s>>] \ {"retried"} # {}
  PROVE  SweptOf(next, clients', cause')
<1> DEFINE Done(c) == IF job.op = "expiry" /\ ~next.ok
                      THEN c # {} ELSE c \ {"retried"} # {}
<1>1. SUFFICES ASSUME job.op \in Removing, NEW s \in Servers, s \notin next.todo,
                      <<job.who, s>> \in clients'
               PROVE  Done(cause'[<<job.who, s>>])
  BY DEF Swept, SweptOf, Excuses, GoesOn
<1>2. CASE s \in job.todo
  BY <1>1, <1>2
<1>3. CASE s \notin job.todo /\ <<job.who, s>> \in clients
  <2>1. IF job.op = "expiry" /\ ~job.ok
        THEN cause[<<job.who, s>>] # {}
        ELSE cause[<<job.who, s>>] \ {"retried"} # {}
    BY <1>1, <1>3 DEF Swept, SweptOf, Excuses
  <2>2. Done(cause[<<job.who, s>>])
    BY <2>1
  <2>3. cause[<<job.who, s>>] \subseteq cause'[<<job.who, s>>]
    BY <1>1 DEF Reasoned
  <2> QED BY <2>2, <2>3
<1>4. CASE <<job.who, s>> \notin clients
  <2>1. "raced" \in WhyAdded(<<job.who, s>>)
    BY <1>1 DEF WhyAdded
  <2>2. "raced" \in cause'[<<job.who, s>>]
    BY <1>1, <1>4, <2>1 DEF Reasoned
  <2> QED BY <2>2
<1> QED BY <1>2, <1>3, <1>4

\* A series that is over has a reason for every client of its user.
LEMMA SweptOut ==
  ASSUME EntTypeInv, NEW job \in Job, Swept(job), job.op \in Removing, job.todo = {},
         NEW b \in clients, b[1] = job.who
  PROVE  /\ cause[b] # {}
         /\ job.op # "expiry" \/ job.ok => Excuses(b) # {}
<1>1. b = <<job.who, b[2]>> /\ b[2] \in Servers
  BY DEF EntTypeInv, TypeOK, Bindings
<1>2. IF job.op = "expiry" /\ ~job.ok THEN cause[b] # {} ELSE Excuses(b) # {}
  BY <1>1 DEF Swept, SweptOf, Excuses
<1> QED BY <1>2 DEF Excuses

\* A series of removals that begins is swept: what has no row has a reason.
LEMMA BeginsSwept ==
  ASSUME OrphansExplained, NEW op, NEW u, NEW calls, calls = RowsOf(u),
         UNCHANGED <<clients, cause>>
  PROVE  SweptOf(Begin(op, u, calls), clients', cause')
<1> SUFFICES ASSUME NEW s \in Servers, <<u, s>> \notin rows, <<u, s>> \in clients
             PROVE  Excuses(<<u, s>>) # {}
  BY DEF Swept, SweptOf, Begin, RowsOf, Excuses
<1> QED BY DEF OrphansExplained, Excuses

\* A client of an account that was not entitled and is being removed, or whose
\* removal is over, has its reasons.
LEMMA NobodyForgotten ==
  ASSUME EntTypeInv, ReasonInv, NEW job \in {admin, enforcer},
         job.op \in Removing, Called(job), NEW b \in clients, b[1] = job.who
  PROVE  /\ cause[b] # {}
         /\ job.op # "expiry" \/ job.ok => Excuses(b) # {}
<1>1. Swept(job) /\ job \in Job /\ job.todo = {}
  BY DEF ReasonInv, EntTypeInv, TypeOK, Called
<1> QED BY <1>1, SweptOut

\* A step of the world or of a daily job keeps the reasons.
LEMMA WorldReasons == ASSUME EntTypeInv, ReasonInv, DailyNext \/ WorldNext
                      PROVE  ReasonInv'
<1>1. EntTypeInv'
  BY OtherTypes
<1>2. clients' \subseteq Bindings
  BY <1>1 DEF EntTypeInv, TypeOK
<1>3. UNCHANGED <<admin, enforcer>>
  BY DEF DailyNext, WorldNext, ReconcilerScans, ReconcilerSends, CleanerStarts,
         CleanerVisits, Refresh, Expire, QuotaMoves, GoOffline, GoOnline, Drift, jobVars
<1>4. rows \subseteq rows'
  BY DEF DailyNext, WorldNext, ReconcilerScans, ReconcilerSends, CleanerStarts,
         CleanerVisits, Refresh, Expire, QuotaMoves, GoOffline, GoOnline, Drift
<1>5. Reasoned
  <2>1. ASSUME NEW b \in reconciler, ReconcilerSends(b) PROVE Reasoned
    <3>1. b \in Bindings
      BY DEF EntTypeInv, TypeOK
    <3>2. CASE b[2] \in online
      BY <2>1, <3>1, <3>2 DEF ReconcilerSends, Mark, Reasoned, EntTypeInv, TypeOK
    <3>3. CASE b[2] \notin online
      BY <2>1, <3>3 DEF ReconcilerSends, Reasoned
    <3> QED BY <3>2, <3>3
  <2>2. ASSUME NEW s \in Servers, CleanerVisits(s) PROVE Reasoned
    BY <2>2, <1>2 DEF CleanerVisits, Reasoned
  <2>3. ASSUME NEW s \in Servers, Drift(s) PROVE Reasoned
    BY <2>3, <1>2 DEF Drift, Reasoned
  <2>4. CASE UNCHANGED <<clients, cause>>
    BY <2>4 DEF Reasoned
  <2> QED
    BY <2>1, <2>2, <2>3, <2>4
       DEF DailyNext, WorldNext, ReconcilerScans, CleanerStarts, Refresh, Expire,
           QuotaMoves, GoOffline, GoOnline
<1>6. \A u \in Users : Entitled(u) => Entitled(u)'
  <2>1. user' = user \/ \E u \in Users : Expire(u)
    BY DEF DailyNext, WorldNext, ReconcilerScans, ReconcilerSends, CleanerStarts,
           CleanerVisits, Refresh, QuotaMoves, GoOffline, GoOnline, Drift
  <2>2. ASSUME NEW u \in Users, Expire(u) PROVE \A v \in Users : Entitled(v) => Entitled(v)'
    BY <2>2 DEF Expire, Entitled, EntTypeInv, TypeOK, Account
  <2> QED BY <2>1, <2>2 DEF Entitled
<1>7. \A u \in Users : BeingRemoved(u) => BeingRemoved(u)'
  BY <1>3 DEF BeingRemoved
<1>8. OrphansExplained' /\ ServedForAReason'
  BY <1>2, <1>4, <1>5, <1>6, <1>7, ReasonsStay
<1>9. Swept(admin)' /\ Swept(enforcer)'
  <2>1. Swept(admin) /\ Swept(enforcer) /\ admin \in Job /\ enforcer \in Job
        /\ About(admin) /\ About(enforcer)
    BY DEF ReasonInv, EntTypeInv, TypeOK
  <2>2. /\ admin.op \in Removing => BeingRemoved(admin.who)
        /\ enforcer.op \in Removing => BeingRemoved(enforcer.who)
    BY DEF BeingRemoved
  <2>3. GoesOn(admin, admin) /\ GoesOn(enforcer, enforcer)
    BY DEF GoesOn
  <2>4. SweptOf(admin, clients', cause')
    BY <1>5, <2>1, <2>2, <2>3, StaysSwept
  <2>5. SweptOf(enforcer, clients', cause')
    BY <1>5, <2>1, <2>2, <2>3, StaysSwept
  <2> QED BY <1>3, <2>4, <2>5 DEF Swept
<1> QED BY <1>8, <1>9 DEF ReasonInv

\* A call keeps the reasons, if it is swept what the jobs have done.
LEMMA CallReasons ==
  ASSUME EntTypeInv, ReasonInv, user' = user, Reasoned, rows \subseteq rows',
         clients' \subseteq Bindings, GoesOn(admin, admin'), GoesOn(enforcer, enforcer'),
         SweptOf(admin', clients', cause'), SweptOf(enforcer', clients', cause')
  PROVE  ReasonInv'
<1>1. \A u \in Users : Entitled(u) => Entitled(u)'
  BY DEF Entitled
<1>2. \A u \in Users : BeingRemoved(u) => BeingRemoved(u)'
  BY DEF BeingRemoved, GoesOn
<1>3. OrphansExplained' /\ ServedForAReason'
  BY <1>1, <1>2, ReasonsStay
<1> QED BY <1>3 DEF ReasonInv, Swept

\* What a job has done stays swept while the other makes a call.
LEMMA OtherSwept ==
  ASSUME EntTypeInv, ReasonInv, Reasoned, NEW job \in {admin, enforcer}
  PROVE  SweptOf(job, clients', cause') /\ GoesOn(job, job)
<1>1. Swept(job) /\ job \in Job /\ About(job)
  BY DEF ReasonInv, EntTypeInv, TypeOK
<1>2. job.op \in Removing => BeingRemoved(job.who)
  BY DEF BeingRemoved
<1>3. GoesOn(job, job)
  BY DEF GoesOn
<1> QED BY <1>1, <1>2, <1>3, StaysSwept

\* A removal is swept after each of its calls.
LEMMA RemoveSweeps ==
  ASSUME EntTypeInv, ReasonInv, NEW job \in {admin, enforcer}, NEW s \in Servers,
         NEW answered \in Answers(s), RemoveCall(job, s, answered)
  PROVE  SweptOf(AfterRemove(job, s, answered), clients', cause')
<1> DEFINE next == AfterRemove(job, s, answered)
<1>1. Swept(job) /\ job \in Job /\ About(job) /\ TypeOK
  BY DEF ReasonInv, EntTypeInv, TypeOK
<1>2. job.op \in Removing => BeingRemoved(job.who)
  BY DEF BeingRemoved
<1>3. next \in Job
  BY <1>1, RemoveTypes
<1>4. /\ Reasoned /\ GoesOn(job, next)
      /\ <<job.who, s>> \in clients' =>
            /\ ~next.ok
            /\ IF job.op = "expiry" THEN "retried" \in cause'[<<job.who, s>>]
                                    ELSE "missed" \in cause'[<<job.who, s>>]
  BY <1>1, RemoveReasoned
<1>5. next.ok => job.ok
  BY <1>1 DEF AfterRemove, Job
<1>6. job.todo \ next.todo \subseteq {s}
  BY <1>1 DEF AfterRemove, Job
<1>7. \A t \in job.todo \ next.todo :
         job.op \in Removing /\ <<job.who, t>> \in clients' =>
            IF job.op = "expiry" /\ ~next.ok
            THEN cause'[<<job.who, t>>] # {}
            ELSE cause'[<<job.who, t>>] \ {"retried"} # {}
  BY <1>4, <1>6
<1> HIDE DEF next
<1>8. SweptOf(next, clients', cause')
  BY <1>1, <1>2, <1>3, <1>4, <1>5, <1>7, StaysSwept
<1> QED BY <1>8 DEF next

\* A job that adds clients has nothing to sweep.
LEMMA AddsSwept ==
  ASSUME NEW job, NEW next, GoesOn(job, next), job.op \notin Removing
  PROVE  SweptOf(next, clients', cause')
BY DEF GoesOn, SweptOf

\* The rows of an account whose removal is over are dropped: what remains of
\* its clients has a reason.
LEMMA DropReasons ==
  ASSUME EntTypeInv, ReasonInv, NEW job \in {admin, enforcer},
         job.op \in Removing, Called(job), job.op # "expiry" \/ job.ok,
         UNCHANGED <<clients, cause>>, rows' = Without(job.who)
  PROVE  OrphansExplained'
<1> SUFFICES ASSUME NEW b \in clients, b \notin rows' PROVE cause[b] \ {"retried"} # {}
  BY DEF OrphansExplained
<1>1. CASE b[1] = job.who
  BY <1>1, NobodyForgotten DEF Excuses
<1>2. CASE b[1] # job.who
  <2>1. b \notin rows
    BY <1>2 DEF Without
  <2> QED BY <2>1 DEF ReasonInv, OrphansExplained
<1> QED BY <1>1, <1>2

\* A job that is over keeps everybody served for a reason.
LEMMA DoneReasons ==
  ASSUME EntTypeInv, ReasonInv, NEW job \in {admin, enforcer}, Called(job),
         UNCHANGED <<clients, cause>>,
         \A u \in Users : BeingRemoved(u) => BeingRemoved(u)' \/ u = job.who,
         \A u \in Users : Entitled(u) => \/ Entitled(u)'
                                         \/ u = job.who /\ job.op \in Removing,
         job.op \notin Removing =>
            \A u \in Users : BeingRemoved(u) => BeingRemoved(u)'
  PROVE  ServedForAReason'
<1> SUFFICES ASSUME NEW b \in clients, cause[b] = {}
             PROVE  Entitled(b[1])' \/ BeingRemoved(b[1])'
  BY DEF ServedForAReason
<1>1. b[1] \in Users
  BY DEF EntTypeInv, TypeOK, Bindings
<1>2. Entitled(b[1]) \/ BeingRemoved(b[1])
  BY DEF ReasonInv, ServedForAReason
<1>3. b[1] # job.who \/ job.op \notin Removing
  BY NobodyForgotten
<1> QED BY <1>1, <1>2, <1>3

\* A request of the admin keeps the reasons.
LEMMA AdminReasons == ASSUME EntTypeInv, ReasonInv, AdminNext PROVE ReasonInv'
<1>1. EntTypeInv'
  BY AdminTypes
<1>2. clients' \subseteq Bindings
  BY <1>1 DEF EntTypeInv, TypeOK
<1>3. admin \in {admin, enforcer} /\ enforcer \in {admin, enforcer}
  OBVIOUS
<1>4. TypeOK /\ admin \in Job /\ About(admin)
  BY DEF EntTypeInv, TypeOK
<1>5. ASSUME NEW u \in Users, NEW op \in Removing, admin' = Begin(op, u, RowsOf(u)),
             admin = NoJob, UNCHANGED <<rows, clients, cause, enforcer>>,
             \A v \in Users : Entitled(v) => Entitled(v)' \/ v = u
      PROVE  ReasonInv'
  <2>1. Reasoned
    BY <1>5 DEF Reasoned
  <2>2. admin'.op = op /\ admin'.who = u
    BY <1>5 DEF Begin
  <2>3. BeingRemoved(u)'
    BY <2>2 DEF BeingRemoved
  <2>4. \A v \in Users : BeingRemoved(v) => BeingRemoved(v)'
    BY <1>5 DEF BeingRemoved, NoJob, Removing
  <2>5. OrphansExplained' /\ ServedForAReason'
    BY <1>2, <1>5, <2>1, <2>3, <2>4, ReasonsStay
  <2>6. SweptOf(admin', clients', cause')
    <3>1. PICK calls : calls = RowsOf(u)
      OBVIOUS
    <3>2. SweptOf(Begin(op, u, calls), clients', cause')
      BY <1>5, <3>1, BeginsSwept DEF ReasonInv
    <3> QED BY <1>5, <3>1, <3>2
  <2>7. SweptOf(enforcer, clients', cause')
    BY <2>1, OtherSwept
  <2> QED BY <1>5, <2>5, <2>6, <2>7 DEF ReasonInv, Swept
<1>6. ASSUME admin.op \notin Removing, admin'.op \notin Removing,
             UNCHANGED <<rows, clients, cause, enforcer>>,
             \A v \in Users : Entitled(v) => Entitled(v)'
      PROVE  ReasonInv'
  <2>1. Reasoned
    BY <1>6 DEF Reasoned
  <2>2. \A v \in Users : BeingRemoved(v) => BeingRemoved(v)'
    BY <1>6 DEF BeingRemoved
  <2>3. OrphansExplained' /\ ServedForAReason'
    BY <1>2, <1>6, <2>1, <2>2, ReasonsStay
  <2>4. SweptOf(enforcer, clients', cause')
    BY <2>1, OtherSwept
  <2>5. SweptOf(admin', clients', cause')
    BY <1>6 DEF SweptOf
  <2> QED BY <1>6, <2>3, <2>4, <2>5 DEF ReasonInv, Swept
<1>7. ASSUME NEW u \in Users, Disable(u) PROVE ReasonInv'
  <2>1. \A v \in Users : Entitled(v) => Entitled(v)' \/ v = u
    BY <1>7, <1>4 DEF Disable, Entitled, TypeOK
  <2> QED BY <1>5, <1>7, <2>1 DEF Disable, Request, Removing
<1>8. ASSUME NEW u \in Users, Enable(u) PROVE ReasonInv'
  <2>1. \A v \in Users : Entitled(v) => Entitled(v)'
    BY <1>8, <1>4 DEF Enable, Entitled, TypeOK, Account
  <2> QED BY <1>6, <1>8, <2>1 DEF Enable, Request, Removing, NoJob, Begin
<1>9. ASSUME NEW u \in Users, Assign(u) PROVE ReasonInv'
  <2>1. \A v \in Users : Entitled(v) => Entitled(v)'
    BY <1>9, <1>4 DEF Assign, Entitled, TypeOK, Account
  <2> QED BY <1>6, <1>9, <2>1 DEF Assign, Request, Removing, NoJob, Begin
<1>10. ASSUME NEW u \in Users, Create(u) PROVE ReasonInv'
  <2>1. \A v \in Users : Entitled(v) => Entitled(v)'
    BY <1>10, <1>4 DEF Create, Entitled, TypeOK, Account
  <2> QED BY <1>6, <1>10, <2>1 DEF Create, Removing, NoJob
<1>11. ASSUME NEW u \in Users, NEW op \in {"unassign", "delete"}, TakeAway(u, op)
       PROVE  ReasonInv'
  <2>1. \A v \in Users : Entitled(v) => Entitled(v)'
    BY <1>11 DEF TakeAway, Entitled
  <2> QED BY <1>5, <1>11, <2>1 DEF TakeAway, Request, Removing
<1>12. ASSUME NEW s \in Servers, AdminRemoves(s) PROVE ReasonInv'
  <2>1. PICK answered \in Answers(s) :
          /\ RemoveCall(admin, s, answered)
          /\ admin' = AfterRemove(admin, s, answered)
          /\ UNCHANGED <<user, quota, snap, online, enforcer, listed, late,
                         since, reconciler, cleaner>>
    BY <1>12 DEF AdminRemoves
  <2>2. Reasoned /\ rows' = rows /\ GoesOn(admin, admin')
    BY <1>4, <2>1, RemoveReasoned
  <2>3. SweptOf(admin', clients', cause')
    BY <1>3, <2>1, RemoveSweeps
  <2>4. SweptOf(enforcer, clients', cause') /\ GoesOn(enforcer, enforcer)
    BY <1>3, <2>2, OtherSwept
  <2> QED BY <1>2, <2>1, <2>2, <2>3, <2>4, CallReasons
<1>13. ASSUME NEW s \in Servers, AdminReserves(s) \/ AdminAdds(s) PROVE ReasonInv'
  <2>1. /\ Reasoned /\ rows \subseteq rows' /\ GoesOn(admin, admin')
        /\ admin.op \notin Removing
        /\ UNCHANGED <<user, enforcer>>
    BY <1>4, <1>13, ReserveReasoned, AddReasoned DEF AdminReserves, AdminAdds
  <2>2. SweptOf(admin', clients', cause')
    BY <2>1, AddsSwept
  <2>3. SweptOf(enforcer, clients', cause') /\ GoesOn(enforcer, enforcer)
    BY <1>3, <2>1, OtherSwept
  <2> QED BY <1>2, <2>1, <2>2, <2>3, CallReasons
<1>14. CASE AdminDrops
  <2>1. UNCHANGED <<user, clients, cause, enforcer>> /\ rows' = Without(admin.who)
    BY <1>14 DEF AdminDrops
  <2>2. admin.op \in Removing /\ Called(admin) /\ (admin.op # "expiry" \/ admin.ok)
    BY <1>14 DEF AdminDrops, Drops, Removing
  <2>3. OrphansExplained'
    BY <1>3, <2>1, <2>2, DropReasons
  <2>4. admin'.op = admin.op /\ admin'.who = admin.who /\ admin'.todo = admin.todo
        /\ admin'.ok = admin.ok
    BY <1>4, <1>14 DEF AdminDrops, Job
  <2>5. ServedForAReason'
    BY <2>1, <2>4 DEF ReasonInv, ServedForAReason, Entitled, BeingRemoved
  <2>6. Swept(admin)' /\ Swept(enforcer)'
    BY <2>1, <2>4 DEF ReasonInv, Swept, SweptOf
  <2> QED BY <2>3, <2>5, <2>6 DEF ReasonInv
<1>15. CASE AdminDone
  <2>1. UNCHANGED <<clients, cause, enforcer>> /\ Called(admin) /\ admin' = NoJob
    BY <1>15 DEF AdminDone, Closes
  <2>2. OrphansExplained'
    <3>1. CASE admin.op = "delete"
      <4>1. rows' = Without(admin.who) /\ admin.op \in Removing
        BY <1>15, <3>1 DEF AdminDone, Removing
      <4> QED BY <1>3, <2>1, <3>1, <4>1, DropReasons
    <3>2. CASE admin.op # "delete"
      BY <1>15, <2>1, <3>2 DEF AdminDone, ReasonInv, OrphansExplained
    <3> QED BY <3>1, <3>2
  <2>3. \A u \in Users : BeingRemoved(u) =>
            \/ BeingRemoved(u)'
            \/ u = admin.who /\ admin.op \in Removing
    BY <2>1 DEF BeingRemoved
  <2>4. \A u \in Users : Entitled(u) => \/ Entitled(u)'
                                        \/ u = admin.who /\ admin.op \in Removing
    BY <1>4, <1>15 DEF AdminDone, Entitled, TypeOK, Removing
  <2>5. ServedForAReason'
    BY <1>3, <2>1, <2>3, <2>4, DoneReasons
  <2>6. Swept(admin)' /\ Swept(enforcer)'
    BY <2>1 DEF ReasonInv, Swept, SweptOf, NoJob, Removing
  <2> QED BY <2>2, <2>5, <2>6 DEF ReasonInv
<1> QED BY <1>7, <1>8, <1>9, <1>10, <1>11, <1>12, <1>13, <1>14, <1>15 DEF AdminNext

\* A step of the enforcer keeps the reasons.
LEMMA EnforcerReasons == ASSUME EntTypeInv, ReasonInv, EnforcerNext PROVE ReasonInv'
<1>1. EntTypeInv'
  BY EnforcerTypes
<1>2. clients' \subseteq Bindings
  BY <1>1 DEF EntTypeInv, TypeOK
<1>3. admin \in {admin, enforcer} /\ enforcer \in {admin, enforcer}
  OBVIOUS
<1>4. TypeOK /\ enforcer \in Job /\ About(enforcer)
  BY DEF EntTypeInv, TypeOK
<1>5. CASE EnforcerLists
  BY <1>5 DEF EnforcerLists, ReasonInv, OrphansExplained, ServedForAReason,
              Entitled, BeingRemoved, Swept
<1>6. ASSUME NEW u \in Users, EnforcerVisits(u) PROVE ReasonInv'
  <2>1. UNCHANGED <<user, rows, clients, cause, admin>> /\ enforcer = NoJob
    BY <1>6 DEF EnforcerVisits
  <2>2. PICK op, calls : calls = RowsOf(u) /\ enforcer' \in {NoJob, Begin(op, u, calls)}
    BY <1>6 DEF EnforcerVisits
  <2>3. Reasoned
    BY <2>1 DEF Reasoned
  <2>4. \A v \in Users : BeingRemoved(v) => BeingRemoved(v)'
    BY <2>1 DEF BeingRemoved, NoJob, Removing
  <2>5. \A v \in Users : Entitled(v) => Entitled(v)'
    BY <2>1 DEF Entitled
  <2>6. OrphansExplained' /\ ServedForAReason'
    BY <1>2, <2>1, <2>3, <2>4, <2>5, ReasonsStay
  <2>7. SweptOf(NoJob, clients', cause')
    BY DEF SweptOf, NoJob, Removing
  <2>8. SweptOf(Begin(op, u, calls), clients', cause')
    BY <2>1, <2>2, BeginsSwept DEF ReasonInv
  <2>9. SweptOf(admin, clients', cause')
    BY <1>3, <2>3, OtherSwept
  <2> QED BY <2>1, <2>2, <2>6, <2>7, <2>8, <2>9 DEF ReasonInv, Swept
<1>7. ASSUME NEW s \in Servers, EnforcerRemoves(s) PROVE ReasonInv'
  <2>1. PICK answered \in Answers(s) :
          /\ RemoveCall(enforcer, s, answered)
          /\ enforcer' = AfterRemove(enforcer, s, answered)
          /\ UNCHANGED <<user, quota, snap, online, admin, listed, late,
                         since, reconciler, cleaner>>
    BY <1>7 DEF EnforcerRemoves
  <2>2. Reasoned /\ rows' = rows /\ GoesOn(enforcer, enforcer')
    BY <1>4, <2>1, RemoveReasoned
  <2>3. SweptOf(enforcer', clients', cause')
    BY <1>3, <2>1, RemoveSweeps
  <2>4. SweptOf(admin, clients', cause') /\ GoesOn(admin, admin)
    BY <1>3, <2>2, OtherSwept
  <2> QED BY <1>2, <2>1, <2>2, <2>3, <2>4, CallReasons
<1>8. ASSUME NEW s \in Servers, EnforcerReserves(s) \/ EnforcerAdds(s) PROVE ReasonInv'
  <2>1. /\ Reasoned /\ rows \subseteq rows' /\ GoesOn(enforcer, enforcer')
        /\ enforcer.op \notin Removing
        /\ UNCHANGED <<user, admin>>
    BY <1>4, <1>8, ReserveReasoned, AddReasoned DEF EnforcerReserves, EnforcerAdds
  <2>2. SweptOf(enforcer', clients', cause')
    BY <2>1, AddsSwept
  <2>3. SweptOf(admin, clients', cause') /\ GoesOn(admin, admin)
    BY <1>3, <2>1, OtherSwept
  <2> QED BY <1>2, <2>1, <2>2, <2>3, CallReasons
<1>9. CASE EnforcerDrops
  <2>1. UNCHANGED <<user, clients, cause, admin>> /\ rows' = Without(enforcer.who)
    BY <1>9 DEF EnforcerDrops
  <2>2. /\ enforcer.op \in Removing /\ Called(enforcer)
        /\ enforcer.op # "expiry" \/ enforcer.ok
    BY <1>9 DEF EnforcerDrops, Drops, Removing
  <2>3. OrphansExplained'
    BY <1>3, <2>1, <2>2, DropReasons
  <2>4. /\ enforcer'.op = enforcer.op /\ enforcer'.who = enforcer.who
        /\ enforcer'.todo = enforcer.todo /\ enforcer'.ok = enforcer.ok
    BY <1>4, <1>9 DEF EnforcerDrops, Job
  <2>5. ServedForAReason'
    BY <2>1, <2>4 DEF ReasonInv, ServedForAReason, Entitled, BeingRemoved
  <2>6. Swept(admin)' /\ Swept(enforcer)'
    BY <2>1, <2>4 DEF ReasonInv, Swept, SweptOf
  <2> QED BY <2>3, <2>5, <2>6 DEF ReasonInv
<1>10. CASE EnforcerDone
  <2>1. UNCHANGED <<rows, clients, cause, admin>> /\ Called(enforcer) /\ enforcer' = NoJob
    BY <1>10 DEF EnforcerDone, Closes
  <2>2. OrphansExplained'
    BY <2>1 DEF ReasonInv, OrphansExplained
  <2>3. \A u \in Users : BeingRemoved(u) =>
            \/ BeingRemoved(u)'
            \/ u = enforcer.who /\ enforcer.op \in Removing
    BY <2>1 DEF BeingRemoved
  <2>4. \A u \in Users : Entitled(u) => \/ Entitled(u)'
                                        \/ u = enforcer.who /\ enforcer.op \in Removing
    <3>1. CASE user' = user
      BY <3>1 DEF Entitled
    <3>2. CASE enforcer.op \in Removing
      BY <1>4, <1>10, <3>2 DEF EnforcerDone, Entitled, TypeOK
    <3>3. CASE enforcer.op \notin Removing
      <4>1. user' \in {user, [user EXCEPT ![enforcer.who].over = FALSE]}
        BY <1>10, <3>3 DEF EnforcerDone, Removing
      <4> QED BY <1>4, <4>1 DEF Entitled, TypeOK, Account
    <3> QED BY <3>1, <3>2, <3>3
  <2>5. ServedForAReason'
    BY <1>3, <2>1, <2>3, <2>4, DoneReasons
  <2>6. Swept(admin)' /\ Swept(enforcer)'
    BY <2>1 DEF ReasonInv, Swept, SweptOf, NoJob, Removing
  <2> QED BY <2>2, <2>5, <2>6 DEF ReasonInv
<1> QED BY <1>5, <1>6, <1>7, <1>8, <1>9, <1>10 DEF EnforcerNext

\* Each step keeps the reasons.
LEMMA ReasonStep == ASSUME EntTypeInv, ReasonInv, [Next]_vars PROVE ReasonInv'
<1>1. CASE UNCHANGED vars
  BY <1>1 DEF vars, ReasonInv, OrphansExplained, ServedForAReason, Entitled,
              BeingRemoved, Swept
<1> QED BY <1>1, AdminReasons, EnforcerReasons, WorldReasons DEF Next

\* Initially nobody is served.
LEMMA ReasonsInitially == Init => ReasonInv
BY DEF Init, ReasonInv, OrphansExplained, ServedForAReason, Swept, SweptOf, NoJob, Removing

\* The master loses sight of a client only when an admin takes the account or
\* the package away, or when two of its parts raced.
THEOREM OrphansAreExplained == Spec => []OrphansExplained
<1>1. EntTypeInv /\ ReasonInv /\ [Next]_vars => ReasonInv'
  BY ReasonStep
<1>2. ReasonInv => OrphansExplained
  BY DEF ReasonInv
<1> QED BY <1>1, <1>2, ReasonsInitially, TypesHold, PTL DEF Spec

\* Nobody is served by accident: an account that is not entitled is being
\* removed, or there is a reason.
THEOREM NobodyServedByAccident == Spec => []ServedForAReason
<1>1. EntTypeInv /\ ReasonInv /\ [Next]_vars => ReasonInv'
  BY ReasonStep
<1>2. ReasonInv => ServedForAReason
  BY DEF ReasonInv
<1> QED BY <1>1, <1>2, ReasonsInitially, TypesHold, PTL DEF Spec

-----------------------------------------------------------------------------
(* What is taken is taken for a reason *)

\* A package that runs although the enforcer holds its account for expired was
\* renewed since; the enforcer is done with an account before it reads the
\* next list.
HeldInv ==
  /\ \A u \in Users :
        HeldExpired(u) /\ user[u].package => user[u].expired \/ u \in since.renewed
  /\ enforcer.op # "none" => enforcer.who \notin late

\* An account whose name the cleaner does not have was created since.
KnownInv ==
  cleaner.running =>
     \A u \in Users : user[u].status # "gone" => u \in cleaner.known \cup since.created

\* An account that is being disabled is disabled.
DisabledInv == admin.op = "disable" => user[admin.who].status = "disabled"

\* The admin and the enforcer each have their own jobs.
OpsInv ==
  /\ admin.op \in {"none", "disable", "unassign", "delete", "enable", "assign"}
  /\ enforcer.op \in {"none", "expiry", "cutoff", "restore"}

\* An account that is gone has no package.
GoneInv == \A u \in Users : user[u].status = "gone" => ~user[u].package

TakenInv == HeldInv /\ KnownInv /\ DisabledInv /\ OpsInv /\ GoneInv

\* A call of a job is about its account and goes on with it, and leaves the
\* database alone but for the rows.
LEMMA CallKeeps ==
  ASSUME EntTypeInv, NEW s \in Servers, NEW job \in Job, About(job),
         NEW answered \in Answers(s)
  PROVE  /\ RemoveCall(job, s, answered) =>
               /\ GoesOn(job, AfterRemove(job, s, answered))
               /\ job.op \in Removing
               /\ clients \ clients' \subseteq {<<job.who, s>>}
         /\ ReserveCall(job, s, answered) =>
               /\ GoesOn(job, AfterReserve(job, s, answered)) /\ clients' = clients
         /\ AddCall(job, s, answered) =>
               /\ GoesOn(job, AfterAdd(job, s)) /\ clients \subseteq clients'
BY DEF RemoveCall, ReserveCall, AddCall, AfterRemove, AfterReserve, AfterAdd, GoesOn, Job

\* An account that loses its package keeps the rest; what the enforcer records
\* at the end of a visit is nothing else.
LEMMA AccountKeeps ==
  ASSUME EntTypeInv, NEW w, NEW over, NEW v \in Users
  PROVE  /\ user' = [user EXCEPT ![w] = Bare(@)] =>
               /\ user'[v].status = user[v].status
               /\ v # w => user'[v] = user[v]
               /\ v = w => ~user'[v].package
         /\ user' = [user EXCEPT ![w].over = over] =>
               /\ user'[v].status = user[v].status /\ user'[v].package = user[v].package
         /\ user' = [user EXCEPT ![w].expired = TRUE] =>
               /\ user'[v].status = user[v].status /\ user'[v].package = user[v].package
         /\ user' = [user EXCEPT ![w] = Gone] =>
               /\ v # w => user'[v] = user[v]
               /\ v = w => user'[v].status = "gone" /\ ~user'[v].package
<1>1. user[v] \in Account
  BY DEF EntTypeInv, TypeOK
<1>2. Bare(user[v]).status = user[v].status /\ ~Bare(user[v]).package
  BY <1>1 DEF Bare, Account
<1>3. ASSUME user' = [user EXCEPT ![w] = Bare(@)]
      PROVE  user'[v] = IF v = w THEN Bare(user[v]) ELSE user[v]
  BY <1>3 DEF EntTypeInv, TypeOK
<1>4. ASSUME user' = [user EXCEPT ![w].over = over]
      PROVE  user'[v].status = user[v].status /\ user'[v].package = user[v].package
  BY <1>1, <1>4 DEF EntTypeInv, TypeOK, Account
<1>5. ASSUME user' = [user EXCEPT ![w].expired = TRUE]
      PROVE  user'[v].status = user[v].status /\ user'[v].package = user[v].package
  BY <1>1, <1>5 DEF EntTypeInv, TypeOK, Account
<1>6. ASSUME user' = [user EXCEPT ![w] = Gone]
      PROVE  user'[v] = IF v = w THEN Gone ELSE user[v]
  BY <1>6 DEF EntTypeInv, TypeOK
<1>7. Gone.status = "gone" /\ ~Gone.package
  BY DEF Gone, Fresh
<1> QED BY <1>2, <1>3, <1>4, <1>5, <1>6, <1>7

\* What the enforcer has read stays true, or is known to have changed: requests
\* of the admin.
LEMMA AdminHolds == ASSUME EntTypeInv, HeldInv, AdminNext PROVE HeldInv'
<1>1. UNCHANGED <<enforcer, late>>
  BY DEF AdminNext, Disable, Enable, Assign, Create, TakeAway, AdminRemoves,
         AdminReserves, AdminAdds, AdminDrops, AdminDone
<1>2. \A v \in Users : HeldExpired(v)' <=> HeldExpired(v)
  BY <1>1 DEF HeldExpired
<1>3. ASSUME NEW u \in Users, Assign(u) PROVE HeldInv'
  <2>1. user' = [user EXCEPT ![u].package = TRUE, ![u].expired = FALSE]
    BY <1>3 DEF Assign
  <2>2. \A v \in Users \ {u} : user'[v] = user[v]
    BY <2>1 DEF EntTypeInv, TypeOK
  <2>3. since.renewed \subseteq since'.renewed
    BY <1>3 DEF Assign, EntTypeInv, TypeOK, Since
  <2>4. HeldExpired(u) => u \in since'.renewed
    BY <1>3 DEF Assign, EntTypeInv, TypeOK, Since
  <2> QED BY <1>1, <1>2, <2>2, <2>3, <2>4 DEF HeldInv
<1>4. ASSUME NEW u \in Users, Create(u) PROVE HeldInv'
  <2>1. user' = [user EXCEPT ![u] = Fresh]
    BY <1>4 DEF Create
  <2>2. ~user'[u].package /\ \A v \in Users \ {u} : user'[v] = user[v]
    BY <2>1 DEF Fresh, EntTypeInv, TypeOK
  <2>3. since'.renewed = since.renewed
    BY <1>4 DEF Create, EntTypeInv, TypeOK, Since
  <2> QED BY <1>1, <1>2, <2>2, <2>3 DEF HeldInv
<1>5. ASSUME since' = since, \A v \in Users :
                \/ ~user'[v].package
                \/ user'[v].package = user[v].package /\ user'[v].expired = user[v].expired
      PROVE  HeldInv'
  BY <1>1, <1>2, <1>5 DEF HeldInv
<1>6. ASSUME NEW u \in Users,
             Disable(u) \/ Enable(u) \/ TakeAway(u, "unassign") \/ TakeAway(u, "delete")
      PROVE  HeldInv'
  <2>1. since' = since /\ \A v \in Users :
           user'[v].package = user[v].package /\ user'[v].expired = user[v].expired
    BY <1>6 DEF Disable, Enable, TakeAway, EntTypeInv, TypeOK, Account
  <2> QED BY <1>5, <2>1
<1>7. CASE UNCHANGED <<user, since>>
  BY <1>5, <1>7
<1>8. CASE AdminDone
  <2>1. since' = since
    BY <1>8 DEF AdminDone
  <2>2. \/ user' = user \/ user' = [user EXCEPT ![admin.who] = Bare(@)]
        \/ user' = [user EXCEPT ![admin.who] = Gone]
    BY <1>8 DEF AdminDone
  <2>3. \A v \in Users : user'[v] = user[v] \/ ~user'[v].package
    BY <2>2, AccountKeeps
  <2> QED BY <1>5, <2>1, <2>3
<1> QED
  BY <1>3, <1>4, <1>6, <1>7, <1>8
     DEF AdminNext, AdminRemoves, AdminReserves, AdminAdds, AdminDrops

\* Steps of the enforcer: what it lists is expired, and who it is done with is
\* not held any more.
LEMMA EnforcerHolds == ASSUME EntTypeInv, HeldInv, EnforcerNext PROVE HeldInv'
<1>1. CASE EnforcerLists
  <2>1. /\ UNCHANGED <<user, since, enforcer>> /\ enforcer = NoJob
        /\ late' = {u \in Users : user[u].package /\ user[u].expired}
    BY <1>1 DEF EnforcerLists
  <2> QED BY <2>1 DEF HeldInv, HeldExpired, NoJob
<1>2. ASSUME NEW u \in Users, EnforcerVisits(u) PROVE HeldInv'
  <2>1. /\ UNCHANGED <<user, since>> /\ late' = late \ {u}
        /\ \E due \in BOOLEAN :
              enforcer' = IF Verdict(u, due) = "none" THEN NoJob
                          ELSE Begin(Verdict(u, due), u, RowsOf(u))
    BY <1>2 DEF EnforcerVisits
  <2>2. PICK due \in BOOLEAN :
           enforcer' = IF Verdict(u, due) = "none" THEN NoJob
                       ELSE Begin(Verdict(u, due), u, RowsOf(u))
    BY <2>1
  <2>3. enforcer'.op = Verdict(u, due)
    BY <2>2 DEF Begin, NoJob
  <2>4. enforcer'.op # "none" => enforcer'.who = u
    BY <2>2, <2>3 DEF Begin, NoJob
  <2>5. Verdict(u, due) = "expiry" => u \in late
    BY DEF Verdict
  <2>6. \A v \in Users : HeldExpired(v)' => HeldExpired(v)
    BY <2>1, <2>3, <2>4, <2>5 DEF HeldExpired
  <2> QED BY <2>1, <2>4, <2>6 DEF HeldInv
<1>3. ASSUME GoesOn(enforcer, enforcer'), UNCHANGED <<user, since, late>> PROVE HeldInv'
  BY <1>3 DEF HeldInv, HeldExpired, GoesOn
<1>4. ASSUME NEW s \in Servers, EnforcerRemoves(s) \/ EnforcerReserves(s) \/ EnforcerAdds(s)
      PROVE  HeldInv'
  <2>1. enforcer \in Job /\ About(enforcer)
    BY DEF EntTypeInv, TypeOK
  <2>2. GoesOn(enforcer, enforcer') /\ UNCHANGED <<user, since, late>>
    BY <1>4, <2>1, CallKeeps DEF EnforcerRemoves, EnforcerReserves, EnforcerAdds
  <2> QED BY <1>3, <2>2
<1>5. CASE EnforcerDrops
  <2>1. GoesOn(enforcer, enforcer') /\ UNCHANGED <<user, since, late>>
    BY <1>5 DEF EnforcerDrops, GoesOn, EntTypeInv, TypeOK, Job
  <2> QED BY <1>3, <2>1
<1>6. CASE EnforcerDone
  <2> DEFINE w == enforcer.who
  <2>1. enforcer.op # "none" /\ w \in Users /\ w \notin late
    BY <1>6 DEF EnforcerDone, Closes, Called, HeldInv, EntTypeInv, About
  <2>2. /\ enforcer' = NoJob /\ late' = late
        /\ since' = [since EXCEPT !.renewed = @ \ {w}]
    BY <1>6 DEF EnforcerDone
  <2>3. since'.renewed = since.renewed \ {w}
    BY <2>2 DEF EntTypeInv, TypeOK, Since
  <2>4. \A v \in Users \ {w} : user'[v] = user[v]
    BY <1>6 DEF EnforcerDone, EntTypeInv, TypeOK
  <2>5. \A v \in Users : HeldExpired(v)' => HeldExpired(v) /\ v # w
    BY <2>1, <2>2 DEF HeldExpired, NoJob
  <2>6. enforcer'.op = "none"
    BY <2>2 DEF NoJob
  <2> HIDE DEF w
  <2> QED BY <2>3, <2>4, <2>5, <2>6 DEF HeldInv
<1> QED BY <1>1, <1>2, <1>4, <1>5, <1>6 DEF EnforcerNext

\* The daily jobs and the world do not change what the enforcer has read.
LEMMA OtherHolds == ASSUME EntTypeInv, HeldInv, DailyNext \/ WorldNext PROVE HeldInv'
<1>1. UNCHANGED <<enforcer, late>>
  BY DEF DailyNext, WorldNext, ReconcilerScans, ReconcilerSends, CleanerStarts,
         CleanerVisits, Refresh, Expire, QuotaMoves, GoOffline, GoOnline, Drift, jobVars
<1>2. since'.renewed = since.renewed
  <2>1. \/ since' = since
        \/ since' = [since EXCEPT !.created = {}]
    BY DEF DailyNext, WorldNext, ReconcilerScans, ReconcilerSends, CleanerStarts,
           CleanerVisits, Refresh, Expire, QuotaMoves, GoOffline, GoOnline, Drift, jobVars
  <2> QED BY <2>1 DEF EntTypeInv, TypeOK, Since
<1>3. \A v \in Users : /\ user'[v].package = user[v].package
                       /\ user[v].expired => user'[v].expired
  <2>1. \/ user' = user
        \/ \E u \in Users : user' = [user EXCEPT ![u].expired = TRUE]
    BY DEF DailyNext, WorldNext, ReconcilerScans, ReconcilerSends, CleanerStarts,
           CleanerVisits, Refresh, Expire, QuotaMoves, GoOffline, GoOnline, Drift
  <2> QED BY <2>1 DEF EntTypeInv, TypeOK, Account
<1> QED BY <1>1, <1>2, <1>3 DEF HeldInv, HeldExpired

\* The accounts change, in steps that are not the admin's, in three ways.
AccountsMove ==
  \/ user' = user
  \/ \E u \in Users : user' = [user EXCEPT ![u].expired = TRUE]
  \/ enforcer.op = "expiry" /\ user' = [user EXCEPT ![enforcer.who] = Bare(@)]
  \/ \E over \in BOOLEAN : user' = [user EXCEPT ![enforcer.who].over = over]

\* That these are all of them.
LEMMA HowAccountsMove ==
  ASSUME EnforcerNext \/ DailyNext \/ WorldNext PROVE AccountsMove
<1>1. CASE EnforcerDone
  <2>1. (enforcer.op = "cutoff") \in BOOLEAN
    OBVIOUS
  <2> QED BY <1>1, <2>1 DEF EnforcerDone, AccountsMove
<1>2. CASE user' = user
  BY <1>2 DEF AccountsMove
<1>3. ASSUME NEW u \in Users, Expire(u) PROVE AccountsMove
  BY <1>3 DEF Expire, AccountsMove
<1> QED
  BY <1>1, <1>2, <1>3
     DEF DailyNext, WorldNext, ReconcilerScans, ReconcilerSends, CleanerStarts,
         CleanerVisits, Refresh, QuotaMoves, GoOffline, GoOnline, Drift,
         EnforcerNext, EnforcerLists, EnforcerVisits, EnforcerRemoves,
         EnforcerReserves, EnforcerAdds, EnforcerDrops

\* None touches the status, and only the end of an expiry the package.
LEMMA MovingKeeps ==
  ASSUME EntTypeInv, AccountsMove, NEW v \in Users
  PROVE  /\ user'[v].status = user[v].status
         /\ \/ user'[v].package = user[v].package
            \/ enforcer.op = "expiry" /\ v = enforcer.who /\ ~user'[v].package
<1>1. CASE user' = user
  BY <1>1
<1>2. ASSUME NEW u \in Users, user' = [user EXCEPT ![u].expired = TRUE]
      PROVE  user'[v].status = user[v].status /\ user'[v].package = user[v].package
  BY <1>2, AccountKeeps
<1>3. ASSUME enforcer.op = "expiry", user' = [user EXCEPT ![enforcer.who] = Bare(@)]
      PROVE  /\ user'[v].status = user[v].status
             /\ \/ user'[v] = user[v]
                \/ v = enforcer.who /\ ~user'[v].package
  <2>1. /\ user'[v].status = user[v].status
        /\ v # enforcer.who => user'[v] = user[v]
        /\ v = enforcer.who => ~user'[v].package
    BY <1>3, AccountKeeps, Zenon
  <2> QED BY <2>1
<1>4. ASSUME NEW over \in BOOLEAN, user' = [user EXCEPT ![enforcer.who].over = over]
      PROVE  user'[v].status = user[v].status /\ user'[v].package = user[v].package
  BY <1>4, AccountKeeps
<1> QED BY <1>1, <1>2, <1>3, <1>4 DEF AccountsMove

\* An account changes its status only by a request of the admin.
LEMMA StatusStays ==
  ASSUME EntTypeInv, EnforcerNext \/ DailyNext \/ WorldNext
  PROVE  admin' = admin /\ \A v \in Users : user'[v].status = user[v].status
<1>1. admin' = admin
  BY DEF DailyNext, WorldNext, ReconcilerScans, ReconcilerSends, CleanerStarts,
         CleanerVisits, Refresh, Expire, QuotaMoves, GoOffline, GoOnline, Drift, jobVars,
         EnforcerNext, EnforcerLists, EnforcerVisits, EnforcerRemoves, EnforcerReserves,
         EnforcerAdds, EnforcerDrops, EnforcerDone
<1>2. AccountsMove
  BY HowAccountsMove
<1> QED BY <1>1, <1>2, MovingKeeps

\* What the cleaner has read stays true, or is known to have changed.
LEMMA CleanerKnows == ASSUME EntTypeInv, KnownInv, [Next]_vars PROVE KnownInv'
<1>1. ASSUME UNCHANGED <<cleaner, since>>,
             \A v \in Users : user'[v].status # "gone" => user[v].status # "gone"
      PROVE  KnownInv'
  BY <1>1 DEF KnownInv
<1>2. CASE AdminNext
  <2>1. ASSUME NEW u \in Users, Create(u) PROVE KnownInv'
    <3>1. /\ cleaner' = cleaner /\ user' = [user EXCEPT ![u] = Fresh]
          /\ since' = IF cleaner.running THEN [since EXCEPT !.created = @ \cup {u}]
                      ELSE since
      BY <2>1 DEF Create
    <3>2. cleaner.running => since'.created = since.created \cup {u}
      BY <3>1 DEF EntTypeInv, TypeOK, Since
    <3>3. \A v \in Users \ {u} : user'[v] = user[v]
      BY <3>1 DEF EntTypeInv, TypeOK
    <3> QED BY <3>1, <3>2, <3>3 DEF KnownInv
  <2>2. ASSUME NEW u \in Users, Assign(u) PROVE KnownInv'
    <3>1. /\ cleaner' = cleaner
          /\ user' = [user EXCEPT ![u].package = TRUE, ![u].expired = FALSE]
      BY <2>2 DEF Assign
    <3>2. since'.created = since.created
      BY <2>2 DEF Assign, EntTypeInv, TypeOK, Since
    <3>3. \A v \in Users : user'[v].status = user[v].status
      BY <3>1 DEF EntTypeInv, TypeOK, Account
    <3> QED BY <3>1, <3>2, <3>3 DEF KnownInv
  <2>3. ASSUME NEW u \in Users,
               Disable(u) \/ Enable(u) \/ TakeAway(u, "unassign") \/ TakeAway(u, "delete")
        PROVE  KnownInv'
    <3>1. UNCHANGED <<cleaner, since>> /\ user[u].status # "gone"
      BY <2>3 DEF Disable, Enable, TakeAway, Request
    <3>2. \A v \in Users \ {u} : user'[v] = user[v]
      BY <2>3 DEF Disable, Enable, TakeAway, EntTypeInv, TypeOK
    <3> QED BY <1>1, <3>1, <3>2
  <2>4. ASSUME NEW s \in Servers, AdminRemoves(s) \/ AdminReserves(s) \/ AdminAdds(s)
        PROVE  KnownInv'
    BY <1>1, <2>4 DEF AdminRemoves, AdminReserves, AdminAdds
  <2>5. CASE AdminDrops
    BY <1>1, <2>5 DEF AdminDrops
  <2>6. CASE AdminDone
    <3>1. UNCHANGED <<cleaner, since>>
      BY <2>6 DEF AdminDone
    <3>2. \/ user' = user \/ user' = [user EXCEPT ![admin.who] = Bare(@)]
          \/ user' = [user EXCEPT ![admin.who] = Gone]
      BY <2>6 DEF AdminDone
    <3>3. \A v \in Users : user'[v].status # "gone" => user[v].status # "gone"
      BY <3>2, AccountKeeps
    <3> QED BY <1>1, <3>1, <3>3
  <2> QED BY <1>2, <2>1, <2>2, <2>3, <2>4, <2>5, <2>6 DEF AdminNext
<1>3. CASE EnforcerNext
  <2>1. cleaner' = cleaner /\ since'.created = since.created
    <3>1. /\ cleaner' = cleaner
          /\ \/ since' = since
             \/ since' = [since EXCEPT !.renewed = @ \ {enforcer.who}]
      BY <1>3 DEF EnforcerNext, EnforcerLists, EnforcerVisits, EnforcerRemoves,
                  EnforcerReserves, EnforcerAdds, EnforcerDrops, EnforcerDone
    <3> QED BY <3>1 DEF EntTypeInv, TypeOK, Since
  <2> QED BY <1>3, <2>1, StatusStays DEF KnownInv
<1>4. CASE DailyNext \/ WorldNext
  <2>1. \A v \in Users : user'[v].status = user[v].status
    BY <1>4, StatusStays
  <2>2. CASE CleanerStarts
    BY <2>1, <2>2 DEF CleanerStarts, KnownInv
  <2>3. ASSUME NEW s \in Servers, CleanerVisits(s) PROVE KnownInv'
    <3>1. CASE cleaner.left = {s}
      BY <2>3, <3>1 DEF CleanerVisits, NoSweep, KnownInv
    <3>2. CASE cleaner.left # {s}
      <4>1. /\ since' = since /\ cleaner' = [cleaner EXCEPT !.left = @ \ {s}]
        BY <2>3, <3>2 DEF CleanerVisits
      <4>2. cleaner'.running = cleaner.running /\ cleaner'.known = cleaner.known
        BY <4>1 DEF EntTypeInv, TypeOK, Sweep
      <4> QED BY <2>1, <4>1, <4>2 DEF KnownInv
    <3> QED BY <3>1, <3>2
  <2>4. CASE UNCHANGED <<cleaner, since>>
    BY <1>1, <2>1, <2>4
  <2> QED
    BY <1>4, <2>2, <2>3, <2>4
       DEF DailyNext, WorldNext, ReconcilerScans, ReconcilerSends, Refresh, Expire,
           QuotaMoves, GoOffline, GoOnline, Drift, jobVars
<1>5. CASE UNCHANGED vars
  BY <1>5 DEF vars, KnownInv
<1> QED BY <1>2, <1>3, <1>4, <1>5 DEF Next

\* An account is disabled for as long as its clients are being removed for it.
LEMMA DisabledStays == ASSUME EntTypeInv, DisabledInv, [Next]_vars PROVE DisabledInv'
<1>1. ASSUME admin'.op = admin.op, admin'.who = admin.who, admin.op = "disable",
             \A v \in Users : user'[v].status = user[v].status
      PROVE  DisabledInv'
  BY <1>1 DEF DisabledInv, EntTypeInv, About
<1>2. CASE AdminNext
  <2>1. ASSUME NEW u \in Users, Disable(u) PROVE DisabledInv'
    BY <2>1 DEF Disable, Begin, DisabledInv, EntTypeInv, TypeOK, Account
  <2>2. ASSUME NEW u \in Users,
               \/ Enable(u) \/ Assign(u) \/ Create(u)
               \/ TakeAway(u, "unassign") \/ TakeAway(u, "delete")
        PROVE  admin'.op # "disable"
    BY <2>2 DEF Enable, Assign, Create, TakeAway, Begin, NoJob
  <2>3. ASSUME NEW s \in Servers, AdminRemoves(s) \/ AdminReserves(s) \/ AdminAdds(s)
        PROVE  DisabledInv'
    <3>1. GoesOn(admin, admin') /\ user' = user
      BY <2>3, CallKeeps DEF AdminRemoves, AdminReserves, AdminAdds, EntTypeInv, TypeOK
    <3> QED BY <3>1 DEF GoesOn, DisabledInv
  <2>4. CASE AdminDrops
    <3>1. GoesOn(admin, admin') /\ user' = user
      BY <2>4 DEF AdminDrops, GoesOn, EntTypeInv, TypeOK, Job
    <3> QED BY <3>1 DEF GoesOn, DisabledInv
  <2>5. CASE AdminDone
    BY <2>5 DEF AdminDone, NoJob, DisabledInv
  <2> QED BY <1>2, <2>1, <2>2, <2>3, <2>4, <2>5 DEF AdminNext, DisabledInv
<1>3. CASE EnforcerNext \/ DailyNext \/ WorldNext
  BY <1>1, <1>3, StatusStays DEF DisabledInv
<1>4. CASE UNCHANGED vars
  BY <1>4 DEF vars, DisabledInv
<1> QED BY <1>2, <1>3, <1>4 DEF Next

\* Each keeps to its own jobs.
LEMMA OpsStay == ASSUME EntTypeInv, OpsInv, [Next]_vars PROVE OpsInv'
<1>1. CASE AdminNext
  <2>1. enforcer' = enforcer
    BY <1>1 DEF AdminNext, Disable, Enable, Assign, Create, TakeAway, AdminRemoves,
                AdminReserves, AdminAdds, AdminDrops, AdminDone
  <2>2. ASSUME NEW u \in Users,
               \/ Disable(u) \/ Enable(u) \/ Assign(u) \/ Create(u)
               \/ TakeAway(u, "unassign") \/ TakeAway(u, "delete")
        PROVE  OpsInv'
    BY <2>1, <2>2 DEF Disable, Enable, Assign, Create, TakeAway, Begin, NoJob, OpsInv
  <2>3. ASSUME NEW s \in Servers, AdminRemoves(s) \/ AdminReserves(s) \/ AdminAdds(s)
        PROVE  OpsInv'
    <3>1. GoesOn(admin, admin')
      BY <2>3, CallKeeps DEF AdminRemoves, AdminReserves, AdminAdds, EntTypeInv, TypeOK
    <3> QED BY <2>1, <3>1 DEF GoesOn, OpsInv
  <2>4. CASE AdminDrops
    <3>1. GoesOn(admin, admin')
      BY <2>4 DEF AdminDrops, GoesOn, EntTypeInv, TypeOK, Job
    <3> QED BY <2>1, <3>1 DEF GoesOn, OpsInv
  <2>5. CASE AdminDone
    BY <2>1, <2>5 DEF AdminDone, NoJob, OpsInv
  <2> QED BY <1>1, <2>2, <2>3, <2>4, <2>5 DEF AdminNext
<1>2. CASE EnforcerNext
  <2>1. admin' = admin
    BY <1>2, StatusStays
  <2>2. CASE EnforcerLists
    BY <2>1, <2>2 DEF EnforcerLists, OpsInv
  <2>3. ASSUME NEW u \in Users, EnforcerVisits(u) PROVE OpsInv'
    <3>1. PICK due \in BOOLEAN :
             enforcer' = IF Verdict(u, due) = "none" THEN NoJob
                         ELSE Begin(Verdict(u, due), u, RowsOf(u))
      BY <2>3 DEF EnforcerVisits
    <3>2. enforcer'.op = Verdict(u, due)
      BY <3>1 DEF Begin, NoJob
    <3>3. Verdict(u, due) \in {"none", "expiry", "cutoff", "restore"}
      BY DEF Verdict
    <3> QED BY <2>1, <3>2, <3>3 DEF OpsInv
  <2>4. ASSUME NEW s \in Servers,
               EnforcerRemoves(s) \/ EnforcerReserves(s) \/ EnforcerAdds(s)
        PROVE  OpsInv'
    <3>1. GoesOn(enforcer, enforcer')
      BY <2>4, CallKeeps
         DEF EnforcerRemoves, EnforcerReserves, EnforcerAdds, EntTypeInv, TypeOK
    <3> QED BY <2>1, <3>1 DEF GoesOn, OpsInv
  <2>5. CASE EnforcerDrops
    <3>1. GoesOn(enforcer, enforcer')
      BY <2>5 DEF EnforcerDrops, GoesOn, EntTypeInv, TypeOK, Job
    <3> QED BY <2>1, <3>1 DEF GoesOn, OpsInv
  <2>6. CASE EnforcerDone
    BY <2>1, <2>6 DEF EnforcerDone, NoJob, OpsInv
  <2> QED BY <1>2, <2>2, <2>3, <2>4, <2>5, <2>6 DEF EnforcerNext
<1>3. CASE DailyNext \/ WorldNext \/ UNCHANGED vars
  <2>1. UNCHANGED <<admin, enforcer>>
    BY <1>3 DEF DailyNext, WorldNext, ReconcilerScans, ReconcilerSends, CleanerStarts,
                CleanerVisits, Refresh, Expire, QuotaMoves, GoOffline, GoOnline, Drift,
                jobVars, vars
  <2> QED BY <2>1 DEF OpsInv
<1> QED BY <1>1, <1>2, <1>3 DEF Next

\* An account gets a package only while it is there.
LEMMA GoneStays == ASSUME EntTypeInv, GoneInv, [Next]_vars PROVE GoneInv'
<1>1. ASSUME \A v \in Users : user'[v].status = "gone" =>
                \/ ~user'[v].package
                \/ user[v].status = "gone" /\ user'[v].package = user[v].package
      PROVE  GoneInv'
  BY <1>1 DEF GoneInv
<1>2. CASE EnforcerNext \/ DailyNext \/ WorldNext
  <2>1. \A v \in Users : user'[v].status = user[v].status
    BY <1>2, StatusStays
  <2>2. AccountsMove
    BY <1>2, HowAccountsMove
  <2>3. \A v \in Users : ~user'[v].package \/ user'[v].package = user[v].package
    BY <2>2, MovingKeeps
  <2> QED BY <1>1, <2>1, <2>3
<1>3. CASE AdminNext
  <2>1. ASSUME NEW u \in Users, Disable(u) \/ Enable(u) \/ Assign(u) PROVE GoneInv'
    <3>1. \/ \E x \in {"active", "disabled"} : user' = [user EXCEPT ![u].status = x]
          \/ user' = [user EXCEPT ![u].package = TRUE, ![u].expired = FALSE]
      BY <2>1 DEF Disable, Enable, Assign
    <3>2. user[u].status # "gone"
      BY <2>1 DEF Disable, Enable, Assign, Request
    <3>3. user'[u].status # "gone" /\ \A v \in Users \ {u} : user'[v] = user[v]
      BY <3>1, <3>2 DEF EntTypeInv, TypeOK, Account
    <3> QED BY <1>1, <3>3
  <2>2. ASSUME NEW u \in Users, Create(u) PROVE GoneInv'
    <3>1. user' = [user EXCEPT ![u] = Fresh]
      BY <2>2 DEF Create
    <3>2. ~user'[u].package /\ \A v \in Users \ {u} : user'[v] = user[v]
      BY <3>1 DEF Fresh, EntTypeInv, TypeOK
    <3> QED BY <1>1, <3>2
  <2>3. CASE AdminDone
    <3>1. \/ user' = user \/ user' = [user EXCEPT ![admin.who] = Bare(@)]
          \/ user' = [user EXCEPT ![admin.who] = Gone]
      BY <2>3 DEF AdminDone
    <3>2. \A v \in Users : ~user'[v].package \/ user'[v] = user[v]
      BY <3>1, AccountKeeps
    <3> QED BY <1>1, <3>2
  <2>4. CASE user' = user
    BY <1>1, <2>4
  <2> QED
    BY <1>3, <2>1, <2>2, <2>3, <2>4
       DEF AdminNext, TakeAway, AdminRemoves, AdminReserves, AdminAdds, AdminDrops
<1>4. CASE UNCHANGED vars
  BY <1>1, <1>4 DEF vars
<1> QED BY <1>2, <1>3, <1>4 DEF Next

\* Each step keeps what the jobs have read.
LEMMA TakenStep == ASSUME EntTypeInv, TakenInv, [Next]_vars PROVE TakenInv'
<1>1. HeldInv'
  <2>1. CASE UNCHANGED vars
    BY <2>1 DEF vars, TakenInv, HeldInv, HeldExpired
  <2> QED BY <2>1, AdminHolds, EnforcerHolds, OtherHolds DEF Next, TakenInv
<1> QED BY <1>1, CleanerKnows, DisabledStays, OpsStay, GoneStays DEF TakenInv

\* Initially no job has read anything.
LEMMA TakenInitially == Init => TakenInv
BY DEF Init, TakenInv, HeldInv, HeldExpired, KnownInv, DisabledInv, OpsInv, NoJob, NoSweep,
       GoneInv, Fresh

\* A client the admin's request removes is the admin's to take.
LEMMA AdminTakesClients ==
  ASSUME EntTypeInv, TakenInv, NEW s \in Servers, AdminRemoves(s)
  PROVE  ClientsTaken
<1>1. admin \in Job /\ About(admin)
  BY DEF EntTypeInv, TypeOK
<1>2. ASSUME NEW b \in clients \ clients', Entitled(b[1]) PROVE AdminTakes(b[1])
  <2>1. admin.op \in Removing /\ b = <<admin.who, s>>
    BY <1>1, <1>2, CallKeeps DEF AdminRemoves
  <2>2. admin.op # "disable"
    BY <1>2, <2>1 DEF TakenInv, DisabledInv, Entitled
  <2> QED BY <2>1, <2>2 DEF AdminTakes, Removing, TakenInv, OpsInv
<1> QED BY <1>2 DEF ClientsTaken

\* A client the enforcer removes is over its limit, expired or renewed.
LEMMA EnforcerTakesClients ==
  ASSUME EntTypeInv, TakenInv, NEW s \in Servers, EnforcerRemoves(s)
  PROVE  ClientsTaken
<1>1. enforcer \in Job /\ About(enforcer)
  BY DEF EntTypeInv, TypeOK
<1>2. ASSUME NEW b \in clients \ clients', Entitled(b[1]), ~user[b[1]].expired
      PROVE  \/ enforcer.op = "cutoff" /\ enforcer.who = b[1]
             \/ b[1] \in since.renewed
  <2>1. enforcer.op \in Removing /\ b = <<enforcer.who, s>>
    BY <1>1, <1>2, CallKeeps DEF EnforcerRemoves
  <2>2. CASE enforcer.op = "cutoff"
    BY <2>1, <2>2
  <2>3. CASE enforcer.op = "expiry"
    <3>1. b[1] \in Users /\ HeldExpired(b[1]) /\ user[b[1]].package
      BY <1>1, <1>2, <2>1, <2>3 DEF HeldExpired, About, Entitled
    <3> QED BY <1>2, <3>1 DEF TakenInv, HeldInv
  <2> QED BY <2>1, <2>2, <2>3 DEF Removing, TakenInv, OpsInv
<1> QED BY <1>2 DEF ClientsTaken

\* A client the cleaner removes has a name it does not know.
LEMMA CleanerTakesClients ==
  ASSUME EntTypeInv, TakenInv, NEW s \in Servers, CleanerVisits(s)
  PROVE  ClientsTaken
<1>1. ASSUME NEW b \in clients \ clients', Entitled(b[1]) PROVE b[1] \in since.created
  <2>1. cleaner.running /\ b[1] \notin cleaner.known
    BY <1>1 DEF CleanerVisits
  <2>2. b[1] \in Users /\ user[b[1]].status # "gone"
    BY <1>1 DEF Entitled, EntTypeInv, TypeOK, Bindings
  <2> QED BY <2>1, <2>2 DEF TakenInv, KnownInv
<1> QED BY <1>1 DEF ClientsTaken

\* No other step removes a client, but for what happens to an agent.
LEMMA ClientsTakenStep ==
  ASSUME EntTypeInv, TakenInv, [Next]_vars PROVE ClientsTaken
<1>1. CASE clients \subseteq clients'
  BY <1>1 DEF ClientsTaken
<1>2. CASE UNCHANGED jobVars
  BY <1>2 DEF ClientsTaken
<1>3. CASE AdminNext
  <2>1. ASSUME NEW s \in Servers, AdminReserves(s) \/ AdminAdds(s)
        PROVE  clients \subseteq clients'
    BY <2>1, CallKeeps DEF AdminReserves, AdminAdds, EntTypeInv, TypeOK
  <2>2. ASSUME NEW u \in Users,
               \/ Disable(u) \/ Enable(u) \/ Assign(u) \/ Create(u)
               \/ TakeAway(u, "unassign") \/ TakeAway(u, "delete")
        PROVE  clients' = clients
    BY <2>2 DEF Disable, Enable, Assign, Create, TakeAway
  <2>3. AdminDrops \/ AdminDone => clients' = clients
    BY DEF AdminDrops, AdminDone
  <2> QED BY <1>1, <1>3, <2>1, <2>2, <2>3, AdminTakesClients DEF AdminNext
<1>4. CASE EnforcerNext
  <2>1. ASSUME NEW s \in Servers, EnforcerReserves(s) \/ EnforcerAdds(s)
        PROVE  clients \subseteq clients'
    BY <2>1, CallKeeps DEF EnforcerReserves, EnforcerAdds, EntTypeInv, TypeOK
  <2>2. ASSUME NEW u \in Users, EnforcerVisits(u) PROVE clients' = clients
    BY <2>2 DEF EnforcerVisits
  <2>3. EnforcerLists \/ EnforcerDrops \/ EnforcerDone => clients' = clients
    BY DEF EnforcerLists, EnforcerDrops, EnforcerDone
  <2> QED BY <1>1, <1>4, <2>1, <2>2, <2>3, EnforcerTakesClients DEF EnforcerNext
<1>5. CASE DailyNext
  <2>1. ASSUME NEW b \in reconciler, ReconcilerSends(b) PROVE clients \subseteq clients'
    BY <2>1 DEF ReconcilerSends
  <2>2. ReconcilerScans \/ CleanerStarts => clients' = clients
    BY DEF ReconcilerScans, CleanerStarts
  <2>3. ASSUME NEW s \in Servers, Refresh(s) PROVE clients' = clients
    BY <2>3 DEF Refresh
  <2> QED BY <1>1, <1>5, <2>1, <2>2, <2>3, CleanerTakesClients DEF DailyNext
<1>6. CASE WorldNext
  BY <1>2, <1>6 DEF WorldNext, Expire, QuotaMoves, GoOffline, GoOnline, Drift
<1>7. CASE UNCHANGED vars
  BY <1>1, <1>7 DEF vars
<1> QED BY <1>3, <1>4, <1>5, <1>6, <1>7 DEF Next

\* A package is taken by the admin, or by the enforcer at the end of a visit.
LEMMA PackagesTakenStep ==
  ASSUME EntTypeInv, TakenInv, [Next]_vars PROVE PackagesTaken
<1>1. SUFFICES ASSUME NEW u \in Users, user[u].package, ~user[u].expired,
                      ~user'[u].package
               PROVE  AdminTakes(u) \/ u \in since.renewed
  BY DEF PackagesTaken
<1>2. user' # user
  BY <1>1
<1>3. CASE AdminNext
  <2>1. ASSUME NEW v \in Users, Disable(v) \/ Enable(v) \/ Assign(v) PROVE FALSE
    <3>1. \/ \E x \in {"active", "disabled"} : user' = [user EXCEPT ![v].status = x]
          \/ user' = [user EXCEPT ![v].package = TRUE, ![v].expired = FALSE]
      BY <2>1 DEF Disable, Enable, Assign
    <3> QED BY <1>1, <3>1 DEF EntTypeInv, TypeOK, Account
  <2>2. ASSUME NEW v \in Users, Create(v) PROVE FALSE
    <3>1. user' = [user EXCEPT ![v] = Fresh] /\ user[v].status = "gone"
      BY <2>2 DEF Create
    <3>2. v = u
      BY <1>1, <3>1 DEF EntTypeInv, TypeOK
    <3> QED BY <1>1, <3>1, <3>2 DEF TakenInv, GoneInv
  <2>3. CASE AdminDone
    <3> DEFINE w == admin.who
    <3>1. /\ admin.op \in {"unassign", "delete"}
          /\ user' = [user EXCEPT ![w] = Bare(@)] \/ user' = [user EXCEPT ![w] = Gone]
      BY <1>2, <2>3 DEF AdminDone
    <3>2. w = u
      BY <1>1, <3>1 DEF EntTypeInv, TypeOK
    <3> QED BY <3>1, <3>2 DEF AdminTakes
  <2> QED
    BY <1>2, <1>3, <2>1, <2>2, <2>3
       DEF AdminNext, TakeAway, AdminRemoves, AdminReserves, AdminAdds, AdminDrops
<1>4. CASE EnforcerNext
  <2>1. EnforcerDone
    BY <1>2, <1>4 DEF EnforcerNext, EnforcerLists, EnforcerVisits, EnforcerRemoves,
                      EnforcerReserves, EnforcerAdds, EnforcerDrops
  <2>2. AccountsMove
    BY <2>1, HowAccountsMove DEF EnforcerNext
  <2>3. enforcer.op = "expiry" /\ u = enforcer.who
    BY <1>1, <2>2, MovingKeeps
  <2> QED BY <1>1, <2>3 DEF TakenInv, HeldInv, HeldExpired
<1>5. CASE DailyNext \/ WorldNext
  <2>1. \E v \in Users : user' = [user EXCEPT ![v].expired = TRUE]
    BY <1>2, <1>5 DEF DailyNext, WorldNext, ReconcilerScans, ReconcilerSends,
                      CleanerStarts, CleanerVisits, Refresh, Expire, QuotaMoves,
                      GoOffline, GoOnline, Drift
  <2> QED BY <1>1, <2>1 DEF EntTypeInv, TypeOK, Account
<1>6. CASE UNCHANGED vars
  BY <1>2, <1>6 DEF vars
<1> QED BY <1>3, <1>4, <1>5, <1>6 DEF Next

\* Nobody who is entitled, and whose package runs, loses a client or the
\* package but for one of the reasons, whatever the order of the steps.
THEOREM TakenOnlyForAReason == Spec => TakenForAReason
<1>1. EntTypeInv /\ TakenInv /\ [Next]_vars => TakenInv'
  BY TakenStep
<1>2. EntTypeInv /\ TakenInv /\ [Next]_vars => [ClientsTaken /\ PackagesTaken]_vars
  BY ClientsTakenStep, PackagesTakenStep
<1> QED BY <1>1, <1>2, TakenInitially, TypesHold, PTL DEF Spec, TakenForAReason
=============================================================================
