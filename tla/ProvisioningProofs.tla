------------------------- MODULE ProvisioningProofs -------------------------
(***************************************************************************)
(* What a panel records of an agent and what the agent has, for any number *)
(* of workers, requests, goroutines, items and tags: a user's credential   *)
(* on an inbound is one client, the agent's file is what runs, and a lost  *)
(* configuration waits for a decision.  The three parts share no state;    *)
(* each has an inductive invariant of its own.                             *)
(***************************************************************************)
EXTENDS Credentials, ChildConfig, Snapshots, FiniteSetTheorems, TLAPS

-----------------------------------------------------------------------------
(* The credential of a user on an inbound *)

Inbounds == {NoInbound} \cup [proto : Protocols, clients : SUBSET Client]
Cred     == [secret : 1..MaxSecrets, mail : Mails, proto : Protocols]
CredRow  == [id : 1..MaxRows, proto : Protocols, secret : 1..MaxSecrets, mail : Mails]
Places   == {"idle", "fetch", "lock", "save", "send", "record", "remove", "drop"}
CredWork == [pc : Places, how : {"batch", "single"}, seen : Inbounds, cred : Cred \cup {NoCred}]

\* The types of all variables: who has decided has a credential, who waits for
\* the lock has read an inbound.
CredTyped ==
    /\ row \in CredRow \cup {NoRow} /\ {agent, cache} \subseteq Inbounds
    /\ lock \in Workers \cup {Nobody}
    /\ secrets \in 0..MaxSecrets /\ rows \in 0..MaxRows
    /\ excuse \subseteq {"race", "rebuild", "failure"}
    /\ worker \in [Workers -> CredWork]
    /\ \A w \in Workers :
          /\ worker[w].pc \in {"save", "send", "record", "remove"} => worker[w].cred \in Cred
          /\ worker[w].pc = "lock" => worker[w].seen # NoInbound
    /\ migrator \in [pc : {"due", "remove", "add", "update", "done"}, old : CredRow \cup {NoRow}]
    /\ migrator.pc \in {"remove", "add", "update"} => migrator.old \in CredRow
    /\ filler \in [pc : {"due", "save", "done"}, found : Cred \cup {NoCred}]
    /\ filler.pc = "save" => filler.found \in Cred

Calm == excuse \cap {"race", "rebuild"} = {}

\* The row's secret is the one of every client and of everyone at work.
SameSecret ==
    /\ agent # NoInbound
    /\ HasRow => row.proto = agent.proto
    /\ HasRow => \A c \in agent.clients : c.secret = row.secret
    /\ \A c, d \in agent.clients : c = d

\* A client that is older than the row was seen by everyone.
SeenBefore ==
    ~HasRow /\ agent.clients # {} =>
        /\ ByEmail(agent) = agent.clients
        /\ cache \in {agent, NoInbound}
        /\ \A w \in Workers :
              /\ worker[w].pc = "lock" => worker[w].seen = agent
              /\ worker[w].pc = "save" => worker[w].cred.secret \in Secrets(agent.clients)

SameProtocol ==
    /\ cache = NoInbound \/ cache.proto = agent.proto
    /\ \A w \in Workers : /\ worker[w].pc = "lock" => worker[w].seen.proto = agent.proto
                          /\ worker[w].pc = "save" => worker[w].cred.proto = agent.proto

AtWorkTogether ==
    \A w \in Workers :
        /\ worker[w].pc = "save" => lock = w /\ ~HasRow
        /\ worker[w].pc \in {"send", "record", "remove", "drop"} => HasRow
        /\ worker[w].pc \in {"send", "record", "remove"} => worker[w].cred.secret = row.secret
        /\ worker[w].pc = "drop" => agent.clients = {}
        /\ worker[w].pc \in {"remove", "drop"} => ~OthersAtWork(w)

OthersKeep ==
    /\ migrator.pc \in {"remove", "add", "update"} => migrator.old = row
    /\ filler.pc = "save" =>
          HasRow \/ (/\ filler.found.proto = agent.proto
                     /\ filler.found.secret \in Secrets(agent.clients))

CalmInv == Calm => SameSecret /\ SeenBefore /\ SameProtocol /\ AtWorkTogether /\ OthersKeep

\* A row without its client is being served, or taken away.
ServedInv ==
    HasRow /\ excuse = {} =>
        \/ row.secret \in Secrets(agent.clients)
        \/ \E w \in Workers : worker[w].pc \in {"fetch", "lock", "save", "send", "drop"}
        \/ migrator.pc = "add"

\* One worker moves: where it is then, what it has read and what it has decided.
Becomes(w, pc, seen, cred) ==
    /\ worker'[w].pc = pc /\ worker'[w].seen = seen /\ worker'[w].cred = cred
    /\ \A v \in Workers : v # w => worker'[v] = worker[v]
    /\ worker' \in [Workers -> CredWork]

-----------------------------------------------------------------------------
(* Types *)

LEMMA NothingIsNothing ==
    /\ NoInbound \in Inbounds /\ NoInbound.clients = {} /\ NoInbound.proto = NoProto
    /\ NoRow.id = 0 /\ NoRow \notin CredRow /\ NoCred.secret = 0 /\ NoCred \notin Cred
    /\ Resting \in CredWork /\ Resting.pc = "idle"
    /\ \A i \in Inbounds : /\ i.clients \subseteq Client
                           /\ i # NoInbound => i.proto \in Protocols
<1>1. NoInbound \in Inbounds /\ NoInbound.clients = {} /\ NoInbound.proto = NoProto
  BY DEF NoInbound, Inbounds
<1>2. NoRow.id = 0 /\ NoRow \notin CredRow /\ NoCred.secret = 0 /\ NoCred \notin Cred
  BY DEF NoRow, CredRow, NoCred, Cred
<1>3. Resting \in CredWork /\ Resting.pc = "idle"
  BY <1>1 DEF Resting, CredWork, Places
<1>4. ASSUME NEW i \in Inbounds
      PROVE  /\ i.clients \subseteq Client
             /\ i # NoInbound => i.proto \in Protocols
  BY <1>1 DEF Inbounds
<1> QED BY <1>1, <1>2, <1>3, <1>4

\* The row that is read and the credential that is sent.
LEMMA CredOfRow ==
    ASSUME NEW r \in CredRow
    PROVE  /\ CredOf(r) \in Cred /\ CredOf(r).secret = r.secret /\ CredOf(r).proto = r.proto
           /\ NewForm(r) \in Cred /\ NewForm(r).secret = r.secret /\ NewForm(r).proto = r.proto
           /\ r # NoRow
BY NothingIsNothing DEF CredRow, Cred, CredOf, NewForm, Mails

\* What the agent makes of an inbound.
LEMMA AddedTo ==
    ASSUME NEW i \in Inbounds, NEW cred \in Cred, i.proto = cred.proto
    PROVE  LET j == [i EXCEPT !.clients = Added(@, cred)]
           IN  /\ j \in Inbounds /\ j # NoInbound /\ j.proto = i.proto
               /\ j.clients = Added(i.clients, cred)
               /\ cred.secret \in Secrets(j.clients)
<1> DEFINE j == [i EXCEPT !.clients = Added(@, cred)]
<1>1. AsClient(cred) \in Client /\ AsClient(cred).secret = cred.secret
  BY DEF AsClient, Cred, Client
<1>2. i \in [proto : Protocols, clients : SUBSET Client]
  BY CredentialAssumption, NothingIsNothing DEF Inbounds, Cred
<1>3. Added(i.clients, cred) \in SUBSET Client
  BY <1>1, <1>2 DEF Added
<1>4. j \in [proto : Protocols, clients : SUBSET Client]
      /\ j.proto = i.proto /\ j.clients = Added(i.clients, cred)
  BY <1>2, <1>3
<1>5. cred.secret \in Secrets(Added(i.clients, cred))
  BY <1>1 DEF Added, Secrets
<1>6. j # NoInbound
  BY <1>4, CredentialAssumption, NothingIsNothing
<1> QED BY <1>4, <1>5, <1>6 DEF Inbounds

LEMMA RemovedFrom ==
    ASSUME NEW i \in Inbounds, NEW secret
    PROVE  LET j == [i EXCEPT !.clients = Without(@, secret)]
           IN  /\ j \in Inbounds /\ j.proto = i.proto
               /\ j.clients = Without(i.clients, secret)
               /\ i # NoInbound => j # NoInbound
<1> DEFINE j == [i EXCEPT !.clients = Without(@, secret)]
<1>1. CASE i = NoInbound
  BY <1>1 DEF NoInbound, Without, Inbounds
<1>2. CASE i \in [proto : Protocols, clients : SUBSET Client]
  <2>1. Without(i.clients, secret) \in SUBSET Client
    BY <1>2 DEF Without
  <2>2. j \in [proto : Protocols, clients : SUBSET Client]
        /\ j.proto = i.proto /\ j.clients = Without(i.clients, secret)
    BY <1>2, <2>1
  <2>3. j # NoInbound
    BY <2>2, CredentialAssumption, NothingIsNothing
  <2> QED BY <2>2, <2>3 DEF Inbounds
<1> QED BY <1>1, <1>2 DEF Inbounds

-----------------------------------------------------------------------------
(* Moves of a worker *)

LEMMA OneWorkerMoves ==
    ASSUME CredTyped, NEW w \in Workers, NEW r \in CredWork,
           worker' = [worker EXCEPT ![w] = r]
    PROVE  Becomes(w, r.pc, r.seen, r.cred)
BY DEF CredTyped, Becomes

LEMMA WorkerSteps ==
    ASSUME CredTyped, NEW w \in Workers, NEW pc \in Places, Step(w, pc)
    PROVE  Becomes(w, pc, worker[w].seen, worker[w].cred)
<1> DEFINE r == [worker[w] EXCEPT !.pc = pc]
<1>1. worker[w] \in CredWork /\ worker' = [worker EXCEPT ![w] = r]
  BY DEF CredTyped, Step
<1>2. r \in CredWork /\ r.pc = pc /\ r.seen = worker[w].seen /\ r.cred = worker[w].cred
  BY <1>1 DEF CredWork
<1> HIDE DEF r
<1> QED BY <1>1, <1>2, OneWorkerMoves

LEMMA WorkerDecides ==
    ASSUME CredTyped, NEW w \in Workers, NEW pc \in Places, NEW cred \in Cred, With(w, pc, cred)
    PROVE  Becomes(w, pc, worker[w].seen, cred)
<1> DEFINE r == [worker[w] EXCEPT !.pc = pc, !.cred = cred]
<1>1. worker[w] \in CredWork /\ worker' = [worker EXCEPT ![w] = r]
  BY DEF CredTyped, With
<1>2. r \in CredWork /\ r.pc = pc /\ r.seen = worker[w].seen /\ r.cred = cred
  BY <1>1 DEF CredWork
<1> HIDE DEF r
<1> QED BY <1>1, <1>2, OneWorkerMoves

LEMMA WorkerReads ==
    ASSUME CredTyped, NEW w \in Workers, NEW seen \in Inbounds,
           worker' = [worker EXCEPT ![w].pc = "lock", ![w].seen = seen]
    PROVE  Becomes(w, "lock", seen, worker[w].cred)
<1> DEFINE r == [worker[w] EXCEPT !.pc = "lock", !.seen = seen]
<1>1. worker[w] \in CredWork /\ worker' = [worker EXCEPT ![w] = r]
  BY DEF CredTyped
<1>2. r \in CredWork /\ r.pc = "lock" /\ r.seen = seen /\ r.cred = worker[w].cred
  BY <1>1 DEF CredWork, Places
<1> HIDE DEF r
<1> QED BY <1>1, <1>2, OneWorkerMoves

LEMMA WorkerRests ==
    ASSUME CredTyped, NEW w \in Workers, Rest(w)
    PROVE  Becomes(w, "idle", NoInbound, NoCred)
BY OneWorkerMoves, NothingIsNothing DEF Rest, Resting

\* Where a worker that looks first for the user goes.
LEMMA CollectBecomes ==
    ASSUME CredTyped, NEW w \in Workers, Collect(w)
    PROVE  \/ Becomes(w, "fetch", worker[w].seen, worker[w].cred)
           \/ UNCHANGED worker
           \/ row \in CredRow /\ Becomes(w, "send", worker[w].seen, CredOf(row))
           \/ cache # NoInbound /\ Becomes(w, "lock", cache, worker[w].cred)
<1>1. CASE cache = NoInbound
  <2> DEFINE r == [worker[w] EXCEPT !.pc = "fetch", !.how = "single"]
  <2>1. worker[w] \in CredWork /\ worker' = [worker EXCEPT ![w] = r]
    BY <1>1 DEF CredTyped, Collect
  <2>2. r \in CredWork /\ r.pc = "fetch" /\ r.seen = worker[w].seen /\ r.cred = worker[w].cred
    BY <2>1 DEF CredWork, Places
  <2> HIDE DEF r
  <2> QED BY <2>1, <2>2, OneWorkerMoves
<1>2. CASE cache # NoInbound /\ HasRow /\ row.proto = cache.proto
  <2>1. row \in CredRow
    BY <1>2 DEF HasRow, CredTyped
  <2>2. UNCHANGED worker \/ With(w, "send", CredOf(row))
    BY <1>2 DEF Collect
  <2> QED BY <2>1, <2>2, CredOfRow, WorkerDecides DEF Places
<1>3. CASE cache # NoInbound /\ ~(HasRow /\ row.proto = cache.proto)
  <2>1. worker' = [worker EXCEPT ![w].pc = "lock", ![w].seen = cache]
    BY <1>3 DEF Collect
  <2>2. cache \in Inbounds
    BY DEF CredTyped
  <2> QED BY <1>3, <2>1, <2>2, WorkerReads
<1> QED BY <1>1, <1>2, <1>3

LEMMA FetchBecomes ==
    ASSUME CredTyped, NEW w \in Workers, Fetch(w)
    PROVE  \/ agent # NoInbound /\ Becomes(w, "lock", agent, worker[w].cred) /\ UNCHANGED excuse
           \/ /\ Becomes(w, "idle", NoInbound, NoCred)
              /\ excuse' = excuse \cup {"failure"}
BY WorkerReads, WorkerRests DEF Fetch, CredTyped

\* What a worker decides under the lock.
LEMMA DecideBecomes ==
    ASSUME CredTyped, NEW w \in Workers, Decide(w)
    PROVE  \/ /\ row \in CredRow /\ Becomes(w, "send", worker[w].seen, CredOf(row))
              /\ UNCHANGED <<lock, secrets>>
           \/ /\ ~(HasRow /\ row.proto = worker[w].seen.proto)
              /\ lock' = w
              /\ \E cred \in Cred :
                    /\ Becomes(w, "save", worker[w].seen, cred)
                    /\ cred.proto = worker[w].seen.proto
                    /\ \/ UNCHANGED secrets /\ \E c \in ByEmail(worker[w].seen) :
                                                    c.secret = cred.secret
                       \/ secrets' \in 0..MaxSecrets /\ ByEmail(worker[w].seen) = {}
<1> DEFINE inbound == worker[w].seen
<1>1. inbound \in Inbounds /\ inbound # NoInbound
  BY DEF CredTyped, CredWork, Decide
<1>2. inbound.proto \in Protocols /\ inbound.clients \subseteq Client
  BY <1>1, NothingIsNothing
<1>3. CASE HasRow /\ row.proto = inbound.proto
  <2>1. row \in CredRow
    BY <1>3 DEF HasRow, CredTyped
  <2>2. With(w, "send", CredOf(row)) /\ UNCHANGED <<lock, secrets>>
    BY <1>3 DEF Decide
  <2> QED BY <2>1, <2>2, CredOfRow, WorkerDecides DEF Places
<1>4. CASE ~(HasRow /\ row.proto = inbound.proto) /\ ByEmail(inbound) # {}
  <2>1. PICK c \in ByEmail(inbound) :
           With(w, "save", [secret |-> c.secret, mail |-> c.mail, proto |-> inbound.proto])
    BY <1>4 DEF Decide
  <2> DEFINE cred == [secret |-> c.secret, mail |-> c.mail, proto |-> inbound.proto]
  <2>2. c \in Client
    BY <1>2 DEF ByEmail
  <2>3. cred \in Cred /\ cred.secret = c.secret /\ cred.proto = inbound.proto
    BY <1>2, <2>2 DEF Cred, Client
  <2>4. Becomes(w, "save", worker[w].seen, cred)
    BY <2>1, <2>3, WorkerDecides DEF Places
  <2>5. lock' = w /\ UNCHANGED secrets
    BY <1>4 DEF Decide
  <2> HIDE DEF cred
  <2> QED BY <1>4, <2>3, <2>4, <2>5
<1>5. CASE ~(HasRow /\ row.proto = inbound.proto) /\ ByEmail(inbound) = {}
  <2> DEFINE cred == [secret |-> secrets + 1, mail |-> "new", proto |-> inbound.proto]
  <2>1. With(w, "save", cred) /\ lock' = w /\ secrets' = secrets + 1 /\ secrets < MaxSecrets
    BY <1>5 DEF Decide
  <2>2. secrets + 1 \in 1..MaxSecrets
    BY <2>1, CredentialAssumption DEF CredTyped
  <2>3. cred \in Cred /\ cred.proto = inbound.proto
    BY <1>2, <2>2 DEF Cred, Mails
  <2>4. Becomes(w, "save", worker[w].seen, cred)
    BY <2>1, <2>3, WorkerDecides DEF Places
  <2> HIDE DEF cred
  <2> QED BY <1>5, <2>1, <2>2, <2>3, <2>4
<1> QED BY <1>3, <1>4, <1>5

\* Sending goes on to the second save, to another try, or to rest.
LEMMA SendBecomes ==
    ASSUME CredTyped, NEW w \in Workers, SendAdd(w) \/ AddFails(w)
    PROVE  \/ SendAdd(w) /\ \E pc \in {"record", "idle"} : \E seen, cred :
                 /\ Becomes(w, pc, seen, cred)
                 /\ pc = "record" => cred = worker[w].cred
           \/ AddFails(w) /\ \E pc \in {"fetch", "idle"} : \E seen, cred :
                 /\ Becomes(w, pc, seen, cred)
                 /\ pc = "idle" => excuse' = excuse \cup {"failure"}
                 /\ pc = "fetch" => UNCHANGED excuse
<1>1. CASE SendAdd(w)
  <2>1. Step(w, "record") \/ Rest(w)
    BY <1>1 DEF SendAdd
  <2> QED BY <1>1, <2>1, WorkerSteps, WorkerRests DEF Places
<1>2. CASE AddFails(w) /\ worker[w].how = "batch"
  <2> DEFINE r == [Resting EXCEPT !.pc = "fetch", !.how = "single"]
  <2>1. worker' = [worker EXCEPT ![w] = r] /\ UNCHANGED excuse
    BY <1>2 DEF AddFails
  <2>2. r \in CredWork /\ r.pc = "fetch"
    BY NothingIsNothing DEF Resting, CredWork, Places
  <2> HIDE DEF r
  <2> QED BY <1>2, <2>1, <2>2, OneWorkerMoves
<1>3. CASE AddFails(w) /\ worker[w].how # "batch"
  <2>1. Rest(w) /\ excuse' = excuse \cup {"failure"}
    BY <1>3 DEF AddFails
  <2> QED BY <1>3, <2>1, WorkerRests
<1> QED BY <1>1, <1>2, <1>3

\* What a worker may become keeps the types of the workers.
LEMMA BecomesTyped ==
    ASSUME CredTyped, NEW w \in Workers, NEW pc, NEW seen, NEW cred,
           Becomes(w, pc, seen, cred),
           pc \in {"save", "send", "record", "remove"} => cred \in Cred,
           pc = "lock" => seen # NoInbound
    PROVE  /\ worker' \in [Workers -> CredWork]
           /\ \A v \in Workers :
                 /\ worker'[v].pc \in {"save", "send", "record", "remove"} => worker'[v].cred \in Cred
                 /\ worker'[v].pc = "lock" => worker'[v].seen # NoInbound
BY DEF CredTyped, Becomes

LEMMA SavedTyped ==
    ASSUME CredTyped, NEW cred \in Cred, Save(cred)
    PROVE  row' \in CredRow /\ rows' \in 0..MaxRows
<1>1. rows + 1 \in 1..MaxRows
  BY CredentialAssumption DEF CredTyped, Save
<1>2. CASE HasRow
  BY <1>2 DEF HasRow, CredTyped, Save, Saved
<1>3. CASE ~HasRow
  BY <1>1, <1>3 DEF CredTyped, Save, Saved, Cred, CredRow
<1> QED BY <1>2, <1>3

LEMMA CredTypeStep == CredTyped /\ [CredNext]_credVars => CredTyped'
<1> SUFFICES ASSUME CredTyped, [CredNext]_credVars
             PROVE  CredTyped'
  OBVIOUS
<1> DEFINE WorkersTyped ==
        /\ worker' \in [Workers -> CredWork]
        /\ \A v \in Workers :
              /\ worker'[v].pc \in {"save", "send", "record", "remove"} => worker'[v].cred \in Cred
              /\ worker'[v].pc = "lock" => worker'[v].seen # NoInbound
<1>0. /\ UNCHANGED worker => WorkersTyped
      /\ \A S \in SUBSET {"race", "rebuild", "failure"} :
            excuse' = excuse \cup S => excuse' \subseteq {"race", "rebuild", "failure"}
  BY DEF CredTyped
<1>1. ASSUME NEW w \in Workers, Collect(w) PROVE CredTyped'
  <2>1. WorkersTyped
    BY <1>0, <1>1, CollectBecomes, BecomesTyped, CredOfRow
  <2>2. excuse' \subseteq {"race", "rebuild", "failure"}
    BY <1>1 DEF Collect, Raced, CredTyped
  <2> QED BY <1>1, <2>1, <2>2 DEF Collect, CredTyped
<1>2. ASSUME NEW w \in Workers, Fetch(w) PROVE CredTyped'
  <2>1. WorkersTyped
    BY <1>2, FetchBecomes, BecomesTyped
  <2>2. excuse' \subseteq {"race", "rebuild", "failure"}
    BY <1>0, <1>2 DEF Fetch, CredTyped
  <2> QED BY <1>2, <2>1, <2>2 DEF Fetch, CredTyped
<1>3. ASSUME NEW w \in Workers, Decide(w) PROVE CredTyped'
  <2>1. WorkersTyped
    BY <1>3, DecideBecomes, BecomesTyped, CredOfRow
  <2>2. lock' \in Workers \cup {Nobody} /\ secrets' \in 0..MaxSecrets
    BY <1>3, DecideBecomes DEF CredTyped
  <2> QED BY <1>3, <2>1, <2>2 DEF Decide, CredTyped
<1>4. ASSUME NEW w \in Workers, SaveAndUnlock(w) PROVE CredTyped'
  <2>1. worker[w].cred \in Cred
    BY <1>4 DEF SaveAndUnlock, CredTyped
  <2>2. Becomes(w, "send", worker[w].seen, worker[w].cred)
    BY <1>4, WorkerSteps DEF SaveAndUnlock, Places
  <2>3. WorkersTyped
    BY <2>1, <2>2, BecomesTyped
  <2>4. row' \in CredRow /\ rows' \in 0..MaxRows
    BY <1>4, <2>1, SavedTyped DEF SaveAndUnlock
  <2> QED BY <1>4, <2>3, <2>4 DEF SaveAndUnlock, CredTyped
<1>5. ASSUME NEW w \in Workers, SendAdd(w) \/ AddFails(w) PROVE CredTyped'
  <2>1. worker[w].cred \in Cred
    BY <1>5 DEF SendAdd, AddFails, CredTyped
  <2>2. WorkersTyped
    BY <1>5, <2>1, SendBecomes, BecomesTyped
  <2>3. agent' \in Inbounds
    BY <1>5, <2>1, AddedTo DEF SendAdd, AddFails, CredTyped
  <2>4. excuse' \subseteq {"race", "rebuild", "failure"}
    BY <1>0, <1>5 DEF SendAdd, AddFails, CredTyped
  <2> QED BY <1>5, <2>2, <2>3, <2>4 DEF SendAdd, AddFails, CredTyped
<1>6. ASSUME NEW w \in Workers, Record(w) PROVE CredTyped'
  <2>1. row' \in CredRow /\ rows' \in 0..MaxRows
    BY <1>6, SavedTyped DEF Record, CredTyped
  <2>2. WorkersTyped
    BY <1>6, WorkerRests, BecomesTyped DEF Record
  <2> QED BY <1>6, <2>1, <2>2 DEF Record, CredTyped
<1>7. ASSUME NEW w \in Workers, StartRemove(w) PROVE CredTyped'
  <2>1. row \in CredRow
    BY <1>7 DEF StartRemove, HasRow, CredTyped
  <2>2. WorkersTyped
    BY <1>7, <2>1, CredOfRow, WorkerDecides, BecomesTyped DEF StartRemove, Places
  <2>3. excuse' \subseteq {"race", "rebuild", "failure"}
    BY <1>7 DEF StartRemove, Raced, CredTyped
  <2> QED BY <1>7, <2>2, <2>3 DEF StartRemove, CredTyped
<1>8. ASSUME NEW w \in Workers, SendRemove(w) PROVE CredTyped'
  <2>1. WorkersTyped
    BY <1>8, WorkerSteps, WorkerRests, BecomesTyped DEF SendRemove, Places
  <2>2. agent' \in Inbounds
    BY <1>8, RemovedFrom DEF SendRemove, CredTyped
  <2>3. excuse' \subseteq {"race", "rebuild", "failure"}
    BY <1>0, <1>8 DEF SendRemove, CredTyped
  <2> QED BY <1>8, <2>1, <2>2, <2>3 DEF SendRemove, CredTyped
<1>9. ASSUME NEW w \in Workers, DropRow(w) PROVE CredTyped'
  <2>1. WorkersTyped
    BY <1>9, WorkerRests, BecomesTyped DEF DropRow
  <2> QED BY <1>9, <2>1 DEF DropRow, CredTyped
<1>10. CASE Rebuild
  <2>1. agent' \in Inbounds
    BY <1>10 DEF Rebuild, Inbounds, NoInbound
  <2>2. excuse' \subseteq {"race", "rebuild", "failure"}
    BY <1>0, <1>10 DEF Rebuild
  <2> QED BY <1>10, <2>1, <2>2 DEF Rebuild, CredTyped
<1>11. CASE CacheChanges
  BY <1>11, NothingIsNothing DEF CacheChanges, Refresh, Forget, CredTyped
<1>12. CASE MigratorLists
  <2>1. row \in CredRow
    BY <1>12 DEF MigratorLists, NoRow, CredTyped
  <2>2. excuse' \subseteq {"race", "rebuild", "failure"}
    BY <1>12 DEF MigratorLists, Raced, CredTyped
  <2> QED BY <1>12, <2>1, <2>2 DEF MigratorLists, CredTyped
<1>13. CASE MigratorRemoves
  <2>1. agent' \in Inbounds
    BY <1>13, RemovedFrom DEF MigratorRemoves, CredTyped
  <2>2. excuse' \subseteq {"race", "rebuild", "failure"}
    BY <1>0, <1>13 DEF MigratorRemoves, CredTyped
  <2> QED BY <1>13, <2>1, <2>2 DEF MigratorRemoves, CredTyped
<1>14. CASE MigratorAdds
  <2>1. migrator.old \in CredRow
    BY <1>14 DEF MigratorAdds, CredTyped
  <2>2. agent' \in Inbounds
    BY <1>14, <2>1, CredOfRow, AddedTo DEF MigratorAdds, CredTyped
  <2>3. excuse' \subseteq {"race", "rebuild", "failure"}
    BY <1>0, <1>14 DEF MigratorAdds, CredTyped
  <2> QED BY <1>14, <2>1, <2>2, <2>3 DEF MigratorAdds, CredTyped
<1>15. CASE MigratorUpdates
  <2>1. row' \in CredRow \cup {NoRow}
    <3>1. row.id = migrator.old.id => row \in CredRow
      BY <1>15, NothingIsNothing DEF MigratorUpdates, CredTyped, CredRow
    <3>2. row \in CredRow => [row EXCEPT !.mail = "new"] \in CredRow
      BY DEF CredRow, Mails
    <3> QED BY <1>15, <3>1, <3>2 DEF MigratorUpdates, CredTyped
  <2> QED BY <1>15, <2>1 DEF MigratorUpdates, CredTyped
<1>16. CASE FillerLists
  <2>1. filler' \in [pc : {"due", "save", "done"}, found : Cred] /\ filler'.found \in Cred
    <3>1. PICK c \in cache.clients :
             filler' = [pc |-> "save", found |-> [secret |-> c.secret, mail |-> c.mail,
                                                  proto |-> cache.proto]]
      BY <1>16 DEF FillerLists
    <3>2. c \in Client /\ cache.proto \in Protocols
      BY NothingIsNothing DEF CredTyped
    <3> QED BY <3>1, <3>2 DEF Client, Cred
  <2>2. excuse' \subseteq {"race", "rebuild", "failure"}
    BY <1>16 DEF FillerLists, Raced, CredTyped
  <2> QED BY <1>16, <2>1, <2>2 DEF FillerLists, CredTyped
<1>17. CASE FillerSaves
  <2>1. row' \in CredRow /\ rows' \in 0..MaxRows
    BY <1>17, SavedTyped DEF FillerSaves, CredTyped
  <2>2. excuse' \subseteq {"race", "rebuild", "failure"}
    BY <1>17 DEF FillerSaves, Raced, CredTyped
  <2> QED BY <1>17, <2>1, <2>2 DEF FillerSaves, CredTyped
<1>18. CASE UNCHANGED credVars
  BY <1>18 DEF credVars, CredTyped
<1> QED BY <1>1, <1>2, <1>3, <1>4, <1>5, <1>6, <1>7, <1>8, <1>9, <1>10, <1>11, <1>12, <1>13,
           <1>14, <1>15, <1>16, <1>17, <1>18 DEF CredNext

-----------------------------------------------------------------------------
(* While nobody raced *)

LEMMA ExcusesGrow == CredTyped /\ [CredNext]_credVars => excuse \subseteq excuse'
BY DEF CredNext, credVars, Collect, Fetch, Decide, SaveAndUnlock, SendAdd, AddFails, Record,
       StartRemove, SendRemove, DropRow, Rebuild, CacheChanges, MigratorLists, MigratorRemoves,
       MigratorAdds, MigratorUpdates, FillerLists, FillerSaves, Raced

\* Who is at work keeps everyone else from being in the middle of a removal.
LEMMA NobodyRemoves ==
    ASSUME AtWorkTogether, NEW w \in Workers, worker[w].pc # "idle"
    PROVE  \A v \in Workers : v # w => worker[v].pc \notin {"remove", "drop"}
BY DEF AtWorkTogether, OthersAtWork

\* A client with the secret the others have is the only one, or is not added.
LEMMA OneAdded ==
    ASSUME NEW i \in Inbounds, NEW cred \in Cred, i.proto = cred.proto,
           \A c, d \in i.clients : c = d, \A c \in i.clients : c.secret = cred.secret
    PROVE  LET j == [i EXCEPT !.clients = Added(@, cred)]
           IN  /\ j \in Inbounds /\ j # NoInbound /\ j.proto = i.proto
               /\ \A c, d \in j.clients : c = d
               /\ \A c \in j.clients : c.secret = cred.secret
<1> DEFINE j == [i EXCEPT !.clients = Added(@, cred)]
<1>1. /\ j \in Inbounds /\ j # NoInbound /\ j.proto = i.proto
      /\ j.clients = Added(i.clients, cred)
  BY AddedTo
<1>2. AsClient(cred).secret = cred.secret
  BY DEF AsClient
<1>3. CASE i.clients = {}
  <2>1. Added(i.clients, cred) = {AsClient(cred)}
    BY <1>3 DEF Added, Secrets
  <2> QED BY <1>1, <1>2, <2>1
<1>4. CASE i.clients # {}
  <2>1. Added(i.clients, cred) = i.clients
    BY <1>4 DEF Added, Secrets
  <2> QED BY <1>1, <2>1
<1> QED BY <1>3, <1>4

\* The row and the copy are as they were, and the agent has a client of the
\* same secret at most: what else there is to show of a step.
LEMMA CalmStep == CredTyped /\ CalmInv /\ [CredNext]_credVars => CalmInv'
<1> SUFFICES ASSUME CredTyped, CalmInv, [CredNext]_credVars, Calm'
             PROVE  (SameSecret /\ SeenBefore /\ SameProtocol /\ AtWorkTogether /\ OthersKeep)'
  BY DEF CalmInv
<1>0. Calm /\ SameSecret /\ SeenBefore /\ SameProtocol /\ AtWorkTogether /\ OthersKeep
  BY ExcusesGrow DEF CalmInv, Calm
<1> DEFINE Goal == (SameSecret /\ SeenBefore /\ SameProtocol /\ AtWorkTogether /\ OthersKeep)'
<1>1. ASSUME NEW w \in Workers, Collect(w) PROVE Goal
  <2>1. /\ UNCHANGED <<row, agent, cache, lock, migrator, filler>>
        /\ \A v \in Workers : v # w => worker[v].pc \notin {"remove", "drop"}
        /\ worker[w].pc = "idle"
    BY <1>1 DEF Collect, Raced, Calm
  <2>2. \/ \E pc \in {"fetch", "idle"} : worker'[w].pc = pc
        \/ /\ worker'[w].pc = "send" /\ row \in CredRow /\ worker'[w].cred = CredOf(row)
        \/ /\ worker'[w].pc = "lock" /\ worker'[w].seen = cache /\ cache # NoInbound
    BY <1>1, <2>1, CollectBecomes DEF Becomes
  <2>3. \A v \in Workers : v # w => worker'[v] = worker[v]
    BY <1>1, CollectBecomes DEF Becomes
  <2>4. SameSecret'
    BY <1>0, <2>1 DEF SameSecret, HasRow
  <2>5. SeenBefore'
    BY <1>0, <2>1, <2>2, <2>3 DEF SeenBefore, HasRow
  <2>6. SameProtocol'
    BY <1>0, <2>1, <2>2, <2>3 DEF SameProtocol
  <2>7. AtWorkTogether'
    BY <1>0, <2>1, <2>2, <2>3, CredOfRow DEF AtWorkTogether, HasRow
  <2>8. OthersKeep'
    BY <1>0, <2>1 DEF OthersKeep, HasRow
  <2> QED BY <2>4, <2>5, <2>6, <2>7, <2>8
<1>2. ASSUME NEW w \in Workers, Fetch(w) PROVE Goal
  <2>1. /\ UNCHANGED <<row, agent, cache, lock, migrator, filler>>
        /\ \A v \in Workers : v # w => worker[v].pc \notin {"remove", "drop"}
    BY <1>0, <1>2, NobodyRemoves DEF Fetch
  <2>2. /\ \/ worker'[w].pc = "idle"
           \/ worker'[w].pc = "lock" /\ worker'[w].seen = agent
        /\ \A v \in Workers : v # w => worker'[v] = worker[v]
    BY <1>2, FetchBecomes DEF Becomes
  <2>3. SameSecret' /\ OthersKeep'
    BY <1>0, <2>1 DEF SameSecret, OthersKeep, HasRow
  <2>4. SeenBefore'
    BY <1>0, <2>1, <2>2 DEF SeenBefore, HasRow
  <2>5. SameProtocol'
    BY <1>0, <2>1, <2>2 DEF SameProtocol
  <2>6. AtWorkTogether'
    BY <1>0, <2>1, <2>2 DEF AtWorkTogether, HasRow
  <2> QED BY <2>3, <2>4, <2>5, <2>6
<1>3. ASSUME NEW w \in Workers, Decide(w) PROVE Goal
  <2>1. /\ UNCHANGED <<row, agent, cache, migrator, filler>>
        /\ \A v \in Workers : v # w => worker[v].pc \notin {"remove", "drop"}
        /\ lock = Nobody /\ worker[w].pc = "lock"
        /\ worker[w].seen.proto = agent.proto
    BY <1>0, <1>3, NobodyRemoves DEF Decide, SameProtocol
  <2>2. \A v \in Workers : v # w => worker'[v] = worker[v]
    BY <1>3, DecideBecomes DEF Becomes
  <2>3. \/ /\ row \in CredRow /\ worker'[w].pc = "send" /\ worker'[w].cred = CredOf(row)
           /\ lock' = lock
        \/ /\ ~HasRow /\ lock' = w /\ worker'[w].pc = "save"
           /\ worker'[w].cred.proto = agent.proto
           /\ \/ \E c \in ByEmail(worker[w].seen) : c.secret = worker'[w].cred.secret
              \/ ByEmail(worker[w].seen) = {}
    BY <1>0, <1>3, <2>1, DecideBecomes DEF Becomes, SameSecret
  <2>4. SameSecret' /\ OthersKeep'
    BY <1>0, <2>1 DEF SameSecret, OthersKeep, HasRow
  <2>5. SeenBefore'
    <3>1. ~HasRow /\ agent.clients # {} => worker[w].seen = agent /\ ByEmail(agent) = agent.clients
      BY <1>0, <2>1 DEF SeenBefore
    <3>2. ~HasRow /\ agent.clients # {} /\ worker'[w].pc = "save"
             => worker'[w].cred.secret \in Secrets(agent.clients)
      BY <2>3, <3>1 DEF Secrets
    <3> QED BY <1>0, <2>1, <2>2, <2>3, <3>2 DEF SeenBefore, HasRow
  <2>6. SameProtocol'
    BY <1>0, <2>1, <2>2, <2>3 DEF SameProtocol
  <2>7. AtWorkTogether'
    BY <1>0, <2>1, <2>2, <2>3, CredOfRow, CredentialAssumption DEF AtWorkTogether, HasRow
  <2> QED BY <2>4, <2>5, <2>6, <2>7
<1>4. ASSUME NEW w \in Workers, SaveAndUnlock(w) PROVE Goal
  <2>1. /\ ~HasRow /\ lock = w /\ worker[w].pc = "save" /\ worker[w].cred.proto = agent.proto
        /\ worker[w].cred \in Cred
        /\ UNCHANGED <<agent, cache, migrator, filler>>
    BY <1>0, <1>4 DEF SaveAndUnlock, AtWorkTogether, SameProtocol, CredTyped
  <2>2. /\ row' \in CredRow /\ row'.proto = agent.proto /\ row'.secret = worker[w].cred.secret
    BY <1>4, <2>1, SavedTyped DEF SaveAndUnlock, Save, Saved
  <2>3. Becomes(w, "send", worker[w].seen, worker[w].cred)
    BY <1>4, WorkerSteps DEF SaveAndUnlock, Places
  <2>4. HasRow'
    BY <2>2, NothingIsNothing DEF HasRow
  <2>5. \A c \in agent.clients : c.secret = worker[w].cred.secret
    BY <1>0, <2>1 DEF SameSecret, SeenBefore, Secrets
  <2>6. SameSecret'
    BY <1>0, <2>1, <2>2, <2>5 DEF SameSecret
  <2>7. SeenBefore'
    BY <2>4 DEF SeenBefore
  <2>8. SameProtocol'
    BY <1>0, <2>1, <2>3 DEF SameProtocol, Becomes
  <2>9. AtWorkTogether'
    <3>1. \A v \in Workers : v # w =>
             worker'[v] = worker[v]
             /\ worker[v].pc \notin {"save", "send", "record", "remove", "drop"}
      BY <1>0, <2>1, <2>3 DEF AtWorkTogether, Becomes
    <3>2. worker'[w].pc = "send" /\ worker'[w].cred = worker[w].cred
      BY <2>3 DEF Becomes
    <3> QED BY <2>2, <2>4, <3>1, <3>2 DEF AtWorkTogether
  <2>10. OthersKeep'
    BY <1>0, <2>1, <2>4, NothingIsNothing DEF OthersKeep, CredTyped, HasRow
  <2> QED BY <2>6, <2>7, <2>8, <2>9, <2>10
<1>5. ASSUME NEW w \in Workers, SendAdd(w) \/ AddFails(w) PROVE Goal
  <2>1. /\ worker[w].pc = "send" /\ worker[w].cred \in Cred
        /\ UNCHANGED <<row, cache, lock, migrator, filler>>
    BY <1>5 DEF SendAdd, AddFails, CredTyped
  <2>2. /\ HasRow /\ worker[w].cred.secret = row.secret
        /\ \A v \in Workers : v # w => worker[v].pc \notin {"remove", "drop"}
    BY <1>0, <2>1, NobodyRemoves DEF AtWorkTogether
  <2>3. /\ \E pc \in {"record", "fetch", "idle"} :
              worker'[w].pc = pc /\ (pc = "record" => worker'[w].cred = worker[w].cred)
        /\ \A v \in Workers : v # w => worker'[v] = worker[v]
    BY <1>5, SendBecomes DEF Becomes
  <2>4. agent' # NoInbound /\ agent'.proto = agent.proto
        /\ (\A c \in agent'.clients : c.secret = row.secret)
        /\ (\A c, d \in agent'.clients : c = d)
    <3>1. agent \in Inbounds /\ agent # NoInbound
          /\ (\A c \in agent.clients : c.secret = row.secret)
          /\ (\A c, d \in agent.clients : c = d)
      BY <1>0, <2>2 DEF SameSecret, CredTyped
    <3>2. \/ agent' = agent
          \/ /\ agent.proto = worker[w].cred.proto
             /\ agent' = [agent EXCEPT !.clients = Added(@, worker[w].cred)]
      BY <1>5 DEF SendAdd, AddFails
    <3>3. CASE agent' = agent
      BY <3>1, <3>3
    <3>4. CASE /\ agent.proto = worker[w].cred.proto
               /\ agent' = [agent EXCEPT !.clients = Added(@, worker[w].cred)]
      <4>1. \A c \in agent.clients : c.secret = worker[w].cred.secret
        BY <2>2, <3>1
      <4> QED BY <2>1, <2>2, <3>1, <3>4, <4>1, OneAdded
    <3> QED BY <3>2, <3>3, <3>4
  <2>5. HasRow'
    BY <2>1, <2>2 DEF HasRow
  <2>6. SameSecret'
    BY <1>0, <2>1, <2>2, <2>4 DEF SameSecret
  <2>7. SeenBefore'
    BY <2>5 DEF SeenBefore
  <2>8. SameProtocol'
    BY <1>0, <2>1, <2>3, <2>4 DEF SameProtocol
  <2>9. AtWorkTogether'
    BY <1>0, <2>1, <2>2, <2>3, <2>5 DEF AtWorkTogether
  <2>10. OthersKeep'
    BY <1>0, <2>1, <2>5 DEF OthersKeep
  <2> QED BY <2>6, <2>7, <2>8, <2>9, <2>10
<1>6. ASSUME NEW w \in Workers, Record(w) PROVE Goal
  <2>1. HasRow /\ \A v \in Workers : v # w => worker[v].pc \notin {"remove", "drop"}
    BY <1>0, <1>6, NobodyRemoves DEF Record, AtWorkTogether
  <2>2. UNCHANGED <<row, agent, cache, lock, migrator, filler>>
    BY <1>6, <2>1 DEF Record, Save, Saved
  <2>3. worker'[w].pc = "idle" /\ \A v \in Workers : v # w => worker'[v] = worker[v]
    BY <1>6, WorkerRests DEF Record, Becomes
  <2>4. SameSecret' /\ OthersKeep' /\ SeenBefore'
    BY <1>0, <2>1, <2>2 DEF SameSecret, OthersKeep, SeenBefore, HasRow
  <2>5. SameProtocol'
    BY <1>0, <2>2, <2>3 DEF SameProtocol
  <2>6. AtWorkTogether'
    BY <1>0, <2>1, <2>2, <2>3 DEF AtWorkTogether, HasRow
  <2> QED BY <2>4, <2>5, <2>6
<1>7. ASSUME NEW w \in Workers, StartRemove(w) PROVE Goal
  <2>1. /\ HasRow /\ ~OthersAtWork(w)
        /\ UNCHANGED <<row, agent, cache, lock, migrator, filler>>
    BY <1>7 DEF StartRemove, Raced, Calm
  <2>2. row \in CredRow
    BY <2>1 DEF HasRow, CredTyped
  <2>3. /\ worker'[w].pc = "remove" /\ worker'[w].cred = CredOf(row)
        /\ \A v \in Workers : v # w => worker'[v] = worker[v] /\ worker[v].pc = "idle"
    BY <1>7, <2>1, <2>2, CredOfRow, WorkerDecides DEF StartRemove, Places, Becomes, OthersAtWork
  <2>4. SameSecret' /\ OthersKeep' /\ SeenBefore'
    BY <1>0, <2>1 DEF SameSecret, OthersKeep, SeenBefore, HasRow
  <2>5. SameProtocol'
    BY <1>0, <2>1, <2>3 DEF SameProtocol
  <2>6. AtWorkTogether'
    BY <1>0, <2>1, <2>2, <2>3, CredOfRow DEF AtWorkTogether, HasRow, OthersAtWork
  <2> QED BY <2>4, <2>5, <2>6
<1>8. ASSUME NEW w \in Workers, SendRemove(w) PROVE Goal
  <2>1. /\ worker[w].pc = "remove" /\ HasRow /\ worker[w].cred.secret = row.secret
        /\ ~OthersAtWork(w) /\ UNCHANGED <<row, cache, lock, migrator, filler>>
    BY <1>0, <1>8 DEF SendRemove, AtWorkTogether
  <2>2. /\ worker'[w].pc \in {"drop", "idle"}
        /\ \A v \in Workers : v # w => worker'[v] = worker[v] /\ worker[v].pc = "idle"
    BY <1>8, <2>1, WorkerSteps, WorkerRests DEF SendRemove, Places, Becomes, OthersAtWork
  <2>3. /\ agent' # NoInbound /\ agent'.proto = agent.proto
        /\ agent'.clients \subseteq agent.clients
        /\ worker'[w].pc = "drop" => agent'.clients = {}
    <3>1. agent \in Inbounds /\ agent # NoInbound
          /\ (\A c \in agent.clients : c.secret = row.secret)
      BY <1>0, <2>1 DEF SameSecret, CredTyped
    <3>2. Without(agent.clients, worker[w].cred.secret) = {}
      BY <2>1, <3>1 DEF Without
    <3>3. \/ agent' = agent /\ worker'[w].pc = "idle"
          \/ agent' = [agent EXCEPT !.clients = Without(@, worker[w].cred.secret)]
      BY <1>8, WorkerRests DEF SendRemove, Becomes
    <3>4. CASE agent' = agent /\ worker'[w].pc = "idle"
      BY <3>1, <3>4
    <3>5. CASE agent' = [agent EXCEPT !.clients = Without(@, worker[w].cred.secret)]
      <4>1. agent'.clients = {} /\ agent'.proto = agent.proto /\ agent' # NoInbound
        BY <3>1, <3>2, <3>5, RemovedFrom
      <4> QED BY <4>1
    <3> QED BY <3>3, <3>4, <3>5
  <2>4. HasRow'
    BY <2>1 DEF HasRow
  <2>5. SameSecret'
    BY <1>0, <2>1, <2>3 DEF SameSecret
  <2>6. SeenBefore' /\ OthersKeep'
    BY <1>0, <2>1, <2>4 DEF SeenBefore, OthersKeep
  <2>7. SameProtocol'
    BY <1>0, <2>1, <2>2, <2>3 DEF SameProtocol
  <2>8. AtWorkTogether'
    BY <1>0, <2>1, <2>2, <2>3, <2>4 DEF AtWorkTogether, OthersAtWork
  <2> QED BY <2>5, <2>6, <2>7, <2>8
<1>9. ASSUME NEW w \in Workers, DropRow(w) PROVE Goal
  <2>1. /\ worker[w].pc = "drop" /\ agent.clients = {} /\ row' = NoRow
        /\ ~OthersAtWork(w) /\ UNCHANGED <<agent, cache, lock, migrator, filler>>
    BY <1>0, <1>9 DEF DropRow, AtWorkTogether
  <2>2. \A v \in Workers : worker'[v].pc = "idle"
    BY <1>9, <2>1, WorkerRests DEF DropRow, Becomes, OthersAtWork
  <2>3. ~HasRow'
    BY <2>1 DEF HasRow
  <2>4. SameSecret'
    BY <1>0, <2>1, <2>3 DEF SameSecret
  <2>5. SeenBefore' /\ AtWorkTogether'
    BY <2>1, <2>2 DEF SeenBefore, AtWorkTogether
  <2>6. SameProtocol'
    BY <1>0, <2>1, <2>2 DEF SameProtocol
  <2>7. OthersKeep'
    BY <2>1 DEF OthersKeep, OthersAtWork
  <2> QED BY <2>4, <2>5, <2>6, <2>7
<1>10. CASE Rebuild
  BY <1>10 DEF Rebuild, Calm
<1>11. CASE CacheChanges
  <2>1. /\ cache' \in {agent, NoInbound}
        /\ UNCHANGED <<row, agent, worker, lock, migrator, filler>>
    BY <1>11 DEF CacheChanges, Refresh, Forget
  <2>2. SameSecret' /\ SeenBefore' /\ SameProtocol'
    BY <1>0, <2>1 DEF SameSecret, SeenBefore, SameProtocol, HasRow
  <2>3. AtWorkTogether' /\ OthersKeep'
    BY <1>0, <2>1 DEF AtWorkTogether, OthersKeep, HasRow, OthersAtWork
  <2> QED BY <2>2, <2>3
<1>12. CASE MigratorLists
  <2>1. /\ migrator' = [pc |-> "remove", old |-> row]
        /\ \A w \in Workers : worker[w].pc \notin {"remove", "drop"}
        /\ UNCHANGED <<row, agent, cache, worker, lock, filler>>
    BY <1>12 DEF MigratorLists, Raced, Calm
  <2>2. SameSecret' /\ SeenBefore' /\ SameProtocol'
    BY <1>0, <2>1 DEF SameSecret, SeenBefore, SameProtocol, HasRow
  <2>3. AtWorkTogether' /\ OthersKeep'
    BY <1>0, <2>1 DEF AtWorkTogether, OthersKeep, HasRow
  <2> QED BY <2>2, <2>3
<1>13. CASE MigratorRemoves \/ MigratorAdds
  <2>1. /\ migrator.pc \in {"remove", "add"} /\ migrator.old = row /\ row \in CredRow /\ HasRow
        /\ \A w \in Workers : worker[w].pc \notin {"remove", "drop"}
        /\ UNCHANGED <<row, cache, worker, lock, filler>>
    BY <1>0, <1>13, NothingIsNothing
       DEF MigratorRemoves, MigratorAdds, OthersKeep, AtWorkTogether, OthersAtWork, CredTyped, HasRow
  <2>2. migrator'.old = row
    BY <1>13, <2>1 DEF MigratorRemoves, MigratorAdds, CredTyped
  <2>3. agent' # NoInbound /\ agent'.proto = agent.proto
        /\ (\A c \in agent'.clients : c.secret = row.secret)
        /\ (\A c, d \in agent'.clients : c = d)
    <3>1. agent \in Inbounds /\ agent # NoInbound /\ row.proto = agent.proto
          /\ (\A c \in agent.clients : c.secret = row.secret)
          /\ (\A c, d \in agent.clients : c = d)
      BY <1>0, <2>1 DEF SameSecret, CredTyped
    <3>2. \/ agent' = agent
          \/ agent' = [agent EXCEPT !.clients = Without(@, row.secret)]
          \/ agent' = [agent EXCEPT !.clients = Added(@, NewForm(row))]
          \/ agent' = [agent EXCEPT !.clients = Added(@, CredOf(row))]
      BY <1>13, <2>1 DEF MigratorRemoves, MigratorAdds
    <3>3. Without(agent.clients, row.secret) \subseteq agent.clients
      BY DEF Without
    <3>4. CASE agent' = agent
      BY <3>1, <3>4
    <3>5. CASE agent' = [agent EXCEPT !.clients = Without(@, row.secret)]
      <4>1. /\ agent'.clients = Without(agent.clients, row.secret)
            /\ agent'.proto = agent.proto /\ agent' # NoInbound
        BY <3>1, <3>5, RemovedFrom
      <4> QED BY <3>1, <3>3, <4>1
    <3>6. ASSUME NEW cred \in {NewForm(row), CredOf(row)},
                 agent' = [agent EXCEPT !.clients = Added(@, cred)]
          PROVE  /\ agent' # NoInbound /\ agent'.proto = agent.proto
                 /\ \A c \in agent'.clients : c.secret = row.secret
                 /\ \A c, d \in agent'.clients : c = d
      <4>1. cred \in Cred /\ cred.secret = row.secret /\ cred.proto = row.proto
        BY <2>1, CredOfRow
      <4> QED BY <3>1, <3>6, <4>1, OneAdded
    <3> QED BY <3>2, <3>4, <3>5, <3>6
  <2>4. HasRow'
    BY <2>1 DEF HasRow
  <2>5. SameSecret'
    BY <1>0, <2>1, <2>3 DEF SameSecret
  <2>6. SeenBefore' /\ OthersKeep'
    BY <2>1, <2>2, <2>4 DEF SeenBefore, OthersKeep
  <2>7. SameProtocol'
    BY <1>0, <2>1, <2>3 DEF SameProtocol
  <2>8. AtWorkTogether'
    BY <1>0, <2>1, <2>4 DEF AtWorkTogether
  <2> QED BY <2>5, <2>6, <2>7, <2>8
<1>14. CASE MigratorUpdates
  <2>1. /\ migrator.pc = "update" /\ migrator.old = row /\ row \in CredRow /\ HasRow
        /\ \A w \in Workers : worker[w].pc \notin {"remove", "drop"}
        /\ UNCHANGED <<agent, cache, worker, lock, filler>>
    BY <1>0, <1>14, NothingIsNothing
       DEF MigratorUpdates, OthersKeep, AtWorkTogether, OthersAtWork, CredTyped, HasRow
  <2>2. /\ row' = [row EXCEPT !.mail = "new"] /\ migrator'.pc = "done"
    BY <1>14, <2>1 DEF MigratorUpdates, CredTyped
  <2>3. row' \in CredRow /\ row'.secret = row.secret /\ row'.proto = row.proto
    BY <2>1, <2>2 DEF CredRow, Mails
  <2>4. HasRow'
    BY <2>3, NothingIsNothing DEF HasRow
  <2>5. SameSecret'
    BY <1>0, <2>1, <2>3 DEF SameSecret
  <2>6. SeenBefore' /\ OthersKeep'
    BY <2>2, <2>4 DEF SeenBefore, OthersKeep
  <2>7. SameProtocol'
    BY <1>0, <2>1 DEF SameProtocol
  <2>8. AtWorkTogether'
    BY <1>0, <2>1, <2>3, <2>4 DEF AtWorkTogether
  <2> QED BY <2>5, <2>6, <2>7, <2>8
<1>15. CASE FillerLists
  <2>1. /\ cache = agent /\ \A w \in Workers : worker[w].pc = "idle"
        /\ UNCHANGED <<row, agent, cache, worker, lock, migrator>>
    BY <1>15 DEF FillerLists, Raced, Calm
  <2>2. \E c \in agent.clients : filler'.found.secret = c.secret /\ filler'.found.proto = agent.proto
    BY <1>15, <2>1 DEF FillerLists
  <2>4. SameSecret' /\ SeenBefore' /\ SameProtocol'
    BY <1>0, <2>1 DEF SameSecret, SeenBefore, SameProtocol, HasRow
  <2>5. AtWorkTogether'
    BY <2>1 DEF AtWorkTogether
  <2>6. OthersKeep'
    BY <1>0, <2>1, <2>2 DEF OthersKeep, Secrets
  <2> QED BY <2>4, <2>5, <2>6
<1>16. CASE FillerSaves
  <2>1. /\ \A w \in Workers : worker[w].pc = "idle"
        /\ filler.pc = "save" /\ filler.found \in Cred /\ filler'.pc = "done"
        /\ UNCHANGED <<agent, cache, worker, lock, migrator>>
    BY <1>16 DEF FillerSaves, Raced, Calm, CredTyped
  <2>2. row' \in CredRow
    BY <1>16, <2>1, SavedTyped DEF FillerSaves
  <2>3. HasRow'
    BY <2>2, NothingIsNothing DEF HasRow
  <2>4. HasRow => row' = row
    BY <1>16 DEF FillerSaves, Save, Saved
  <2>5. ~HasRow => row'.secret = filler.found.secret /\ row'.proto = filler.found.proto
    BY <1>16 DEF FillerSaves, Save, Saved
  <2>6. SameSecret'
    <3>1. CASE HasRow
      BY <1>0, <2>1, <2>4, <3>1 DEF SameSecret
    <3>2. CASE ~HasRow
      BY <1>0, <2>1, <2>5, <3>2 DEF SameSecret, OthersKeep, Secrets
    <3> QED BY <3>1, <3>2
  <2>7. SeenBefore' /\ AtWorkTogether'
    BY <2>1, <2>3 DEF SeenBefore, AtWorkTogether
  <2>8. SameProtocol'
    BY <1>0, <2>1 DEF SameProtocol
  <2>9. OthersKeep'
    BY <1>0, <2>1, <2>4, NothingIsNothing DEF OthersKeep, CredTyped, HasRow
  <2> QED BY <2>6, <2>7, <2>8, <2>9
<1>17. CASE UNCHANGED credVars
  BY <1>0, <1>17 DEF credVars, SameSecret, SeenBefore, SameProtocol, AtWorkTogether, OthersKeep,
     HasRow, OthersAtWork
<1> QED BY <1>1, <1>2, <1>3, <1>4, <1>5, <1>6, <1>7, <1>8, <1>9, <1>10, <1>11, <1>12, <1>13,
           <1>14, <1>15, <1>16, <1>17 DEF CredNext

-----------------------------------------------------------------------------
(* Served *)

LEMMA ServedStep == CredTyped /\ CalmInv /\ ServedInv /\ [CredNext]_credVars => ServedInv'
<1> SUFFICES ASSUME CredTyped, CalmInv, ServedInv, [CredNext]_credVars, HasRow', excuse' = {}
             PROVE  \/ row'.secret \in Secrets(agent'.clients)
                    \/ \E w \in Workers : worker'[w].pc \in {"fetch", "lock", "save", "send", "drop"}
                    \/ migrator'.pc = "add"
  BY DEF ServedInv
<1> DEFINE Serves(w) == worker[w].pc \in {"fetch", "lock", "save", "send", "drop"}
           Goal == \/ row'.secret \in Secrets(agent'.clients)
                   \/ \E w \in Workers : Serves(w)'
                   \/ migrator'.pc = "add"
<1>0. excuse = {}
  BY ExcusesGrow
<1>c. SameSecret /\ SeenBefore /\ SameProtocol /\ AtWorkTogether /\ OthersKeep
  BY <1>0 DEF CalmInv, Calm
<1>s. HasRow => \/ row.secret \in Secrets(agent.clients)
                \/ \E w \in Workers : Serves(w)
                \/ migrator.pc = "add"
  BY <1>0 DEF ServedInv
<1>i. \A w \in Workers : worker[w].pc = "idle" => ~Serves(w)
  OBVIOUS
<1>1. ASSUME NEW w \in Workers, Collect(w) PROVE Goal
  <2>1. UNCHANGED <<row, agent, migrator>> /\ worker[w].pc = "idle"
    BY <1>1 DEF Collect
  <2>2. \A v \in Workers : v # w => worker'[v] = worker[v]
    BY <1>1, CollectBecomes DEF Becomes
  <2> QED BY <1>s, <2>1, <2>2 DEF HasRow
<1>2. ASSUME NEW w \in Workers, Fetch(w) PROVE Goal
  BY <1>2, FetchBecomes DEF Becomes
<1>3. ASSUME NEW w \in Workers, Decide(w) PROVE Goal
  BY <1>3, DecideBecomes DEF Becomes
<1>4. ASSUME NEW w \in Workers, SaveAndUnlock(w) PROVE Goal
  BY <1>4, WorkerSteps DEF SaveAndUnlock, Places, Becomes
<1>5. ASSUME NEW w \in Workers, SendAdd(w) \/ AddFails(w) PROVE Goal
  <2>1. /\ worker[w].cred \in Cred /\ worker[w].cred.secret = row.secret
        /\ row' = row /\ agent \in Inbounds
    BY <1>c, <1>5 DEF SendAdd, AddFails, CredTyped, AtWorkTogether
  <2>2. CASE SendAdd(w)
    BY <2>1, <2>2, AddedTo DEF SendAdd
  <2>3. CASE ~SendAdd(w)
    <3>1. \E pc \in {"fetch", "idle"} :
             /\ worker'[w].pc = pc
             /\ pc = "idle" => excuse' = excuse \cup {"failure"}
      BY <1>5, <2>3, SendBecomes DEF Becomes
    <3> QED BY <3>1
  <2> QED BY <1>5, <2>2, <2>3
<1>6. ASSUME NEW w \in Workers, Record(w) PROVE Goal
  <2>1. HasRow /\ worker[w].pc = "record"
    BY <1>c, <1>6 DEF Record, AtWorkTogether
  <2>2. UNCHANGED <<row, agent, migrator>>
    BY <1>6, <2>1 DEF Record, Save, Saved
  <2>3. \A v \in Workers : v # w => worker'[v] = worker[v]
    BY <1>6, WorkerRests DEF Record, Becomes
  <2> QED BY <1>s, <2>1, <2>2, <2>3
<1>7. ASSUME NEW w \in Workers, StartRemove(w) PROVE Goal
  <2>1. /\ HasRow /\ ~OthersAtWork(w) /\ worker[w].pc = "idle"
        /\ UNCHANGED <<row, agent, migrator>>
    BY <1>0, <1>7 DEF StartRemove, Raced
  <2>2. (\A v \in Workers : ~Serves(v)) /\ migrator.pc # "add"
    BY <2>1 DEF OthersAtWork
  <2> QED BY <1>s, <2>1, <2>2
<1>8. ASSUME NEW w \in Workers, SendRemove(w) PROVE Goal
  <2>1. Step(w, "drop")
    BY <1>0, <1>8 DEF SendRemove
  <2> QED BY <2>1, WorkerSteps DEF Places, Becomes
<1>9. ASSUME NEW w \in Workers, DropRow(w) PROVE Goal
  BY <1>9 DEF DropRow, HasRow
<1>10. CASE Rebuild
  BY <1>10 DEF Rebuild
<1>11. CASE CacheChanges
  BY <1>s, <1>11 DEF CacheChanges, HasRow
<1>12. CASE MigratorLists
  BY <1>s, <1>12 DEF MigratorLists, HasRow
<1>13. CASE MigratorRemoves
  <2>1. agent # NoInbound
    BY <1>c DEF SameSecret
  <2>2. migrator' = [migrator EXCEPT !.pc = "add"]
    BY <1>0, <1>13, <2>1 DEF MigratorRemoves
  <2> QED BY <2>2 DEF CredTyped
<1>14. CASE MigratorAdds
  <2>1. migrator.old = row /\ row \in CredRow /\ row' = row /\ agent \in Inbounds
    BY <1>c, <1>14 DEF MigratorAdds, OthersKeep, CredTyped
  <2>2. PICK cred \in {NewForm(row), CredOf(row)} :
           agent.proto = row.proto /\ agent' = [agent EXCEPT !.clients = Added(@, cred)]
    BY <1>0, <1>14, <2>1 DEF MigratorAdds
  <2>3. cred \in Cred /\ cred.secret = row.secret /\ cred.proto = row.proto
    BY <2>1, CredOfRow
  <2> QED BY <2>1, <2>2, <2>3, AddedTo
<1>15. CASE MigratorUpdates
  <2>1. /\ migrator.pc = "update" /\ migrator.old = row /\ row \in CredRow
        /\ row' = [row EXCEPT !.mail = "new"] /\ UNCHANGED <<agent, worker>>
    BY <1>c, <1>15 DEF MigratorUpdates, OthersKeep, CredTyped
  <2>2. row'.secret = row.secret /\ HasRow
    BY <2>1, NothingIsNothing DEF CredRow, HasRow
  <2> QED BY <1>s, <2>1, <2>2
<1>16. CASE FillerLists
  BY <1>s, <1>16 DEF FillerLists, HasRow
<1>17. CASE FillerSaves
  <2>1. filler.pc = "save" /\ UNCHANGED <<agent, worker, migrator>>
    BY <1>17 DEF FillerSaves
  <2>2. CASE HasRow
    BY <1>s, <1>17, <2>1, <2>2 DEF FillerSaves, Save, Saved
  <2>3. CASE ~HasRow
    BY <1>c, <1>17, <2>1, <2>3 DEF FillerSaves, Save, Saved, OthersKeep
  <2> QED BY <2>2, <2>3
<1>18. CASE UNCHANGED credVars
  BY <1>s, <1>18 DEF credVars, HasRow
<1> QED BY <1>1, <1>2, <1>3, <1>4, <1>5, <1>6, <1>7, <1>8, <1>9, <1>10, <1>11, <1>12, <1>13,
           <1>14, <1>15, <1>16, <1>17, <1>18 DEF CredNext

-----------------------------------------------------------------------------
(* Theorems *)

CredInv == CredTyped /\ CalmInv /\ ServedInv

LEMMA CredInitially == CredInit => CredInv
<1> SUFFICES ASSUME CredInit PROVE CredInv
  OBVIOUS
<1>1. PICK p \in Protocols :
        \/ /\ row = NoRow /\ secrets = 0 /\ rows = 0
           /\ agent = [proto |-> p, clients |-> {}]
        \/ /\ row = [id |-> 1, proto |-> p, secret |-> 1, mail |-> "old"]
           /\ secrets = 1 /\ rows = 1
           /\ agent = [proto |-> p, clients |-> {[secret |-> 1, mail |-> "old"]}]
        \/ /\ row = NoRow /\ secrets = 1 /\ rows = 0
           /\ agent = [proto |-> p, clients |-> {[secret |-> 1, mail |-> "new"]}]
  BY DEF CredInit
<1>2. /\ cache = agent /\ worker = [w \in Workers |-> Resting] /\ lock = Nobody
      /\ migrator = [pc |-> "due", old |-> NoRow] /\ filler = [pc |-> "due", found |-> NoCred]
      /\ excuse = {}
  BY DEF CredInit
<1>3. /\ 1 \in 1..MaxSecrets /\ 1 \in 1..MaxRows /\ {0, 1} \subseteq 0..MaxSecrets
      /\ {0, 1} \subseteq 0..MaxRows
  BY CredentialAssumption
<1>4. /\ row \in CredRow \cup {NoRow} /\ secrets \in 0..MaxSecrets /\ rows \in 0..MaxRows
      /\ agent \in [proto : Protocols, clients : SUBSET Client] /\ agent.proto = p
  BY <1>1, <1>3 DEF CredRow, Client, Mails
<1>5. \A w \in Workers : worker[w].pc = "idle"
  BY <1>2, NothingIsNothing
<1>6. CredTyped
  BY <1>2, <1>4, <1>5, NothingIsNothing DEF CredTyped, Inbounds
<1>7. agent # NoInbound
  BY <1>4, CredentialAssumption, NothingIsNothing
<1>8. HasRow => row.proto = p /\ \A c \in agent.clients : c.secret = row.secret
  BY <1>1 DEF HasRow
<1>9. \A c, d \in agent.clients : c = d
  BY <1>1
<1>10. ~HasRow => ByEmail(agent) = agent.clients
  <2>1. CASE row = [id |-> 1, proto |-> p, secret |-> 1, mail |-> "old"]
    BY <2>1 DEF HasRow, NoRow
  <2>2. CASE agent.clients = {} \/ agent.clients = {[secret |-> 1, mail |-> "new"]}
    BY <2>2 DEF ByEmail
  <2> QED BY <1>1, <2>1, <2>2
<1>11. SameSecret
  BY <1>4, <1>7, <1>8, <1>9 DEF SameSecret
<1>12. SeenBefore /\ SameProtocol /\ AtWorkTogether /\ OthersKeep
  BY <1>2, <1>5, <1>10 DEF SeenBefore, SameProtocol, AtWorkTogether, OthersKeep
<1>13. HasRow => row.secret \in Secrets(agent.clients)
  <2>1. CASE row = NoRow
    BY <2>1 DEF HasRow
  <2>2. CASE /\ row = [id |-> 1, proto |-> p, secret |-> 1, mail |-> "old"]
             /\ agent = [proto |-> p, clients |-> {[secret |-> 1, mail |-> "old"]}]
    <3>1. /\ row.secret = 1 /\ [secret |-> 1, mail |-> "old"] \in agent.clients
          /\ [secret |-> 1, mail |-> "old"].secret = 1
      BY <2>2
    <3> QED BY <3>1 DEF Secrets
  <2> QED BY <1>1, <2>1, <2>2
<1> QED BY <1>6, <1>11, <1>12, <1>13 DEF CredInv, CalmInv, ServedInv

\* The invariant of a credential: the types, what holds while nobody raced, and
\* who serves a row whose client is missing.
THEOREM CredentialInvariant == CredSpec => []CredInv
<1>1. CredInit => CredInv
  BY CredInitially
<1>2. CredInv /\ [CredNext]_credVars => CredInv'
  BY CredTypeStep, CalmStep, ServedStep DEF CredInv
<1> QED BY <1>1, <1>2, PTL DEF CredSpec

\* Every variable of a credential keeps its type.
THEOREM CredentialsTypeCorrect == CredSpec => []CredTypeOK
<1>1. CredInv => CredTypeOK
  <2> SUFFICES ASSUME CredTyped PROVE CredTypeOK
    BY DEF CredInv
  <2>1. HasRow => row \in CredRow
    BY DEF CredTyped, HasRow
  <2>2. \A i \in Inbounds : i \in [proto : Protocols \cup {NoProto}, clients : SUBSET Client]
    BY DEF Inbounds, NoInbound
  <2> QED BY <2>1, <2>2 DEF CredTyped, CredTypeOK, CredRow
<1> QED BY <1>1, CredentialInvariant, PTL

\* However many provisioners, the migration and the filling run at a time, a user
\* has one client on an inbound unless two raced past the row or the inbound was
\* rebuilt (getOrCreateInboundCredential, inboundCredLock).
THEOREM ProvisioningMakesOneClient == CredSpec => []OneClientPerUser
<1>1. ASSUME NEW S, \A c, d \in S : c = d
      PROVE  Cardinality(S) <= 1
  <2>1. CASE S = {}
    BY <2>1, FS_EmptySet
  <2>2. CASE S # {}
    <3>1. PICK c \in S : S = {c}
      BY <1>1, <2>2
    <3>2. Cardinality({c}) = 1
      BY FS_Singleton
    <3> QED BY <3>1, <3>2
  <2> QED BY <2>1, <2>2
<1>2. CredInv => OneClientPerUser
  BY <1>1 DEF CredInv, CalmInv, Calm, SameSecret, OneClientPerUser
<1> QED BY <1>2, CredentialInvariant, PTL

\* When nobody is at work, the client of a row of user_inbound_configs is on the
\* agent, unless there was a race, a rebuilt inbound or a failed call: the
\* secret a subscription is written from works.
THEOREM RowsAreServed == CredSpec => []RowIsServed
<1>1. CredInv => RowIsServed
  BY DEF CredInv, ServedInv, RowIsServed, Quiet
<1> QED BY <1>1, CredentialInvariant, PTL

-----------------------------------------------------------------------------
(* The agent's own configuration *)

Stages   == {"idle", "asked", "live", "read", "written", "restart"}
FileType == [whole : BOOLEAN, api : BOOLEAN, count : [Items -> 0..MaxCopies]]
LiveType == [up : BOOLEAN, api : BOOLEAN, items : SUBSET Items]
Asked    == [pc : Stages, op : Ops, item : Items \cup {NoItem}, copy : FileType]

\* What a request at each stage carries.
WellAsked(r) ==
    /\ r.op \in EditOps <=> r.item \in Items
    /\ r.pc \in {"idle", "restart"} => r.item = NoItem
    /\ r.pc = "asked" => r.item \in Items
    /\ r.pc \in {"read", "written"} => r.copy.whole
    /\ r.pc = "written" /\ r.op = "add" => r.copy.count[r.item] < MaxCopies

ChildTyped ==
    /\ file \in FileType /\ xray \in LiveType
    /\ request \in [Requests -> Asked] /\ \A q \in Requests : WellAsked(request[q])
    /\ unsure \subseteq Items /\ mishaps \in Nat

Agrees(i)  == i \in xray.items <=> file.count[i] > 0
OnIt(q, i) == request[q].item = i

\* Of an item that is not in doubt: one request at most, which has changed what
\* runs when it is past asking, and the two copies agree before and without it.
ItemInv ==
    xray.up =>
        \A i \in Items \ unsure :
            /\ \A q, r \in Requests : OnIt(q, i) /\ OnIt(r, i) => q = r
            /\ (\A q \in Requests : ~OnIt(q, i)) => Agrees(i)
            /\ \A q \in Requests : OnIt(q, i) =>
                  IF request[q].pc = "asked" THEN Agrees(i)
                  ELSE i \in xray.items <=> request[q].op = "add"

WholeInv == ~file.whole => mishaps > 0 \/ \E q \in Requests : request[q].pc = "written"

ChildInv == ChildTyped /\ ItemInv /\ WholeInv

-----------------------------------------------------------------------------
LEMMA NewFileTyped ==
    /\ NewFile \in FileType /\ Idle \in Asked /\ WellAsked(Idle)
    /\ Idle.pc = "idle" /\ Idle.item = NoItem /\ Idle.op = "routing" /\ NewFile.whole
<1>1. NewFile \in FileType /\ NewFile.whole
  BY ChildAssumption DEF NewFile, FileType, NoCounts
<1>2. Idle \in Asked /\ Idle.pc = "idle" /\ Idle.item = NoItem /\ Idle.op = "routing"
  BY <1>1 DEF Idle, Asked, Stages, Ops
<1> QED BY <1>1, <1>2, ChildAssumption DEF WellAsked, EditOps

\* One request moves; the others stay as they are.
LEMMA OneRequestMoves ==
    ASSUME ChildTyped, NEW q \in Requests, NEW r \in Asked, WellAsked(r),
           request' = [request EXCEPT ![q] = r]
    PROVE  /\ request' \in [Requests -> Asked] /\ \A p \in Requests : WellAsked(request'[p])
           /\ request'[q] = r /\ \A p \in Requests : p # q => request'[p] = request[p]
<1>1. request' \in [Requests -> Asked] /\ request'[q] = r
      /\ \A p \in Requests : p # q => request'[p] = request[p]
  BY DEF ChildTyped
<1> QED BY <1>1 DEF ChildTyped

LEMMA GoesOn ==
    ASSUME ChildTyped, NEW q \in Requests, NEW pc \in {"live", "written"}, Goes(q, pc),
           request[q].pc \in {"asked", "read"},
           pc = "written" => /\ request[q].pc = "read"
                             /\ request[q].op = "add" =>
                                  request[q].copy.count[request[q].item] < MaxCopies
    PROVE  /\ request' \in [Requests -> Asked] /\ \A p \in Requests : WellAsked(request'[p])
           /\ request'[q].pc = pc /\ request'[q].op = request[q].op
           /\ request'[q].item = request[q].item /\ request'[q].copy = request[q].copy
           /\ \A p \in Requests : p # q => request'[p] = request[p]
<1> DEFINE r == [request[q] EXCEPT !.pc = pc]
<1>1. request[q] \in Asked /\ WellAsked(request[q]) /\ request' = [request EXCEPT ![q] = r]
  BY DEF ChildTyped, Goes
<1>2. r \in Asked /\ r.pc = pc /\ r.op = request[q].op /\ r.item = request[q].item
      /\ r.copy = request[q].copy
  BY <1>1 DEF Asked, Stages
<1>3. WellAsked(r)
  BY <1>1, <1>2 DEF WellAsked
<1> HIDE DEF r
<1> QED BY <1>1, <1>2, <1>3, OneRequestMoves

LEMMA GoesIdle ==
    ASSUME ChildTyped, NEW q \in Requests, Ends(q)
    PROVE  /\ request' \in [Requests -> Asked] /\ \A p \in Requests : WellAsked(request'[p])
           /\ request'[q].pc = "idle" /\ request'[q].item = NoItem
           /\ \A p \in Requests : p # q => request'[p] = request[p]
BY NewFileTyped, OneRequestMoves DEF Ends

\* What an edit makes of the file.
LEMMA EditedFile ==
    ASSUME NEW c \in FileType, NEW op \in Ops, NEW i \in Items \cup {NoItem},
           op \in EditOps <=> i \in Items, op = "add" => c.count[i] < MaxCopies
    PROVE  /\ Edited(c, op, i) \in FileType /\ Edited(c, op, i).whole = c.whole
           /\ op = "add" => Edited(c, op, i).count[i] > 0
           /\ op = "remove" => Edited(c, op, i).count[i] = 0
<1>1. CASE op = "add"
  <2>1. i \in Items /\ c.count \in [Items -> 0..MaxCopies] /\ c.count[i] \in 0..MaxCopies
    BY <1>1 DEF EditOps, FileType
  <2>2. c.count[i] + 1 \in 0..MaxCopies /\ c.count[i] + 1 > 0
    BY <1>1, <2>1, ChildAssumption
  <2>3. [c.count EXCEPT ![i] = @ + 1] \in [Items -> 0..MaxCopies]
        /\ [c.count EXCEPT ![i] = @ + 1][i] = c.count[i] + 1
    BY <2>1, <2>2
  <2>4. Edited(c, op, i) = [c EXCEPT !.count = [c.count EXCEPT ![i] = @ + 1]]
    BY <1>1 DEF Edited, Appended, FileType
  <2> QED BY <1>1, <2>2, <2>3, <2>4 DEF FileType
<1>2. CASE op = "remove"
  <2>1. i \in Items /\ c.count \in [Items -> 0..MaxCopies] /\ 0 \in 0..MaxCopies
    BY <1>2, ChildAssumption DEF EditOps, FileType
  <2>2. [c.count EXCEPT ![i] = 0] \in [Items -> 0..MaxCopies]
        /\ [c.count EXCEPT ![i] = 0][i] = 0
    BY <2>1
  <2>3. Edited(c, op, i) = [c EXCEPT !.count = [c.count EXCEPT ![i] = 0]]
    BY <1>2 DEF Edited, Removed, FileType
  <2> QED BY <1>2, <2>2, <2>3 DEF FileType
<1>3. CASE op \notin {"add", "remove"}
  BY <1>3 DEF Edited, FileType
<1> QED BY <1>1, <1>2, <1>3

\* An item of which nothing changes stays as it was.
LEMMA ItemStays ==
    ASSUME ItemInv, xray.up, NEW i \in Items \ unsure,
           \A q \in Requests : OnIt(q, i)' = OnIt(q, i),
           \A q \in Requests : OnIt(q, i) =>
                (request'[q].pc = "asked" <=> request[q].pc = "asked")
                /\ request'[q].op = request[q].op,
           i \in xray'.items <=> i \in xray.items, file'.count[i] = file.count[i]
    PROVE  /\ \A q, r \in Requests : OnIt(q, i)' /\ OnIt(r, i)' => q = r
           /\ (\A q \in Requests : ~OnIt(q, i)') => Agrees(i)'
           /\ \A q \in Requests : OnIt(q, i)' =>
                  IF request'[q].pc = "asked" THEN Agrees(i)'
                  ELSE i \in xray'.items <=> request'[q].op = "add"
BY DEF ItemInv, Agrees

LEMMA ChildStep == ChildInv /\ [ChildNext]_childVars => ChildInv'
<1> SUFFICES ASSUME ChildTyped, ItemInv, WholeInv, [ChildNext]_childVars
             PROVE  ChildTyped' /\ ItemInv' /\ WholeInv'
  BY DEF ChildInv
<1> DEFINE Goal == ChildTyped' /\ ItemInv' /\ WholeInv'
           RequestsTyped == /\ request' \in [Requests -> Asked]
                            /\ \A p \in Requests : WellAsked(request'[p])
           Others(q) == \A p \in Requests : p # q => request'[p] = request[p]
<1>0. \A q \in Requests : request[q] \in Asked /\ WellAsked(request[q])
  BY DEF ChildTyped
<1>1. ASSUME NEW q \in Requests, NEW op \in EditOps, NEW i \in Items, Ask(q, op, i) PROVE Goal
  <2>1. RequestsTyped /\ request'[q].pc = "asked" /\ request'[q].op = op
        /\ request'[q].item = i /\ Others(q)
    <3> DEFINE r == [Idle EXCEPT !.pc = "asked", !.op = op, !.item = i]
    <3>1. request' = [request EXCEPT ![q] = r]
      BY <1>1 DEF Ask
    <3>2. r \in Asked /\ r.pc = "asked" /\ r.op = op /\ r.item = i
      BY NewFileTyped DEF Asked, Stages, Ops
    <3> HIDE DEF r
    <3>3. WellAsked(r)
      BY <3>2 DEF WellAsked
    <3> QED BY <3>1, <3>2, <3>3, OneRequestMoves
  <2>2. /\ request[q].item = NoItem /\ UNCHANGED <<file, xray, mishaps>>
        /\ unsure' = IF i \in TouchedBut(q) THEN unsure \cup {i} ELSE unsure
        /\ request[q].pc = "idle"
    BY <1>0, <1>1 DEF Ask, Active, WellAsked
  <2>3. ChildTyped'
    BY <2>1, <2>2 DEF ChildTyped
  <2>4. ASSUME i \notin unsure' PROVE \A p \in Requests : p # q => ~OnIt(p, i)
    BY <1>0, <2>2, <2>4, ChildAssumption DEF TouchedBut, Active, WellAsked, OnIt
  <2>5. ItemInv'
    BY <2>1, <2>2, <2>4, ChildAssumption DEF ItemInv, OnIt, Agrees
  <2>6. WholeInv'
    BY <2>1, <2>2 DEF WholeInv
  <2> QED BY <2>3, <2>5, <2>6
<1>2. ASSUME NEW q \in Requests, NEW op \in SystemOps \cup {"routing"}, AskFile(q, op) PROVE Goal
  <2>1. RequestsTyped /\ request'[q].pc = "live" /\ request'[q].item = NoItem /\ Others(q)
    <3> DEFINE r == [Idle EXCEPT !.pc = "live", !.op = op]
    <3>1. request' = [request EXCEPT ![q] = r]
      BY <1>2 DEF AskFile
    <3>2. r \in Asked /\ r.pc = "live" /\ r.op = op /\ r.item = NoItem
      BY NewFileTyped DEF Asked, Stages, Ops
    <3> HIDE DEF r
    <3>3. WellAsked(r)
      BY <3>2, ChildAssumption DEF WellAsked, SystemOps, EditOps
    <3> QED BY <3>1, <3>2, <3>3, OneRequestMoves
  <2>2. /\ request[q].item = NoItem /\ UNCHANGED <<file, xray, unsure, mishaps>>
        /\ request[q].pc = "idle"
    BY <1>0, <1>2 DEF AskFile, Active, WellAsked
  <2>3. ChildTyped'
    BY <2>1, <2>2 DEF ChildTyped
  <2>4. ItemInv'
    BY <2>1, <2>2, ChildAssumption DEF ItemInv, OnIt, Agrees
  <2>5. WholeInv'
    BY <2>1, <2>2 DEF WholeInv
  <2> QED BY <2>3, <2>4, <2>5
<1>3. ASSUME NEW q \in Requests, AddLive(q) \/ RemoveLive(q) PROVE Goal
  <2>1. /\ request[q].pc = "asked" /\ request[q].item \in Items
        /\ UNCHANGED <<file, unsure, mishaps>> /\ xray.up
    BY <1>0, <1>3 DEF AddLive, RemoveLive, WellAsked
  <2> DEFINE i == request[q].item
             live == IF request[q].op = "add" THEN xray.items \cup {i} ELSE xray.items \ {i}
  <2>2. xray' = [xray EXCEPT !.items = live]
    BY <1>3 DEF AddLive, RemoveLive
  <2>3. xray' \in LiveType /\ xray'.items = live
    BY <2>1, <2>2 DEF ChildTyped, LiveType
  <2>4. /\ RequestsTyped /\ Others(q)
        /\ \/ request'[q].pc = "live" /\ request'[q].item = i /\ request'[q].op = request[q].op
           \/ request'[q].pc = "idle" /\ request'[q].item = NoItem
              /\ i \notin xray.items /\ request[q].op # "add"
    BY <1>3, <2>1, GoesOn, GoesIdle DEF AddLive, RemoveLive
  <2>5. ChildTyped'
    BY <2>1, <2>3, <2>4 DEF ChildTyped
  <2>6. ItemInv'
    BY <2>1, <2>3, <2>4, ChildAssumption DEF ItemInv, OnIt, Agrees
  <2>7. WholeInv'
    BY <2>1, <2>4 DEF WholeInv
  <2> QED BY <2>5, <2>6, <2>7
<1>4. ASSUME NEW q \in Requests, AddLiveFails(q) \/ RemoveLiveFails(q) PROVE Goal
  <2>1. /\ request[q].pc = "asked" /\ request[q].item \in Items /\ UNCHANGED file
        /\ mishaps' = mishaps + 1 /\ unsure' = unsure \cup {request[q].item}
        /\ xray' = [xray EXCEPT !.items = @ \ {request[q].item}] /\ xray.up
    BY <1>0, <1>4 DEF AddLiveFails, RemoveLiveFails, Mishap, WellAsked
  <2>2. xray' \in LiveType /\ xray'.items = xray.items \ {request[q].item}
    BY <2>1 DEF ChildTyped, LiveType
  <2>3. RequestsTyped /\ Others(q) /\ request'[q].item = NoItem
    BY <1>4, GoesIdle DEF AddLiveFails, RemoveLiveFails
  <2>4. ChildTyped' /\ mishaps' > 0
    BY <2>1, <2>2, <2>3 DEF ChildTyped
  <2>5. ItemInv'
    BY <2>1, <2>2, <2>3, ChildAssumption DEF ItemInv, OnIt, Agrees
  <2> QED BY <2>4, <2>5 DEF WholeInv
<1>5. ASSUME NEW q \in Requests, LiveFails(q) PROVE Goal
  <2>1. ~xray.up /\ UNCHANGED <<file, xray, unsure, mishaps>> /\ request[q].pc = "asked"
    BY <1>5 DEF LiveFails
  <2>2. RequestsTyped /\ Others(q)
    BY <1>5, GoesIdle DEF LiveFails
  <2>3. ChildTyped' /\ ItemInv'
    BY <2>1, <2>2 DEF ChildTyped, ItemInv
  <2> QED BY <2>1, <2>2, <2>3 DEF WholeInv
<1>6. ASSUME NEW q \in Requests, ReadFile(q) PROVE Goal
  <2>1. request[q].pc = "live" /\ UNCHANGED <<file, xray, mishaps>>
    BY <1>6 DEF ReadFile
  <2>2. CASE file.whole
    <3> DEFINE r == [request[q] EXCEPT !.pc = "read", !.copy = file]
    <3>1. request' = [request EXCEPT ![q] = r] /\ UNCHANGED unsure
      BY <1>6, <2>2 DEF ReadFile, ChildTyped
    <3>2. r \in Asked /\ r.pc = "read" /\ r.copy = file /\ r.op = request[q].op
          /\ r.item = request[q].item
      BY <1>0 DEF Asked, Stages, ChildTyped
    <3>3. WellAsked(r)
      BY <1>0, <2>1, <2>2, <3>2 DEF WellAsked
    <3> HIDE DEF r
    <3>4. RequestsTyped /\ Others(q) /\ request'[q] = r
      BY <3>1, <3>2, <3>3, OneRequestMoves
    <3>5. ChildTyped'
      BY <2>1, <3>1, <3>4 DEF ChildTyped
    <3>6. ItemInv'
      BY <2>1, <3>1, <3>2, <3>4 DEF ItemInv, OnIt, Agrees
    <3> QED BY <2>1, <2>2, <3>5, <3>6 DEF WholeInv
  <2>3. CASE ~file.whole
    <3>1. RequestsTyped /\ Others(q) /\ request'[q].item = NoItem
          /\ unsure' = unsure \cup ({request[q].item} \cap Items)
      BY <1>6, <2>3, GoesIdle DEF ReadFile
    <3>2. ChildTyped'
      BY <2>1, <3>1 DEF ChildTyped
    <3>3. ItemInv'
      BY <2>1, <3>1, ChildAssumption DEF ItemInv, OnIt, Agrees
    <3>4. WholeInv'
      BY <2>1, <3>1 DEF WholeInv
    <3> QED BY <3>2, <3>3, <3>4
  <2> QED BY <2>2, <2>3
<1>7. ASSUME NEW q \in Requests, Truncate(q) PROVE Goal
  <2>1. /\ request[q].pc = "read" /\ file' = [file EXCEPT !.whole = FALSE]
        /\ unsure \subseteq unsure' /\ unsure' \subseteq Items
        /\ UNCHANGED <<xray, mishaps>>
    BY <1>7 DEF Truncate, ChildTyped
  <2>2. file' \in FileType /\ file'.count = file.count
    BY <2>1 DEF FileType, ChildTyped
  <2>3. /\ RequestsTyped /\ Others(q) /\ request'[q].pc = "written"
        /\ request'[q].op = request[q].op /\ request'[q].item = request[q].item
    BY <1>7, <2>1, GoesOn DEF Truncate
  <2>4. ChildTyped'
    BY <2>1, <2>2, <2>3 DEF ChildTyped
  <2>5. ItemInv'
    BY <2>1, <2>2, <2>3 DEF ItemInv, OnIt, Agrees
  <2> QED BY <2>3, <2>4, <2>5 DEF WholeInv
<1>8. ASSUME NEW q \in Requests, NothingToEnsure(q) PROVE Goal
  <2>1. /\ request[q].pc = "read" /\ request[q].item \notin Items
        /\ UNCHANGED <<file, xray, unsure, mishaps>>
    BY <1>0, <1>8 DEF NothingToEnsure, WellAsked, EditOps
  <2>2. RequestsTyped /\ Others(q) /\ request'[q].item = NoItem
    BY <1>8, GoesIdle DEF NothingToEnsure
  <2>3. ChildTyped'
    BY <2>1, <2>2 DEF ChildTyped
  <2>4. ItemInv'
    BY <2>1, <2>2, ChildAssumption DEF ItemInv, OnIt, Agrees
  <2>5. WholeInv'
    BY <2>1, <2>2 DEF WholeInv
  <2> QED BY <2>3, <2>4, <2>5
<1>9. ASSUME NEW q \in Requests, Fill(q) PROVE Goal
  <2> DEFINE i == request[q].item
             content == Edited(request[q].copy, request[q].op, i)
  <2>1. /\ request[q].pc = "written" /\ file' = content /\ UNCHANGED <<xray, mishaps>>
        /\ unsure' = unsure \cup {j \in Items \ {i} : file.count[j] # content.count[j]}
    BY <1>9 DEF Fill
  <2>2. /\ request[q].copy \in FileType /\ request[q].copy.whole /\ request[q].op \in Ops
        /\ i \in Items \cup {NoItem} /\ (request[q].op \in EditOps <=> i \in Items)
        /\ request[q].op = "add" => request[q].copy.count[i] < MaxCopies
    BY <1>0, <2>1 DEF Asked, WellAsked
  <2>3. /\ content \in FileType /\ content.whole
        /\ request[q].op = "add" => content.count[i] > 0
        /\ request[q].op = "remove" => content.count[i] = 0
    BY <2>2, EditedFile
  <2> DEFINE r == IF request[q].op \in SystemOps
                  THEN [Idle EXCEPT !.pc = "restart", !.op = request[q].op] ELSE Idle
  <2>4. r \in Asked /\ WellAsked(r) /\ r.item = NoItem
    <3>1. CASE request[q].op \in SystemOps
      <4>1. r = [pc |-> "restart", op |-> request[q].op, item |-> NoItem, copy |-> NewFile]
        BY <3>1 DEF Idle
      <4> HIDE DEF r
      <4>2. r \in Asked /\ r.pc = "restart" /\ r.item = NoItem /\ r.op \notin EditOps
        BY <2>2, <3>1, <4>1, NewFileTyped DEF Asked, Stages, SystemOps, EditOps
      <4> QED BY <4>2, ChildAssumption DEF WellAsked
    <3>2. CASE request[q].op \notin SystemOps
      BY <3>2, NewFileTyped
    <3> QED BY <3>1, <3>2
  <2>5. request' = [request EXCEPT ![q] = r]
    BY <1>9 DEF Fill
  <2> HIDE DEF r
  <2>6. RequestsTyped /\ Others(q) /\ request'[q].item = NoItem
    BY <2>4, <2>5, OneRequestMoves
  <2>7. ChildTyped'
    BY <2>1, <2>3, <2>6 DEF ChildTyped
  <2> HIDE DEF content
  <2>8. ItemInv'
    <3> SUFFICES ASSUME xray.up, NEW j \in Items \ unsure'
                 PROVE  /\ \A p, s \in Requests : OnIt(p, j)' /\ OnIt(s, j)' => p = s
                        /\ (\A p \in Requests : ~OnIt(p, j)') => Agrees(j)'
                        /\ \A p \in Requests : OnIt(p, j)' =>
                              IF request'[p].pc = "asked" THEN Agrees(j)'
                              ELSE j \in xray'.items <=> request'[p].op = "add"
      BY <2>1 DEF ItemInv
    <3>1. j \in Items \ unsure
      BY <2>1
    <3>2. CASE j # i
      <4>1. file'.count[j] = file.count[j]
        BY <2>1, <3>2
      <4>2. \A p \in Requests : OnIt(p, j)' = OnIt(p, j)
        BY <2>6, <3>2, ChildAssumption DEF OnIt
      <4>3. \A p \in Requests : OnIt(p, j) => p # q
        BY <3>2 DEF OnIt
      <4> QED BY <2>1, <2>6, <3>1, <4>1, <4>2, <4>3, ItemStays
    <3>3. CASE j = i
      <4>1. \A p \in Requests : OnIt(p, j) <=> p = q
        BY <3>1, <3>3 DEF ItemInv, OnIt
      <4>2. \A p \in Requests : ~OnIt(p, j)'
        BY <2>6, <4>1, ChildAssumption DEF OnIt
      <4>3. j \in xray.items <=> request[q].op = "add"
        BY <2>1, <3>1, <3>3 DEF ItemInv, OnIt
      <4>4. request[q].op \in {"add", "remove"}
        BY <2>2, <3>3 DEF EditOps
      <4>5. Agrees(j)'
        BY <2>1, <2>3, <3>3, <4>3, <4>4 DEF Agrees
      <4> QED BY <4>2, <4>5
    <3> QED BY <3>2, <3>3
  <2> QED BY <2>1, <2>3, <2>7, <2>8 DEF WholeInv
<1>10. ASSUME NEW q \in Requests, FillFails(q) PROVE Goal
  <2>1. /\ mishaps' = mishaps + 1 /\ UNCHANGED <<file, xray>>
        /\ unsure' = unsure \cup ({request[q].item} \cap Items)
    BY <1>10 DEF FillFails, Mishap
  <2>2. RequestsTyped /\ Others(q) /\ request'[q].item = NoItem
    BY <1>10, GoesIdle DEF FillFails
  <2>3. ChildTyped' /\ mishaps' > 0
    BY <2>1, <2>2 DEF ChildTyped
  <2>4. ItemInv'
    BY <2>1, <2>2, ChildAssumption DEF ItemInv, OnIt, Agrees
  <2> QED BY <2>3, <2>4 DEF WholeInv
<1>11. CASE Replace
  <2>1. PICK api \in BOOLEAN, c \in [Items -> {0, 1}] :
           file' = [whole |-> TRUE, api |-> api, count |-> c]
    BY <1>11 DEF Replace
  <2>2. c \in [Items -> 0..MaxCopies]
    BY ChildAssumption
  <2>3. file' \in FileType /\ mishaps' = mishaps + 1 /\ unsure' = Items
        /\ UNCHANGED <<xray, request>>
    BY <1>11, <2>1, <2>2 DEF Replace, Mishap, FileType
  <2>4. ChildTyped' /\ mishaps' > 0
    BY <2>3 DEF ChildTyped
  <2> QED BY <2>3, <2>4 DEF ItemInv, WholeInv
<1>12. ASSUME NEW touched, Restarted(touched), UNCHANGED <<file, mishaps>>,
              \A p \in Requests : request'[p].item \in Items => request'[p].item \in touched
       PROVE  /\ xray' \in LiveType /\ unsure' \subseteq Items /\ ItemInv'
  <2>1. CASE Startable
    <3>1. /\ xray' = [up |-> TRUE, api |-> file.api, items |-> {i \in Items : file.count[i] = 1}]
          /\ unsure' = touched \cap Items
      BY <1>12, <2>1 DEF Restarted, Started
    <3>2. xray' \in LiveType
      BY <3>1 DEF LiveType, FileType, ChildTyped
    <3>3. ASSUME NEW i \in Items PROVE Agrees(i)'
      <4>1. file.count[i] \in 0..MaxCopies /\ file.count[i] <= 1
        BY <2>1 DEF Startable, ChildTyped, FileType
      <4> QED BY <1>12, <3>1, <4>1, ChildAssumption DEF Agrees
    <3>4. \A i \in Items \ unsure' : \A p \in Requests : ~OnIt(p, i)'
      BY <1>12, <3>1 DEF OnIt
    <3> QED BY <3>1, <3>2, <3>3, <3>4 DEF ItemInv
  <2>2. CASE ~Startable
    <3>1. /\ xray' = [up |-> FALSE, api |-> FALSE, items |-> {}] /\ unsure' = unsure
      BY <1>12, <2>2 DEF Restarted, Started
    <3> QED BY <3>1 DEF LiveType, ItemInv, ChildTyped
  <2> QED BY <2>1, <2>2
<1>13. CASE RestartXray
  <2>1. UNCHANGED <<file, request, mishaps>>
    BY <1>13 DEF RestartXray
  <2> DEFINE touched == {request[q].item : q \in {q \in Requests : Active(q)}}
  <2>2. Restarted(touched)
    BY <1>13 DEF RestartXray
  <2>3. \A p \in Requests : request'[p].item \in Items => request'[p].item \in touched
    BY <1>0, <2>1, ChildAssumption DEF WellAsked, Active
  <2> HIDE DEF touched
  <2>4. /\ xray' \in LiveType /\ unsure' \subseteq Items /\ ItemInv'
    BY <1>12, <2>1, <2>2, <2>3
  <2> QED BY <2>1, <2>4 DEF ChildTyped, WholeInv
<1>14. ASSUME NEW q \in Requests, RestartAfterEdit(q) PROVE Goal
  <2>1. UNCHANGED <<file, mishaps>> /\ Restarted(TouchedBut(q)) /\ request[q].pc = "restart"
    BY <1>14 DEF RestartAfterEdit
  <2>2. RequestsTyped /\ Others(q) /\ request'[q].item = NoItem
    BY <1>14, GoesIdle DEF RestartAfterEdit
  <2>3. \A p \in Requests : request'[p].item \in Items => request'[p].item \in TouchedBut(q)
    BY <1>0, <2>2, ChildAssumption DEF WellAsked, Active, TouchedBut
  <2>4. /\ xray' \in LiveType /\ unsure' \subseteq Items /\ ItemInv'
    BY <1>12, <2>1, <2>3
  <2> QED BY <2>1, <2>2, <2>4 DEF ChildTyped, WholeInv
<1>15. CASE Crash
  <2>1. /\ mishaps' = mishaps + 1 /\ UNCHANGED <<file, xray>>
        /\ unsure' = unsure \cup ({request[q].item : q \in Requests} \cap Items)
        /\ request' = [q \in Requests |-> Idle]
    BY <1>15 DEF Crash, Mishap
  <2>2. RequestsTyped /\ \A p \in Requests : request'[p].item = NoItem
    BY <2>1, NewFileTyped
  <2>3. ChildTyped' /\ mishaps' > 0
    BY <2>1, <2>2 DEF ChildTyped
  <2>4. ItemInv'
    BY <2>1, <2>2, ChildAssumption DEF ItemInv, OnIt, Agrees
  <2> QED BY <2>3, <2>4 DEF WholeInv
<1>16. CASE UNCHANGED childVars
  BY <1>16 DEF childVars, ChildTyped, ItemInv, WholeInv, OnIt, Agrees
<1> QED BY <1>1, <1>2, <1>3, <1>4, <1>5, <1>6, <1>7, <1>8, <1>9, <1>10, <1>11, <1>13, <1>14,
           <1>15, <1>16 DEF ChildNext

\* The invariant of the agent's configuration: an item is changed by one request
\* at a time, and file and program agree on it before and after.
THEOREM ChildInvariant == ChildSpec => []ChildInv
<1>1. ChildInit => ChildInv
  <2> SUFFICES ASSUME ChildInit PROVE ChildInv
    OBVIOUS
  <2>1. ChildTyped
    BY NewFileTyped DEF ChildInit, ChildTyped, LiveType
  <2>2. \A i \in Items : file.count[i] = 0
    BY DEF ChildInit, NewFile, NoCounts
  <2>3. ItemInv
    BY <2>2, NewFileTyped, ChildAssumption DEF ChildInit, ItemInv, OnIt, Agrees
  <2> QED BY <2>1, <2>3, NewFileTyped DEF ChildInit, ChildInv, WholeInv
<1> QED BY <1>1, ChildStep, PTL DEF ChildSpec

\* Every variable of the agent's configuration keeps its type.
THEOREM ChildTypeCorrect == ChildSpec => []ChildTypeOK
<1>1. ChildInv => ChildTypeOK
  BY DEF ChildInv, ChildTyped, ChildTypeOK, FileType, LiveType, Asked, Stages
<1> QED BY <1>1, ChildInvariant, PTL

\* A restart of xray at a moment when nobody edits gives what runs already: the
\* file and the program have the same items, but those that are in doubt
\* (manageInbound, persistInbound, removeInboundFromConfig).
THEOREM RestartsChangeNothing == ChildSpec => []FileIsWhatRuns
<1>1. ChildInv => FileIsWhatRuns
  BY DEF ChildInv, ItemInv, WholeInv, Agrees, OnIt, Settled, FileIsWhatRuns
<1> QED BY <1>1, ChildInvariant, PTL

-----------------------------------------------------------------------------
(* The snapshots of its configuration *)

\* A restoration that a sync has under way has read the file after whatever is
\* kept was added, or something was added meanwhile.
KeptInv ==
    between \/ /\ kept \subseteq machine
               /\ \A t \in Errands : Restoring({t}) => kept \subseteq errand[t].copy

\* Until something comes between, nothing under way can change what is current.
LostInv ==
    lost # {} /\ decided = {} =>
        /\ current = lost
        /\ \A t \in Errands :
              \/ errand[t].at = "idle"
              \/ errand[t].at = "put"
              \/ errand[t].kind = "sync" /\ errand[t].prev = "offline"
                 /\ errand[t].at \in {"fetch", "store"}

\* What is fetched, held or about to be written by a sync will be told.
OnItsWay(t) == errand[t].at = "fetch" \/ Holds(t) \/ IsAt(t, "put", {"sync"})

\* A recovery that is about to be discarded shows nothing.
Discarding == \E t \in Errands : IsAt(t, "restart", {"apply"}) \/ IsAt(t, "discard", {"apply"})

Shown == machine \in current \/ (machine \in pending /\ ~Discarding)

TellInv ==
    /\ \A t \in Errands : errand[t].at = "discard" => errand[t].kind = "apply"
    /\ drift = {} =>
          /\ \A t \in Errands : Holds(t) => errand[t].copy = machine
          /\ ~reach \/ Shown \/ \E t \in Errands : OnItsWay(t)

-----------------------------------------------------------------------------
(* Types *)

LEMMA ErrandsTyped ==
    /\ NoErrand \in Errand
    /\ \A kind \in {"sync", "refresh"}, prev \in {"pending", "connected", "offline"} :
          Fetching(kind, prev) \in Errand
    /\ \A kind \in {"apply", "restore"}, c \in Configs :
          [NoErrand EXCEPT !.at = "put", !.kind = kind, !.copy = c] \in Errand
    /\ \A e \in Errand, at \in {"fetch", "store", "put", "restart", "discard"}, c \in Configs :
          /\ [e EXCEPT !.at = at] \in Errand
          /\ [e EXCEPT !.at = at, !.copy = c] \in Errand
<1>1. {} \in Configs
  BY DEF Configs
<1> QED BY <1>1 DEF NoErrand, Errand, Fetching

LEMMA CopyTyped ==
    SnapTypeOK => \A t \in Errands : errand[t] \in Errand /\ errand[t].copy \in Configs
BY DEF SnapTypeOK, Errand

LEMMA HistoriesTyped ==
    /\ Overtaken \subseteq Causes
    /\ \A c \in Configs : c \cap Tags \subseteq Tags
    /\ \A c \in Configs, d \in Configs : Merge(c, d) \in Configs
    /\ \A c \in Configs : {c} \in One(Configs)
    /\ {} \in One(Configs) /\ {} \in Configs
    /\ \A S \in One(Configs) : /\ S \subseteq Configs
                               /\ Stripped(S) \in One(Configs)
                               /\ \A T : S \ T \in One(Configs)
                               /\ S # {} => (CHOOSE c \in S : TRUE) \in Configs
<1>1. Overtaken \subseteq Causes
  BY DEF Overtaken, Causes
<1>2. \A c \in Configs, d \in Configs : Merge(c, d) \in Configs
  BY DEF Configs, Merge
<1>3. \A c \in Configs : {c} \in One(Configs)
  BY DEF One
<1>4. {} \in One(Configs) /\ {} \in Configs
  BY DEF One, Configs
<1>5. ASSUME NEW S \in One(Configs)
      PROVE  /\ S \subseteq Configs
             /\ Stripped(S) \in One(Configs)
             /\ \A T : S \ T \in One(Configs)
             /\ S # {} => (CHOOSE c \in S : TRUE) \in Configs
  <2>1. CASE S = {}
    BY <1>4, <2>1 DEF Stripped
  <2>2. ASSUME NEW c \in Configs, S = {c}
        PROVE  /\ S \subseteq Configs
               /\ Stripped(S) \in One(Configs)
               /\ \A T : S \ T \in One(Configs)
               /\ S # {} => (CHOOSE d \in S : TRUE) \in Configs
    <3>1. c \ Deprecated \in Configs
      BY DEF Configs
    <3>2. Stripped(S) = {c \ Deprecated}
      BY <2>2 DEF Stripped
    <3>3. \A T : S \ T = {} \/ S \ T = {c}
      BY <2>2
    <3> QED BY <1>3, <1>4, <2>2, <3>1, <3>2, <3>3
  <2> QED BY <2>1, <2>2 DEF One
<1> QED BY <1>1, <1>2, <1>3, <1>4, <1>5

LEMMA EventsTyped == SnapTypeOK /\ Event => events' \in 0..MaxEvents
  BY SnapshotAssumption DEF SnapTypeOK, Event

LEMMA SnapTypeStep == SnapTypeOK /\ [SnapNext]_snapVars => SnapTypeOK'
<1> SUFFICES ASSUME SnapTypeOK, [SnapNext]_snapVars
             PROVE  SnapTypeOK'
  OBVIOUS
<1> USE EventsTyped, HistoriesTyped, ErrandsTyped DEF SnapTypeOK, rowVars, tellVars, Drifts, IsOver
<1>1. CASE Disconnect \/ GoesOffline \/ ComesOnline \/ ExpectRecovery
  BY <1>1 DEF Disconnect, GoesOffline, ComesOnline, ExpectRecovery
<1>2. CASE Reinstall
  BY <1>2 DEF Reinstall
<1>3. ASSUME NEW c \in Configs, Edit(c) PROVE SnapTypeOK'
  <2>1. {"edited"} \subseteq Causes
    BY DEF Causes
  <2>2. between' \in BOOLEAN
    BY <1>3 DEF Edit
  <2> QED BY <1>3, <2>1, <2>2 DEF Edit
<1>4. ASSUME NEW t \in Errands, Reconnect(t) PROVE SnapTypeOK'
  BY <1>4 DEF Reconnect, StatusBefore
<1>5. ASSUME NEW t \in Errands, FetchFile(t) PROVE SnapTypeOK'
  <2>1. {"unrecorded"} \subseteq Causes
    BY DEF Causes
  <2>2. errand' \in [Errands -> Errand]
    <3>1. CASE errand' = [errand EXCEPT ![t].at = "store", ![t].copy = machine]
      <4>1. errand' = [errand EXCEPT ![t] = [errand[t] EXCEPT !.at = "store", !.copy = machine]]
        BY <3>1
      <4>2. [errand[t] EXCEPT !.at = "store", !.copy = machine] \in Errand
        BY CopyTyped
      <4> QED BY <4>1, <4>2
    <3>2. CASE IsOver(t)
      BY <3>2
    <3> QED BY <1>5, <3>1, <3>2 DEF FetchFile
  <2> QED BY <1>5, <2>1, <2>2 DEF FetchFile
<1>6. ASSUME NEW t \in Errands, StoreCurrent(t) PROVE SnapTypeOK'
  <2>1. errand[t] \in Errand /\ errand[t].copy \in Configs
    BY CopyTyped
  <2>2. drift' \subseteq Causes
    BY <1>6 DEF StoreCurrent, Settles
  <2>3. errand' \in [Errands -> Errand]
    BY <1>6 DEF StoreCurrent
  <2>4. current' \in One(Configs) /\ older' \subseteq Configs
    BY <1>6, <2>1 DEF StoreCurrent
  <2> QED BY <1>6, <2>2, <2>3, <2>4 DEF StoreCurrent
<1>7. ASSUME NEW t \in Errands, StorePending(t) PROVE SnapTypeOK'
  <2>1. errand[t] \in Errand /\ errand[t].copy \in Configs
    BY CopyTyped
  <2>2. drift' \subseteq Causes
    BY <1>7 DEF StorePending, Settles, Causes
  <2>3. errand' \in [Errands -> Errand]
    BY <1>7 DEF StorePending
  <2>4. pending' \in One(Configs)
    BY <1>7, <2>1 DEF StorePending
  <2> QED BY <1>7, <2>2, <2>3, <2>4 DEF StorePending
<1>19. ASSUME NEW t \in Errands, StoreFails(t) PROVE SnapTypeOK'
  <2>1. {"unrecorded"} \subseteq Causes
    BY DEF Causes
  <2> QED BY <1>19, <2>1 DEF StoreFails
<1>8. ASSUME NEW t \in Errands, TakeFlag(t) PROVE SnapTypeOK'
  <2>1. errand[t] \in Errand /\ errand[t].copy \in Configs
    BY CopyTyped
  <2>2. drift' \subseteq Causes
    BY <1>8 DEF TakeFlag, Causes
  <2>3. errand' \in [Errands -> Errand]
    <3> DEFINE c == CHOOSE c \in current : TRUE
    <3>1. CASE IsOver(t)
      BY <3>1
    <3>2. CASE current # {} /\ ~IsOver(t)
      <4>1. errand' = [errand EXCEPT ![t] = [errand[t] EXCEPT !.at = "put",
                                                 !.copy = Merge(c, errand[t].copy)]]
        BY <1>8, <3>2 DEF TakeFlag
      <4>2. Merge(c, errand[t].copy) \in Configs
        BY <2>1, <3>2
      <4> QED BY <4>1, <4>2
    <3> QED BY <1>8, <3>1, <3>2 DEF TakeFlag
  <2> QED BY <1>8, <2>2, <2>3 DEF TakeFlag
<1>9. ASSUME NEW x \in Tags \cup Rules, NEW t \in Errands, MasterWrite(x, t) PROVE SnapTypeOK'
  <2>1. machine' \in Configs
    BY <1>9 DEF MasterWrite, Configs
  <2>2. kept' \subseteq Tags
    BY <1>9 DEF MasterWrite
  <2>3. between' \in BOOLEAN /\ drift' \subseteq Causes
    BY <1>9 DEF MasterWrite, Causes
  <2>4. errand' \in [Errands -> Errand]
    BY <1>9 DEF MasterWrite, Hook
  <2> QED BY <1>9, <2>1, <2>2, <2>3, <2>4 DEF MasterWrite
<1>10. ASSUME NEW t \in Errands, PutRefused(t) PROVE SnapTypeOK'
  <2>1. drift' \subseteq Causes
    BY <1>10 DEF PutRefused, Causes
  <2> QED BY <1>10, <2>1 DEF PutRefused
<1>11. ASSUME NEW t \in Errands, NEW u \in Errands, Put(t, u) PROVE SnapTypeOK'
  <2>1. errand[t] \in Errand /\ errand[t].copy \in Configs
    BY CopyTyped
  <2>2. kept' \subseteq Tags
    BY <1>11, <2>1 DEF Put, Meant
  <2>3. between' \in BOOLEAN
    BY <1>11 DEF Put
  <2>4. errand' \in [Errands -> Errand]
    <3>1. CASE errand[t].kind = "sync"
      BY <1>11, <3>1 DEF Put
    <3>2. CASE errand[t].kind # "sync"
      <4> DEFINE r == [errand[t] EXCEPT !.at = "restart"]
      <4>1. r \in Errand
        BY <2>1
      <4>2. errand' = [errand EXCEPT ![t] = r, ![u] = Fetching("refresh", "pending")]
        BY <1>11, <3>2 DEF Put
      <4> HIDE DEF r
      <4> QED BY <4>1, <4>2
    <3> QED BY <3>1, <3>2
  <2>5. drift' \subseteq Causes
    BY <1>11 DEF Put
  <2> QED BY <1>11, <2>1, <2>2, <2>3, <2>4, <2>5 DEF Put
<1>12. ASSUME NEW t \in Errands, PutUnanswered(t) PROVE SnapTypeOK'
  <2>1. errand[t] \in Errand /\ errand[t].copy \in Configs
    BY CopyTyped
  <2>2. kept' \subseteq Tags
    BY <1>12, <2>1 DEF PutUnanswered, Meant
  <2>3. between' \in BOOLEAN /\ drift' \subseteq Causes
    BY <1>12 DEF PutUnanswered, Causes
  <2> QED BY <1>12, <2>1, <2>2, <2>3 DEF PutUnanswered
<1>13. ASSUME NEW t \in Errands, RecoveryApply(t) \/ Restore(t) PROVE SnapTypeOK'
  <2>1. PICK kind \in {"apply", "restore"}, c \in current \cup pending \cup older :
           Applies(t, kind, c)
    BY <1>13 DEF RecoveryApply, Restore
  <2>2. c \in Configs
    BY <2>1
  <2>3. errand' \in [Errands -> Errand]
    BY <2>1, <2>2 DEF Applies
  <2> QED BY <2>1, <2>3 DEF Applies
<1>14. ASSUME NEW t \in Errands, RestartAfterPut(t) PROVE SnapTypeOK'
  <2>1. errand' \in [Errands -> Errand]
    <3> DEFINE r == [errand[t] EXCEPT !.at = "discard"]
    <3>1. r \in Errand
      BY CopyTyped
    <3>2. errand' = [errand EXCEPT ![t] = r] \/ IsOver(t)
      BY <1>14 DEF RestartAfterPut
    <3> HIDE DEF r
    <3> QED BY <3>1, <3>2
  <2> QED BY <1>14, <2>1 DEF RestartAfterPut
<1>15. ASSUME NEW t \in Errands, Discard(t) PROVE SnapTypeOK'
  BY <1>15 DEF Discard
<1>16. CASE Accept
  <2>1. drift' \subseteq Causes
    BY <1>16 DEF Accept, Causes
  <2> QED BY <1>16, <2>1 DEF Accept
<1>17. CASE MasterRestart
  BY <1>17 DEF MasterRestart
<1>18. CASE UNCHANGED snapVars
  BY <1>18 DEF snapVars
<1> QED BY <1>1, <1>2, <1>3, <1>4, <1>5, <1>6, <1>7, <1>8, <1>9, <1>10, <1>11, <1>12, <1>13,
           <1>14, <1>15, <1>16, <1>17, <1>18, <1>19 DEF SnapNext

-----------------------------------------------------------------------------
(* Steps *)

\* What a step may make of the errands: one of them moves to r, or is over.
LEMMA OneErrandMoves ==
    ASSUME SnapTypeOK, NEW t \in Errands, NEW r, errand' = [errand EXCEPT ![t] = r]
    PROVE  errand'[t] = r /\ \A u \in Errands : u # t => errand'[u] = errand[u]
BY DEF SnapTypeOK

LEMMA OneErrandEnds ==
    ASSUME SnapTypeOK, NEW t \in Errands, IsOver(t)
    PROVE  \A u \in Errands : \/ u # t /\ errand'[u] = errand[u]
                              \/ u = t /\ errand'[u].at = "idle" /\ errand'[u].kind = "none"
<1>1. NoErrand.at = "idle" /\ NoErrand.kind = "none"
  BY DEF NoErrand
<1> QED BY <1>1, OneErrandMoves DEF IsOver

LEMMA OneErrandFetches ==
    ASSUME SnapTypeOK, NEW t \in Errands, NEW kind, NEW prev,
           errand' = [errand EXCEPT ![t] = Fetching(kind, prev)]
    PROVE  /\ errand'[t].at = "fetch" /\ errand'[t].kind = kind /\ errand'[t].prev = prev
           /\ \A u \in Errands : u # t => errand'[u] = errand[u]
<1> DEFINE r == Fetching(kind, prev)
<1>1. r.at = "fetch" /\ r.kind = kind /\ r.prev = prev
  BY DEF Fetching, NoErrand
<1> HIDE DEF r
<1> QED BY <1>1, OneErrandMoves DEF r

LEMMA OneErrandApplies ==
    ASSUME SnapTypeOK, NEW t \in Errands, RecoveryApply(t) \/ Restore(t)
    PROVE  /\ errand[t] = NoErrand
           /\ \A u \in Errands : \/ u # t /\ errand'[u] = errand[u]
                                 \/ /\ u = t /\ errand'[u].at = "put"
                                    /\ errand'[u].kind \in {"apply", "restore"}
           /\ UNCHANGED <<machine, reach, current, pending, drift, lost, decided, kept, between>>
<1>1. PICK kind \in {"apply", "restore"}, c \in current \cup pending \cup older :
        Applies(t, kind, c)
  BY DEF RecoveryApply, Restore
<1> DEFINE r == [NoErrand EXCEPT !.at = "put", !.kind = kind, !.copy = c]
<1>2. r.at = "put" /\ r.kind = kind
  BY DEF NoErrand
<1>3. errand' = [errand EXCEPT ![t] = r]
  BY <1>1 DEF Applies
<1>4. /\ errand[t] = NoErrand
      /\ UNCHANGED <<machine, reach, current, pending, drift, lost, decided, kept, between>>
  BY <1>1 DEF Applies, rowVars, tellVars
<1> HIDE DEF r
<1>5. \A u \in Errands : (u # t /\ errand'[u] = errand[u]) \/ (u = t /\ errand'[u] = r)
  BY <1>3, OneErrandMoves
<1>6. \A u \in Errands : \/ u # t /\ errand'[u] = errand[u]
                         \/ /\ u = t /\ errand'[u].at = "put"
                            /\ errand'[u].kind \in {"apply", "restore"}
  BY <1>2, <1>5
<1> QED BY <1>4, <1>6

LEMMA OneErrandPuts ==
    ASSUME SnapTypeOK, NEW t \in Errands, NEW u \in Errands, Put(t, u)
    PROVE  /\ errand[t].kind = "sync" \/ (t # u /\ errand'[t].at = "restart")
           /\ errand'[u].at = "fetch"
           /\ \A v \in Errands \ {t, u} : errand'[v] = errand[v]
<1>1. CASE errand[t].kind = "sync"
  BY <1>1, OneErrandFetches DEF Put
<1>2. CASE errand[t].kind # "sync"
  <2> DEFINE r == [errand[t] EXCEPT !.at = "restart"]
             f == Fetching("refresh", "pending")
  <2>1. r.at = "restart" /\ f.at = "fetch"
    BY CopyTyped DEF Errand, Fetching, NoErrand
  <2>2. errand' = [errand EXCEPT ![t] = r, ![u] = f] /\ errand[u] = NoErrand
    BY <1>2 DEF Put
  <2>3. t # u
    <3>1. errand[t].at = "put" /\ NoErrand.at = "idle"
      BY DEF Put, NoErrand
    <3> QED BY <2>2, <3>1
  <2> HIDE DEF r, f
  <2> QED BY <2>1, <2>2, <2>3 DEF SnapTypeOK
<1> QED BY <1>1, <1>2

LEMMA KeptStep == SnapTypeOK /\ KeptInv /\ [SnapNext]_snapVars => KeptInv'
<1> SUFFICES ASSUME SnapTypeOK, KeptInv, [SnapNext]_snapVars
             PROVE  KeptInv'
  OBVIOUS
<1> USE DEF SnapTypeOK
<1>1. CASE \/ Disconnect \/ GoesOffline \/ ComesOnline \/ Reinstall \/ ExpectRecovery \/ Accept
           \/ MasterRestart
  BY <1>1 DEF Disconnect, GoesOffline, ComesOnline, Reinstall, ExpectRecovery, Accept,
              MasterRestart, KeptInv, tellVars, Restoring, IsAt, NoErrand
<1>2. ASSUME NEW c \in Configs, Edit(c) PROVE KeptInv'
  BY <1>2 DEF Edit, KeptInv, Restoring, IsAt
<1>3. ASSUME NEW t \in Errands,
             \/ Reconnect(t) \/ StoreCurrent(t) \/ StorePending(t) \/ StoreFails(t)
             \/ PutRefused(t) \/ RestartAfterPut(t) \/ Discard(t)
      PROVE  KeptInv'
  <2>1. \A u \in Errands : errand'[u] = errand[u] \/ errand'[u].at \in {"idle", "fetch", "discard"}
    <3>1. CASE Reconnect(t)
      BY <3>1, OneErrandFetches DEF Reconnect
    <3>2. CASE StoreCurrent(t) \/ StorePending(t) \/ StoreFails(t) \/ PutRefused(t)
                 \/ Discard(t)
      BY <3>2, OneErrandEnds DEF StoreCurrent, StorePending, StoreFails, PutRefused, Discard
    <3>3. CASE RestartAfterPut(t)
      BY <3>3, OneErrandEnds DEF RestartAfterPut, Errand
    <3> QED BY <1>3, <3>1, <3>2, <3>3
  <2>2. UNCHANGED <<machine, kept, between>>
    BY <1>3 DEF Reconnect, StoreCurrent, StorePending, StoreFails, PutRefused,
                RestartAfterPut, Discard, tellVars
  <2> QED BY <2>1, <2>2 DEF KeptInv, Restoring, IsAt
<1>4. ASSUME NEW t \in Errands, FetchFile(t) PROVE KeptInv'
  <2>1. \A u \in Errands : \/ errand'[u] = errand[u] \/ errand'[u].at = "idle"
                           \/ errand'[u].copy = machine
    BY <1>4 DEF FetchFile, IsOver, NoErrand, Errand
  <2> QED BY <1>4, <2>1 DEF FetchFile, KeptInv, Restoring, IsAt
<1>5. ASSUME NEW t \in Errands, TakeFlag(t) PROVE KeptInv'
  <2>1. \A u \in Errands : \/ errand'[u] = errand[u] \/ errand'[u].at = "idle"
                           \/ u = t /\ errand[t].copy \cap Tags \subseteq errand'[t].copy
    BY <1>5 DEF TakeFlag, IsOver, NoErrand, Errand, Merge
  <2>2. Restoring({t})
    BY <1>5 DEF TakeFlag, WasOffline, Restoring
  <2> QED BY <1>5, <2>1, <2>2 DEF TakeFlag, KeptInv, Restoring, IsAt
<1>6. ASSUME NEW x \in Tags \cup Rules, NEW t \in Errands, MasterWrite(x, t) PROVE KeptInv'
  <2>1. \A u \in Errands : errand'[u] = errand[u] \/ errand'[u].at = "fetch"
    BY <1>6, OneErrandFetches DEF MasterWrite, Hook
  <2>2. CASE Restoring(Errands)
    BY <1>6, <2>2 DEF MasterWrite, KeptInv
  <2>3. CASE ~Restoring(Errands)
    <3>1. \A u \in Errands : ~Restoring({u})'
      BY <2>1, <2>3 DEF Restoring, IsAt
    <3>2. kept \subseteq machine => kept' \subseteq machine'
      BY <1>6 DEF MasterWrite
    <3> QED BY <1>6, <3>1, <3>2 DEF MasterWrite, KeptInv
  <2> QED BY <2>2, <2>3
<1>7. ASSUME NEW t \in Errands, NEW u \in Errands, Put(t, u) PROVE KeptInv'
  <2>1. \A v \in Errands : \/ errand'[v] = errand[v] /\ v # t
                           \/ errand'[v].at \in {"fetch", "restart"}
    BY <1>7, OneErrandPuts, OneErrandFetches DEF Put
  <2>2. CASE Restoring(Errands \ {t})
    BY <1>7, <2>2 DEF Put, KeptInv
  <2>3. CASE ~Restoring(Errands \ {t})
    <3>1. \A v \in Errands : ~Restoring({v})'
      BY <2>1, <2>3 DEF Restoring, IsAt
    <3>2. between \/ kept' \subseteq machine'
      BY <1>7 DEF Put, Meant, KeptInv, Restoring, IsAt
    <3> QED BY <1>7, <3>1, <3>2 DEF Put, KeptInv
  <2> QED BY <2>2, <2>3
<1>8. ASSUME NEW t \in Errands, PutUnanswered(t) PROVE KeptInv'
  <2>1. \A v \in Errands : (errand'[v] = errand[v] /\ v # t) \/ errand'[v].at = "idle"
    BY <1>8 DEF PutUnanswered, IsOver, NoErrand, Errand
  <2>2. CASE Restoring(Errands \ {t})
    BY <1>8, <2>2 DEF PutUnanswered, KeptInv
  <2>3. CASE ~Restoring(Errands \ {t})
    <3>1. \A v \in Errands : ~Restoring({v})'
      BY <2>1, <2>3 DEF Restoring, IsAt
    <3>2. between \/ kept' \subseteq machine'
      BY <1>8 DEF PutUnanswered, Meant, KeptInv, Restoring, IsAt
    <3> QED BY <1>8, <3>1, <3>2 DEF PutUnanswered, KeptInv
  <2> QED BY <2>2, <2>3
<1>9. ASSUME NEW t \in Errands, RecoveryApply(t) \/ Restore(t) PROVE KeptInv'
  <2>1. \A u \in Errands : errand'[u] = errand[u] \/ errand'[u].kind \in {"apply", "restore"}
    BY <1>9, OneErrandApplies
  <2>2. UNCHANGED <<machine, kept, between>>
    BY <1>9, OneErrandApplies
  <2> QED BY <2>1, <2>2 DEF KeptInv, Restoring, IsAt
<1>10. CASE UNCHANGED snapVars
  BY <1>10 DEF snapVars, KeptInv, Restoring, IsAt
<1> QED BY <1>1, <1>2, <1>3, <1>4, <1>5, <1>6, <1>7, <1>8, <1>9, <1>10 DEF SnapNext

LEMMA LostStep == SnapTypeOK /\ LostInv /\ [SnapNext]_snapVars => LostInv'
<1> SUFFICES ASSUME SnapTypeOK, LostInv, [SnapNext]_snapVars
             PROVE  LostInv'
  OBVIOUS
<1> USE DEF SnapTypeOK, LostInv
<1>1. CASE \/ Disconnect \/ GoesOffline \/ ComesOnline \/ ExpectRecovery \/ Accept
           \/ \E c \in Configs : Edit(c)
  BY <1>1 DEF Disconnect, GoesOffline, ComesOnline, ExpectRecovery, Accept, Edit, rowVars,
              tellVars
<1>12. CASE MasterRestart
  <2>1. \A t \in Errands : errand'[t].at = "idle"
    BY <1>12 DEF MasterRestart, NoErrand
  <2>2. lost' # {} => lost # {}
    BY <1>12 DEF MasterRestart, Stripped
  <2>3. current = lost => current' = lost'
    BY <1>12 DEF MasterRestart
  <2>4. decided' = decided
    BY <1>12 DEF MasterRestart
  <2> QED BY <2>1, <2>2, <2>3, <2>4
<1>2. CASE Reinstall
  BY <1>2 DEF Reinstall, rowVars, NoErrand
<1>3. ASSUME NEW t \in Errands, Reconnect(t) PROVE LostInv'
  <2>1. \A u \in Errands :
           \/ errand'[u] = errand[u]
           \/ errand'[u].at = "fetch" /\ errand'[u].kind = "sync" /\ errand'[u].prev = status
    BY <1>3 DEF Reconnect, Fetching, NoErrand, Errand, StatusBefore
  <2> QED BY <1>3, <2>1 DEF Reconnect, rowVars
<1>4. ASSUME NEW t \in Errands, FetchFile(t) PROVE LostInv'
  <2>1. \A u \in Errands : \/ errand'[u] = errand[u] \/ errand'[u].at = "idle"
                           \/ /\ errand[u].at = "fetch" /\ errand'[u].at = "store"
                              /\ errand'[u].kind = errand[u].kind
                              /\ errand'[u].prev = errand[u].prev
    BY <1>4 DEF FetchFile, IsOver, NoErrand, Errand
  <2> QED BY <1>4, <2>1 DEF FetchFile, rowVars
<1>5. ASSUME NEW t \in Errands, StoreCurrent(t) PROVE LostInv'
  <2>1. \A u \in Errands : errand'[u] = errand[u] \/ errand'[u].at = "idle"
    BY <1>5 DEF StoreCurrent, IsOver, NoErrand, Errand
  <2>2. errand[t].at = "store" /\ ~(errand[t].kind = "sync" /\ errand[t].prev = "offline")
    BY <1>5 DEF StoreCurrent, Holds, IsAt
  <2> QED BY <1>5, <2>1, <2>2 DEF StoreCurrent
<1>6. ASSUME NEW t \in Errands,
             \/ StorePending(t) \/ StoreFails(t) \/ PutRefused(t) \/ PutUnanswered(t)
             \/ Discard(t) \/ TakeFlag(t)
      PROVE  LostInv'
  <2>1. \A u \in Errands : \/ errand'[u] = errand[u]
                           \/ errand'[u].at \in {"idle", "put"}
    BY <1>6 DEF StorePending, StoreFails, PutRefused, PutUnanswered, Discard, TakeFlag, IsOver,
                NoErrand, Errand
  <2>2. UNCHANGED <<current, lost, decided>>
    BY <1>6 DEF StorePending, StoreFails, PutRefused, PutUnanswered, Discard, TakeFlag, tellVars,
                rowVars
  <2> QED BY <2>1, <2>2
<1>7. ASSUME NEW x \in Tags \cup Rules, NEW t \in Errands, MasterWrite(x, t) PROVE LostInv'
  BY <1>7 DEF MasterWrite
<1>8. ASSUME NEW t \in Errands, NEW u \in Errands, Put(t, u) PROVE LostInv'
  BY <1>8 DEF Put
<1>9. ASSUME NEW t \in Errands, RecoveryApply(t) \/ Restore(t) PROVE LostInv'
  <2>1. \A u \in Errands : errand'[u] = errand[u] \/ errand'[u].at = "put"
    BY <1>9, OneErrandApplies
  <2>2. UNCHANGED <<current, lost, decided>>
    BY <1>9, OneErrandApplies
  <2> QED BY <2>1, <2>2
<1>10. ASSUME NEW t \in Errands, RestartAfterPut(t) PROVE LostInv'
  <2>1. errand[t].at = "restart"
    BY <1>10 DEF RestartAfterPut
  <2>2. ~(lost # {} /\ decided = {})
    BY <2>1
  <2> QED BY <1>10, <2>2 DEF RestartAfterPut, tellVars
<1>11. CASE UNCHANGED snapVars
  BY <1>11 DEF snapVars
<1> QED BY <1>1, <1>2, <1>3, <1>4, <1>5, <1>6, <1>7, <1>8, <1>9, <1>10, <1>11,
           <1>12 DEF SnapNext

LEMMA TellStep == SnapTypeOK /\ TellInv /\ [SnapNext]_snapVars => TellInv'
<1> SUFFICES ASSUME SnapTypeOK, TellInv, [SnapNext]_snapVars
             PROVE  TellInv'
  OBVIOUS
<1> USE DEF TellInv, OnItsWay, Shown, Discarding, Holds, IsAt
<1>1. CASE Disconnect \/ GoesOffline \/ ComesOnline \/ ExpectRecovery \/ Accept
  BY <1>1 DEF Disconnect, GoesOffline, ComesOnline, ExpectRecovery, Accept, rowVars, tellVars,
              Drifts
<1>2. CASE Reinstall \/ \E c \in Configs : Edit(c)
  BY <1>2 DEF Reinstall, Edit, Drifts, Overtaken
<1>3. ASSUME NEW t \in Errands, Reconnect(t) PROVE TellInv'
  <2>1. /\ errand'[t].at = "fetch"
        /\ \A u \in Errands : u # t => errand'[u] = errand[u]
    <3>1. errand' = [errand EXCEPT ![t] = Fetching("sync", StatusBefore)]
      BY <1>3 DEF Reconnect
    <3> QED BY <3>1, OneErrandFetches
  <2> QED BY <1>3, <2>1 DEF Reconnect, rowVars
<1>4. ASSUME NEW t \in Errands, FetchFile(t) PROVE TellInv'
  <2>1. CASE IsOver(t) /\ Drifts({"unrecorded"})
    BY <2>1, OneErrandEnds DEF Drifts
  <2>2. CASE ~(IsOver(t) /\ Drifts({"unrecorded"}))
    <3> DEFINE r == [errand[t] EXCEPT !.at = "store", !.copy = machine]
    <3>1. r.at = "store" /\ r.copy = machine
      BY CopyTyped DEF Errand
    <3>2. errand' = [errand EXCEPT ![t] = r] /\ UNCHANGED drift
      BY <1>4, <2>2 DEF FetchFile
    <3> HIDE DEF r
    <3>3. /\ errand'[t] = r
          /\ \A u \in Errands : u # t => errand'[u] = errand[u]
      BY <3>2, OneErrandMoves
    <3> QED BY <1>4, <3>1, <3>2, <3>3 DEF FetchFile
  <2> QED BY <2>1, <2>2
<1>5. ASSUME NEW t \in Errands, StoreCurrent(t) PROVE TellInv'
  <2>1. \A u \in Errands : \/ u # t /\ errand'[u] = errand[u]
                           \/ u = t /\ errand'[u].at = "idle"
    BY <1>5, OneErrandEnds DEF StoreCurrent
  <2>2. errand[t].at = "store" /\ current' = {errand[t].copy} /\ machine' = machine
    BY <1>5 DEF StoreCurrent
  <2>3. drift' = {} =>
           /\ errand[t].copy = machine
           /\ \A u \in Errands : u # t /\ errand[u].at = "store" => errand[u].copy = machine
    BY <1>5, <2>2 DEF StoreCurrent, Settles
  <2> QED BY <2>1, <2>2, <2>3
<1>6. ASSUME NEW t \in Errands, StorePending(t) PROVE TellInv'
  <2>1. \A u \in Errands : \/ u # t /\ errand'[u] = errand[u]
                           \/ u = t /\ errand'[u].at = "idle"
    BY <1>6, OneErrandEnds DEF StorePending
  <2>2. /\ errand[t].at = "store" /\ UNCHANGED <<machine, current>>
        /\ current = {errand[t].copy} \/ pending' = {errand[t].copy}
    BY <1>6 DEF StorePending, WasOffline
  <2>3. drift' = {} =>
           /\ ~Discarding
           /\ errand[t].copy = machine
           /\ \A u \in Errands : u # t /\ errand[u].at = "store" => errand[u].copy = machine
    BY <1>6, <2>2 DEF StorePending, Drifts, Settles
  <2> QED BY <2>1, <2>2, <2>3
<1>7. ASSUME NEW t \in Errands, TakeFlag(t) PROVE TellInv'
  <2>1. CASE IsOver(t) /\ Drifts({"unrestored"})
    BY <2>1, OneErrandEnds DEF Drifts
  <2>2. CASE ~(IsOver(t) /\ Drifts({"unrestored"}))
    <3> DEFINE r == [errand[t] EXCEPT !.at = "put",
                        !.copy = Merge(CHOOSE c \in current : TRUE, errand[t].copy)]
    <3>1. r.at = "put" /\ r.kind = "sync"
      BY <1>7, CopyTyped DEF Errand, TakeFlag, WasOffline
    <3>2. errand' = [errand EXCEPT ![t] = r] /\ UNCHANGED <<machine, reach, drift, rowVars>>
      BY <1>7, <2>2 DEF TakeFlag
    <3> HIDE DEF r
    <3>3. /\ errand'[t] = r
          /\ \A u \in Errands : u # t => errand'[u] = errand[u]
      BY <3>2, OneErrandMoves
    <3> QED BY <3>1, <3>2, <3>3
  <2> QED BY <2>1, <2>2
<1>17. ASSUME NEW t \in Errands, StoreFails(t) PROVE TellInv'
  <2>1. IsOver(t) /\ Drifts({"unrecorded"})
    BY <1>17 DEF StoreFails
  <2> QED BY <2>1, OneErrandEnds DEF Drifts
<1>8. ASSUME NEW x \in Tags \cup Rules, NEW t \in Errands, MasterWrite(x, t) PROVE TellInv'
  <2>1. CASE UNCHANGED errand /\ Drifts({"unanswered"})
    BY <1>8, <2>1 DEF Drifts
  <2>2. CASE Hook(t) /\ Drifts(Overtaken)
    <3>1. /\ errand'[t].at = "fetch"
          /\ \A u \in Errands : u # t => errand'[u] = errand[u]
      <4>1. errand' = [errand EXCEPT ![t] = Fetching("refresh", "pending")]
        BY <2>2 DEF Hook
      <4> QED BY <4>1, OneErrandFetches
    <3>2. drift' = {} => \A u \in Errands : errand[u].at # "store"
      BY <2>2 DEF Drifts, Overtaken
    <3> QED BY <1>8, <3>1, <3>2
  <2> QED BY <1>8, <2>1, <2>2 DEF MasterWrite
<1>9. ASSUME NEW t \in Errands, PutRefused(t) PROVE TellInv'
  <2>1. \A u \in Errands : \/ u # t /\ errand'[u] = errand[u]
                           \/ u = t /\ errand'[u].at = "idle"
    BY <1>9, OneErrandEnds DEF PutRefused
  <2>2. /\ drift' = {} => errand[t].kind # "sync" /\ drift = {}
        /\ errand[t].at = "put"
        /\ UNCHANGED <<machine, reach, current, pending>>
    BY <1>9 DEF PutRefused, Drifts, rowVars
  <2> QED BY <2>1, <2>2
<1>10. ASSUME NEW t \in Errands, NEW u \in Errands, Put(t, u) PROVE TellInv'
  <2>1. /\ errand'[u].at = "fetch"
        /\ errand[t].kind = "sync" \/ (t # u /\ errand'[t].at = "restart")
        /\ \A v \in Errands \ {t, u} : errand'[v] = errand[v]
    BY <1>10, OneErrandPuts
  <2>2. errand[t].kind = "sync" => u = t
    BY <1>10 DEF Put
  <2>3. drift' = {} => \A v \in Errands : errand[v].at # "store"
    BY <1>10 DEF Put, Drifts, Overtaken
  <2> QED BY <2>1, <2>2, <2>3
<1>11. ASSUME NEW t \in Errands, PutUnanswered(t) PROVE TellInv'
  BY <1>11, OneErrandEnds DEF PutUnanswered, Drifts
<1>12. ASSUME NEW t \in Errands, RecoveryApply(t) \/ Restore(t) PROVE TellInv'
  <2>1. /\ errand[t].at = "idle"
        /\ \A u \in Errands : \/ u # t /\ errand'[u] = errand[u]
                              \/ u = t /\ errand'[u].at = "put"
        /\ UNCHANGED <<machine, reach, current, pending, drift>>
    BY <1>12, OneErrandApplies DEF NoErrand
  <2> QED BY <2>1
<1>13. ASSUME NEW t \in Errands, RestartAfterPut(t) PROVE TellInv'
  <2>1. /\ errand[t].at = "restart"
        /\ UNCHANGED <<machine, reach, current, pending, drift>>
    BY <1>13 DEF RestartAfterPut, rowVars, tellVars
  <2>2. \A u \in Errands : \/ u # t /\ errand'[u] = errand[u]
                           \/ u = t /\ errand'[u].at = "idle"
                           \/ /\ u = t /\ errand'[u].at = "discard"
                              /\ errand'[u].kind = "apply" /\ errand[u].kind = "apply"
    <3> DEFINE r == [errand[t] EXCEPT !.at = "discard"]
    <3>1. r.at = "discard" /\ r.kind = errand[t].kind
      BY CopyTyped DEF Errand
    <3>2. (errand[t].kind = "apply" /\ errand' = [errand EXCEPT ![t] = r]) \/ IsOver(t)
      BY <1>13 DEF RestartAfterPut
    <3> HIDE DEF r
    <3> QED BY <3>1, <3>2, OneErrandMoves, OneErrandEnds
  <2> QED BY <2>1, <2>2
<1>14. ASSUME NEW t \in Errands, Discard(t) PROVE TellInv'
  <2>1. \A u \in Errands : \/ u # t /\ errand'[u] = errand[u]
                           \/ u = t /\ errand'[u].at = "idle"
    BY <1>14, OneErrandEnds DEF Discard
  <2>2. /\ errand[t].at = "discard"
        /\ UNCHANGED <<machine, reach, current, drift>>
    BY <1>14 DEF Discard, tellVars
  <2> QED BY <2>1, <2>2
<1>15. CASE MasterRestart
  BY <1>15 DEF MasterRestart, NoErrand
<1>16. CASE UNCHANGED snapVars
  BY <1>16 DEF snapVars
<1> QED BY <1>1, <1>2, <1>3, <1>4, <1>5, <1>6, <1>7, <1>8, <1>9, <1>10, <1>11, <1>12, <1>13,
           <1>14, <1>15, <1>16, <1>17 DEF SnapNext

\* What is remembered of the configuration, at every moment.
SnapInv == SnapTypeOK /\ KeptInv /\ LostInv /\ TellInv

\* The invariant of the snapshots, for any configuration and any number of
\* goroutines.
THEOREM SnapshotsInvariant == SnapSpec => []SnapInv
<1>1. SnapInit => SnapInv
  <2> SUFFICES ASSUME SnapInit PROVE SnapInv
    OBVIOUS
  <2>1. \A t \in Errands : errand[t].at = "idle"
    BY DEF SnapInit, NoErrand
  <2>2. SnapTypeOK
    <3>1. 0 \in 0..MaxEvents
      BY SnapshotAssumption
    <3>2. {} \in Configs /\ {} \in One(Configs) /\ NoErrand \in Errand
      BY HistoriesTyped, ErrandsTyped
    <3>3. errand \in [Errands -> Errand]
      BY <3>2 DEF SnapInit
    <3> QED BY <3>1, <3>2, <3>3 DEF SnapInit, SnapTypeOK
  <2> QED BY <2>1, <2>2 DEF SnapInit, SnapInv, KeptInv, LostInv, TellInv, Restoring, IsAt, Holds
<1>2. SnapInv /\ [SnapNext]_snapVars => SnapInv'
  BY SnapTypeStep, KeptStep, LostStep, TellStep DEF SnapInv
<1> QED BY <1>1, <1>2, PTL DEF SnapSpec

\* Every variable of the snapshots keeps its type.
THEOREM SnapshotsTypeCorrect == SnapSpec => []SnapTypeOK
<1>1. SnapInv => SnapTypeOK
  BY DEF SnapInv
<1> QED BY <1>1, SnapshotsInvariant, PTL

\* No restoration takes off what somebody added (mergeAgentOnlyInboundsOutbounds).
THEOREM RestorationsKeepInbounds == SnapSpec => []SharedInboundStays
<1>1. SnapInv => SharedInboundStays
  BY DEF SnapInv, KeptInv, SharedInboundStays
<1> QED BY <1>1, SnapshotsInvariant, PTL

\* A configuration that was lost waits for the admin (SyncXrayConfigOnReconnect).
THEOREM LostConfigsAwaitDecision == SnapSpec => []LostConfigIsKept
<1>1. SnapInv => LostConfigIsKept
  BY DEF SnapInv, LostInv, LostConfigIsKept
<1> QED BY <1>1, SnapshotsInvariant, PTL

\* A snapshot that is not the file has a cause (the hook of
\* forwardToRemoteServer, SyncXrayConfigOnReconnect).
THEOREM SnapshotsAreExplained == SnapSpec => []SnapshotIsExplained
<1>1. SnapInv => SnapshotIsExplained
  <2>1. NoErrand.at = "idle"
    BY DEF NoErrand
  <2> QED BY <2>1 DEF SnapInv, TellInv, SnapshotIsExplained, AllQuiet, OnItsWay, Holds, IsAt, Shown
<1> QED BY <1>1, SnapshotsInvariant, PTL
=============================================================================
