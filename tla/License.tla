------------------------------ MODULE License ------------------------------
(***************************************************************************)
(* The license a panel holds: license/manager.go.  A heartbeat every five  *)
(* minutes and activations ask the license server, external; what it       *)
(* answers is applied by parseResponse, which several requests may run at  *)
(* once.  A binding that is lost leaves a grace period of 24 hours since   *)
(* the last confirmation.  A change starts callbacks, each in a goroutine  *)
(* of its own.                                                             *)
(*                                                                         *)
(* A key is configured: without one nothing is asked and nothing changes.  *)
(***************************************************************************)
EXTENDS Integers

CONSTANTS Asks,      \* requests to the license server under way at once
          Plans,     \* plans the license server may confirm in this instance
          Callbacks, \* callbacks that are registered
          MaxMoves   \* bound: things that happen to the license, the database
                     \* or the connections, and requests that overlap

\* The plans: limiter and embedded come with "pro" only.
AllPlans == {"basic", "pro"}

ASSUME LicenseAssumption ==
    /\ Plans \subseteq AllPlans
    /\ Callbacks \subseteq {"recover", "quota", "lost"}
    /\ MaxMoves \in Nat

VARIABLES
  license,   \* Manager.status: [valid, hard: HardRevoked, plan, check: LastCheck]
  saved,     \* system_settings.license_status
  ask,       \* per request: [pc, answer, had: what parseResponse read before it
             \* locked, turn: history, what its answer did to the limiter]
  due,       \* callbacks started and not yet run
  verdict,   \* what the license server answers
  moves      \* how many such things happened

licenseVars == <<license, saved, ask, due, verdict>>

Verdicts == Plans \cup {"rebind", "revoked"}

\* LastCheck: less than 24 hours ago, or more.
Status == [valid : BOOLEAN, hard : BOOLEAN, plan : AllPlans,
           check : {"recent", "old"}]

\* isValidLocked and withinGracePeriod; HasFeature("limiter"), which comes with
\* "embedded"; EffectiveServerQuota.
IsValid(l)    == ~l.hard /\ (l.valid \/ l.check # "old")
HasLimiter(l) == IsValid(l) /\ l.plan = "pro"
MaxServersOf(plan) == IF plan = "pro" THEN 2 ELSE 1
ServerQuota(l) == IF IsValid(l) THEN MaxServersOf(l.plan) ELSE 0

NoHad == [valid |-> FALSE, quota |-> 0, limiter |-> FALSE]
Had   == [valid : BOOLEAN, quota : 0..2, limiter : BOOLEAN]
AtRest == [pc |-> "idle", answer |-> "none", had |-> NoHad, turn |-> "same"]
Request == [pc : {"idle", "compared", "applied"},
        answer : Verdicts \cup {"none"}, had : Had, turn : {"same", "gained", "lost"}]

LicenseTypeOK ==
    /\ license \in Status /\ saved \in Status
    /\ ask \in [Asks -> Request] /\ due \subseteq Callbacks
    /\ verdict \in Verdicts /\ moves \in 0..MaxMoves

\* A panel whose license was just bought and confirmed.
LicenseInit ==
    /\ verdict \in Plans
    /\ license = [valid |-> TRUE, hard |-> FALSE, plan |-> verdict, check |-> "recent"]
    /\ saved = license
    /\ ask = [a \in Asks |-> AtRest] /\ due = {} /\ moves = 0

\* Something happens.
Move == moves < MaxMoves /\ moves' = moves + 1

-----------------------------------------------------------------------------

\* A heartbeat, the activation at the start, after a heartbeat that was told
\* to bind again, or of UpdateSettings, and its answer: parseResponse reads
\* wasValid, oldQuota and oldFeatures.  No answer, one other than 200 or one with
\* a wrong signature changes nothing: it is no step.
Answer(a) ==
    /\ ask[a].pc = "idle"
    /\ ask' = [ask EXCEPT ![a] = [AtRest EXCEPT !.pc = "compared", !.answer = verdict,
             !.had = [valid |-> IsValid(license), quota |-> ServerQuota(license),
                      limiter |-> HasLimiter(license)]]]
    /\ IF \A b \in Asks : ask[b].pc = "idle" THEN UNCHANGED moves ELSE Move
    /\ UNCHANGED <<license, saved, due, verdict>>

\* What an answer makes of the status.
Judged(l, answer) ==
    CASE answer \in Plans -> [valid |-> TRUE, hard |-> FALSE, plan |-> answer, check |-> "recent"]
      [] answer = "rebind" -> [l EXCEPT !.valid = FALSE, !.hard = FALSE]
      [] answer = "revoked" -> [l EXCEPT !.valid = FALSE, !.hard = TRUE]

\* Its section under the lock.
Apply(a) ==
    /\ ask[a].pc = "compared"
    /\ license' = Judged(license, ask[a].answer)
    /\ ask' = [ask EXCEPT ![a].pc = "applied",
                          ![a].turn = CASE HasLimiter(license) = HasLimiter(license') -> "same"
                                        [] HasLimiter(license') -> "gained"
                                        [] OTHER -> "lost"]
    /\ UNCHANGED <<saved, due, verdict, moves>>

\* mutant: as it was before onFeatureLost, a loss is told to nobody
LossUntold(a) ==
    {c \in Callbacks : \/ c = "recover" /\ ask[a].answer \in Plans /\ ~ask[a].had.valid
                       \/ c = "quota" /\ ServerQuota(license) # ask[a].had.quota}

\* Which callbacks the end of parseResponse starts.
Fired(a) ==
    {c \in Callbacks :
        CASE c = "recover" -> ask[a].answer \in Plans /\ ~ask[a].had.valid
          [] c = "quota"   -> ServerQuota(license) # ask[a].had.quota
          [] c = "lost"    -> ask[a].had.limiter /\ ~HasLimiter(license)}

\* The rest of parseResponse.
Finish(a) ==
    /\ ask[a].pc = "applied"
    /\ saved' = license
    /\ due' = due \cup Fired(a)
    /\ ask' = [ask EXCEPT ![a] = AtRest]
    /\ UNCHANGED <<license, verdict, moves>>

\* 24 hours since the last confirmation, whose requests are long over.
GraceEnds ==
    /\ license.check = "recent" /\ Move
    /\ \A a \in Asks : ask[a].pc = "idle"
    /\ license' = [license EXCEPT !.check = "old"]
    /\ saved' = [saved EXCEPT !.check = "old"]
    /\ UNCHANGED <<ask, due, verdict>>

\* The license server: bought, upgraded, downgraded, bound elsewhere, revoked.
VerdictChanges ==
    /\ Move
    /\ verdict' \in Verdicts \ {verdict}
    /\ UNCHANGED <<license, saved, ask, due>>

\* The process restarts: loadPersistedStatus does not believe a revocation.
LicenseRestarts ==
    /\ Move
    /\ license' = [saved EXCEPT !.hard = FALSE]
    /\ ask' = [a \in Asks |-> AtRest] /\ due' = {}
    /\ UNCHANGED <<saved, verdict>>

LicenseStep ==
    \/ \E a \in Asks : Answer(a) \/ Apply(a) \/ Finish(a)
    \/ GraceEnds \/ VerdictChanges
=============================================================================
