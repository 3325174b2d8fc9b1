----------------------------- MODULE MCEnforced -----------------------------
(***************************************************************************)
(* What the master must enforce in the end: the term and the limit of an   *)
(* account (Entitlement), the servers a license allows (LimiterPush).  The *)
(* two share no state, so a behaviour is one of one of them: part says     *)
(* which, and the fairness of the other asks nothing of it.                *)
(***************************************************************************)
EXTENDS Entitlement

CONSTANTS Asks, Plans, Callbacks, MaxMoves, Names, MaxHosts, Pushes, Limits, What,
          Mishaps, MaxLine

VARIABLES part,
          license, saved, ask, due, verdict, moves, bound, limit, enabled, linked,
          table, flag, line, push, why

quotaVars == <<license, saved, ask, due, verdict, moves, bound, limit, enabled,
               linked, table, flag, line, push, why>>

License == INSTANCE LimiterPush

EnforcedInit == part \in {"account", "license"} /\ Init /\ License!LimiterInit

EnforcedNext ==
    /\ UNCHANGED part
    /\ \/ part = "account" /\ Next /\ UNCHANGED quotaVars
       \/ part = "license" /\ License!LimiterNext /\ UNCHANGED vars

\* The fair actions of a part, in its behaviours.
Of(p) == part = p

EnforcedSpec ==
    /\ EnforcedInit /\ [][EnforcedNext]_<<vars, quotaVars, part>>
    \* Entitlement!FairSpec
    /\ WF_vars(Of("account") /\ EnforcerNext)
    /\ \A s \in Servers : WF_vars(Of("account") /\ GoOnline(s))
    \* LimiterPush!FairLimiterSpec
    /\ \A p \in Pushes : WF_quotaVars(Of("license") /\ License!PushSteps(p))
    /\ WF_quotaVars(Of("license") /\ \E p \in Pushes : License!Tick(p))
    /\ \A h \in License!Hosts : WF_quotaVars(Of("license") /\ License!Deliver(h))

\* A connected agent's xray may run in the end exactly if its server is within
\* the quota of the license, whatever was lost on the way, and although a grace
\* period that ends tells nobody (ReconcileServerQuota and its ticker).
LicenseIsObeyed == License!QuotaIsObeyed
=============================================================================
