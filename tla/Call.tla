--------------------------------- MODULE Call ---------------------------------
(***************************************************************************)
(* What a command sent to an agent promises its caller: it ends once, and  *)
(* a success means that the agent has applied it.  A failure means         *)
(* nothing: the agent may have applied it, or may still do so.             *)
(***************************************************************************)
CONSTANT Calls

VARIABLES verdict,  \* "idle", "open", "ok" or "failed", per call
          applied   \* the calls the agent has applied at least once

Init == verdict = [c \in Calls |-> "idle"] /\ applied = {}

Begin(c) == /\ verdict[c] = "idle"
            /\ verdict' = [verdict EXCEPT ![c] = "open"]
            /\ UNCHANGED applied

Apply(c) == /\ verdict[c] # "idle"
            /\ applied' = applied \cup {c}
            /\ UNCHANGED verdict

Succeed(c) == /\ verdict[c] = "open"
              /\ c \in applied
              /\ verdict' = [verdict EXCEPT ![c] = "ok"]
              /\ UNCHANGED applied

Fail(c) == /\ verdict[c] = "open"
           /\ verdict' = [verdict EXCEPT ![c] = "failed"]
           /\ UNCHANGED applied

Next == \E c \in Calls : Begin(c) \/ Apply(c) \/ Succeed(c) \/ Fail(c)

Spec == Init /\ [][Next]_<<verdict, applied>>
=============================================================================
