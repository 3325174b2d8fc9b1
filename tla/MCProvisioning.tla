--------------------------- MODULE MCProvisioning ---------------------------
(***************************************************************************)
(* One instance of each module about what a panel records of an agent and  *)
(* what the agent has: a credential, routed outbounds, the agent's own     *)
(* file, the nodes of an inbound, speed limits, the snapshots of its       *)
(* configuration.  They share no state, so a behaviour is one of one of    *)
(* them: part says which.                                                  *)
(***************************************************************************)
EXTENDS Credentials, RoutedOutbound, ChildConfig, Nodes, LimiterPush, Snapshots, TLC

VARIABLE part

provisioningVars == <<credVars, routedVars, childVars, nodeVars, limiterVars, snapVars, part>>

\* The nodes of a behaviour that is not about them.
NodesAtRest == NodesInit /\ inbound = Gone /\ \A n \in Ids : node[n] = NoNode

\* The limiters of a behaviour that is not about them.
LimiterAtRest == /\ LimiterInit /\ bound = {} /\ \A n \in Names : limit[n] = 0
                 /\ license.plan = CHOOSE plan \in Plans : TRUE

Init == /\ part \in {"credential", "routed", "child", "nodes", "limits", "snapshots"}
        /\ IF part = "credential" THEN CredInit
           ELSE CredInit /\ row = NoRow /\ agent.clients = {}
                         /\ agent.proto = CHOOSE p \in Protocols : TRUE
        /\ RoutedInit /\ ChildInit /\ SnapInit
        /\ IF part = "nodes" THEN NodesInit ELSE NodesAtRest
        /\ IF part = "limits" THEN LimiterInit ELSE LimiterAtRest

Next == /\ UNCHANGED part
        /\ \/ /\ part = "credential" /\ CredNext
              /\ UNCHANGED <<routedVars, childVars, nodeVars, limiterVars, snapVars>>
           \/ /\ part = "routed" /\ RoutedNext
              /\ UNCHANGED <<credVars, childVars, nodeVars, limiterVars, snapVars>>
           \/ /\ part = "child" /\ ChildNext
              /\ UNCHANGED <<credVars, routedVars, nodeVars, limiterVars, snapVars>>
           \/ /\ part = "nodes" /\ NodesNext
              /\ UNCHANGED <<credVars, routedVars, childVars, limiterVars, snapVars>>
           \/ /\ part = "limits" /\ LimiterNext
              /\ UNCHANGED <<credVars, routedVars, childVars, nodeVars, snapVars>>
           \/ /\ part = "snapshots" /\ SnapNext
              /\ UNCHANGED <<credVars, routedVars, childVars, nodeVars, limiterVars>>

Spec == Init /\ [][Next]_provisioningVars

\* The instance names workers, admins, requests and goroutines alike, so that
\* one group of permutations serves all parts.
ASSUME /\ Workers = Admins /\ Workers = Requests /\ Workers = Tasks
       /\ Workers = Asks /\ Workers = Pushes /\ Workers = Errands
Symmetry == Permutations(Workers) \cup Permutations(Versions)
=============================================================================
