------------------------- MODULE MCPolicyDeployment -------------------------
(***************************************************************************)
(* PolicyDeployment for racing administrators.  A behaviour is about one   *)
(* area of it: the race for OPA's bundle needs several policies, the race  *)
(* for the active version several versions of one.                         *)
(***************************************************************************)
EXTENDS PolicyDeployment

CONSTANT k1     \* the policy that the area "versions" is about

VARIABLE area

\* Policies that have one version each
OneVersionEach ==
    \A s \in Sessions : request'[s].pc = "idle" \/ request'[s].op \notin {"edit", "retire"}

\* One policy, its versions edited, replaced and retired, and no other
\* organisation
OnePolicy ==
    /\ \A k \in Keys \ {k1} : versions'[k] = 0
    /\ request' = request => policy' = policy

MCInit == Init /\ area \in {"policies", "versions"}

\* What is left out is never a step of a request under way.
MCNext ==
    /\ Next
    /\ area = "policies" => OneVersionEach
    /\ area = "versions" => OnePolicy
    /\ UNCHANGED area

MCFairSpec == MCInit /\ [][MCNext]_<<vars, area>> /\ \A s \in Sessions : WF_vars(Progress(s))
=============================================================================
