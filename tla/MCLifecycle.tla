---------------------------- MODULE MCLifecycle ----------------------------
(***************************************************************************)
(* CapabilityLifecycle and AgentLifecycle on small instances.  They share  *)
(* no variable (CapabilityLifecycle keeps of an agent its standing), so a  *)
(* behaviour is about one of them.                                         *)
(***************************************************************************)
EXTENDS CapabilityLifecycle, AgentLifecycle

VARIABLE area

MCInit ==
    /\ Init /\ AgentInit /\ area \in {"capability", "agent"}
    /\ area = "agent" => \A d \in Decisions : outcome[d] = "ALLOW"

MCNext ==
    /\ UNCHANGED area
    /\ \/ area = "capability" /\ Next /\ UNCHANGED agentVars
       \/ area = "agent" /\ AgentNext /\ UNCHANGED vars

MCFairSpec == MCInit /\ [][MCNext]_<<vars, agentVars, area>> /\ Fairness
=============================================================================
