------------------------- MODULE SingleUsePermission -------------------------
(***************************************************************************)
(* What PayReality promises about executing a decided action, without      *)
(* requests, sessions, tokens or a database: a decision's basis is settled *)
(* at most once, an authorised decision may be permitted, and a permission *)
(* is used at most once.                                                   *)
(***************************************************************************)
EXTENDS Naturals

CONSTANT Decisions

VARIABLES
    basis,      \* "open" (awaiting review), "authorized" or "refused"
    permitted,  \* the decisions for which a permission was ever given
    uses        \* how often each decision's permission was used

vars == <<basis, permitted, uses>>

Init ==
    /\ basis \in [Decisions -> {"open", "authorized", "refused"}]
    /\ permitted = {}
    /\ uses = [d \in Decisions |-> 0]

Settle(d) ==
    /\ basis[d] = "open"
    /\ \E b \in {"authorized", "refused"} : basis' = [basis EXCEPT ![d] = b]
    /\ UNCHANGED <<permitted, uses>>

Permit(d) ==
    /\ basis[d] = "authorized"
    /\ d \notin permitted
    /\ permitted' = permitted \cup {d}
    /\ UNCHANGED <<basis, uses>>

Use(d) ==
    /\ d \in permitted
    /\ uses[d] = 0
    /\ uses' = [uses EXCEPT ![d] = 1]
    /\ UNCHANGED <<basis, permitted>>

Next == \E d \in Decisions : Settle(d) \/ Permit(d) \/ Use(d)

Spec == Init /\ [][Next]_vars

=============================================================================
