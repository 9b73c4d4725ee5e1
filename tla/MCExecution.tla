---------------------------- MODULE MCExecution ----------------------------
(***************************************************************************)
(* ExecutionLoop and KeyCustody on small instances; a behaviour keeps to   *)
(* one area of them.                                                       *)
(***************************************************************************)
EXTENDS ExecutionLoop, KeyCustody, TLC

CONSTANTS p1, p2, p3, k1, k3, m1, m2, n2

\* p1 and p2 are configured with the same private key.
MCConfiguredKey == (p1 :> k1) @@ (p2 :> k1) @@ (p3 :> k3)

\* The second key id is used for two keys.
MCSigningKeys ==
    {[id |-> 1, material |-> m1], [id |-> 2, material |-> m2], [id |-> 2, material |-> m1]}

\* What a behaviour is about.  The parts share no state but the decision and
\* the capability, which the receipts and the reconciliation only read.
\*   enforcement     the SDK's clients, resending, against the server
\*   receipts        receipts that overlap, any destination
\*   reconciliation  receipts and reconciliations
\*   agent           one agent process, its requests lost and resent
\*   twins           two agent processes with one private key, no answer lost
\*   neighbours      two with keys of their own and one credentials file
\*   signing         server instances and their signing keys
VARIABLE area

Areas == {"enforcement", "receipts", "reconciliation", "agent", "twins", "neighbours", "signing"}

Sharing == [a \in {"twins", "neighbours"} |-> IF a = "twins" THEN {p1, p2} ELSE {p1, p3}]

MCInit ==
    /\ Init /\ KeyInit /\ area \in Areas
    /\ assurance = "ADVISORY" \/ area \in {"receipts", "reconciliation"}

\* Past the attestation, and past the capability's consumption where there is one
Quietly ==
    /\ UNCHANGED <<clientVars, serverVars, assurance, relabelled>>
    /\ \/ decision = NONE /\ attest("ok") /\ UNCHANGED active
       \/ request_capability("ok") /\ UNCHANGED active
       \/ verify_capability("ok") /\ UNCHANGED active

Enforcement ==
    \/ \E c \in Clients : ClientStep(c)
    \/ \E k \in Kinds : HandleLate(k)
    \/ \E v \in {"approved", "denied"} : resolve_decision(v)
    \/ PartyEnds("binding")
    \/ CapabilityExpires

Receiving ==
    \/ Quietly
    \/ PartyEnds("identity")
    \/ \E w \in Workers :
          \/ \E s \in {"ACCEPTED", "SUCCEEDED"}, d \in Destinations, b \in BOOLEAN :
                submit_execution_receipt(w, s, d, b)
          \/ CommitReceipt(w) \/ Abandon(w)

OneOf(S) == CHOOSE x \in S : TRUE

Reconciling ==
    \/ Quietly
    \/ \E l \in {"ADVISORY", "CAPABILITY_REQUIRED"} : ~relabelled /\ results # << >> /\ set_enforcement_assurance(l)
    \/ \E s \in ReceiptStatuses :
          submit_execution_receipt(OneOf(Workers), s, OneOf(Destinations), capability = "consumed")
    \/ \E w \in Workers :
          CommitReceipt(w) \/ reconcile_decision(w) \/ ReadReceipts(w) \/ PersistResult(w)

MCNext ==
    /\ UNCHANGED area
    /\ \/ area = "enforcement" /\ Enforcement /\ UNCHANGED keyVars
       \/ area = "receipts" /\ Receiving /\ UNCHANGED keyVars
       \/ area = "reconciliation" /\ Reconciling /\ UNCHANGED keyVars
       \/ area = "agent" /\ ProcessStep(p1) /\ UNCHANGED vars
       \/ /\ area \in DOMAIN Sharing
          /\ \E p \in Sharing[area] : ProcessStep(p) /\ proc'[p].tries = 1 /\ proc'[p].fresh # n2
          /\ "lost" \notin disturbed' /\ UNCHANGED vars
       \/ area = "signing" /\ (\E i \in Instances : InstanceStep(i)) /\ UNCHANGED vars

MCSpec ==
    /\ MCInit /\ [][MCNext]_<<vars, keyVars, area>>
    /\ \A c \in Clients : WF_vars(Proceed(c))
=============================================================================
