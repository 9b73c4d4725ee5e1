---------------------------- MODULE AgentLifecycle ----------------------------
(***************************************************************************)
(* One agent, its certificates, and the administrators' lifecycle requests *)
(* of agent_service: create_agent, activate, suspend, retire, revoke and   *)
(* rotate_certificate.                                                     *)
(*                                                                         *)
(* A lifecycle request reads the agent's status and tests it, then reads   *)
(* the certificate it will change, then writes both by primary key and     *)
(* commits: three steps, because nothing locks the rows it has read (READ  *)
(* COMMITTED, no version column).  The audit event it appends belongs to   *)
(* the same commit and is left out.                                        *)
(***************************************************************************)
EXTENDS Integers, FiniteSets

CONSTANTS
    Admins,     \* concurrent lifecycle requests
    Certs,      \* certificate ids (bounds the number of rotations)
    NoCert

ASSUME NoCertAssumption == NoCert \notin Certs

VARIABLES
    status,     \* agents.status, "unregistered" before the row exists
    cert,       \* certificates.status, "none" before the row exists
    admin,      \* the request each administrator is making
    endRaced    \* a retirement or a revocation and another request have been
                \* under way at once (history)

agentVars == <<status, cert, admin, endRaced>>

Statuses == {"unregistered", "registered", "active", "suspended", "revoked", "retired"}
CertStatuses == {"none", "issued", "active", "rotated", "expired", "revoked"}
Operations == {"activate", "suspend", "retire", "revoke", "rotate"}

Terminal == {"revoked", "retired"}

\* The requests that end the agent
Ending == {"retire", "revoke"}

IdleAdmin == [pc |-> "idle", op |-> "suspend", cert |-> NoCert]
Admin == [pc: {"idle", "checked", "found"}, op: Operations, cert: Certs \cup {NoCert}]

-----------------------------------------------------------------------------
\* Fault: retiring is allowed to an agent that was revoked
AllowedFromEnded(op) ==
    CASE op = "activate" -> {"registered", "suspended"}
      [] op = "suspend" -> {"active"}
      [] op = "rotate" -> {"active", "suspended"}
      [] OTHER -> {"registered", "active", "suspended", "revoked"}

\* _ALLOWED_TRANSITIONS, by operation, and rotate_certificate's own test
AllowedFrom(op) ==
    CASE op = "activate" -> {"registered", "suspended"}
      [] op = "suspend" -> {"active"}
      [] op = "rotate" -> {"active", "suspended"}
      [] OTHER -> {"registered", "active", "suspended"}

\* The certificates the operation's query may return
Candidates(op) ==
    {c \in Certs : cert[c] \in [activate |-> {"issued"}, suspend |-> {}, rotate |-> {"active"},
                                retire |-> {"issued", "active"},
                                revoke |-> {"issued", "active"}][op]}

\* What the operation writes into the certificate it found
CertAfter(op) == [activate |-> "active", suspend |-> "none", rotate |-> "rotated",
                  retire |-> "expired", revoke |-> "revoked"][op]

\* What it writes into the agent; rotate_certificate leaves the status alone
StatusAfter(op) == [activate |-> "active", suspend |-> "suspended", rotate |-> status,
                    retire |-> "retired", revoke |-> "revoked"][op]

\* Fault: no partial unique index on (agent_id) WHERE status = 'active'
SingleActiveUnchecked(f) == TRUE

\* idx_certificates_single_active
SingleActive(f) == \A c, d \in Certs : f[c] = "active" /\ f[d] = "active" => c = d

-----------------------------------------------------------------------------
AgentInit ==
    /\ status = "unregistered"
    /\ cert = [c \in Certs |-> "none"]
    /\ admin = [a \in Admins |-> IdleAdmin]
    /\ endRaced = FALSE

\* create_agent
CreateAgent(c) ==
    /\ status = "unregistered"
    /\ status' = "registered"
    /\ cert' = [cert EXCEPT ![c] = "issued"]
    /\ UNCHANGED <<admin, endRaced>>

\* get_agent and the test of the transition
CheckTransition(a, op) ==
    /\ admin[a].pc = "idle"
    /\ status \in AllowedFrom(op)
    /\ admin' = [admin EXCEPT ![a] = [pc |-> "checked", op |-> op, cert |-> NoCert]]
    /\ endRaced' = (endRaced \/ \E b \in Admins \ {a} :
                       admin[b].pc # "idle" /\ {op, admin[b].op} \cap Ending # {})
    /\ UNCHANGED <<status, cert>>

\* The certificate query.  Without a certificate rotate_certificate refuses,
\* the others go on.
FindCertificate(a) ==
    /\ admin[a].pc = "checked"
    /\ \/ \E c \in Candidates(admin[a].op) :
             admin' = [admin EXCEPT ![a] = [@ EXCEPT !.pc = "found", !.cert = c]]
       \/ /\ Candidates(admin[a].op) = {}
          /\ admin' = [admin EXCEPT ![a] = IF admin[a].op = "rotate" THEN IdleAdmin
                                           ELSE [@ EXCEPT !.pc = "found"]]
    /\ UNCHANGED <<status, cert, endRaced>>

\* The certificates table after a's UPDATE and rotate_certificate's INSERT
Written(a) ==
    [c \in Certs |-> IF c = admin[a].cert THEN CertAfter(admin[a].op) ELSE cert[c]]

Tables(a) ==
    IF admin[a].op = "rotate"
    THEN {[Written(a) EXCEPT ![n] = "active"] : n \in {c \in Certs : cert[c] = "none"}}
    ELSE {Written(a)}

\* The writes by primary key and the commit; a second active certificate is
\* an IntegrityError, which rolls everything back.
Commit(a) ==
    /\ admin[a].pc = "found"
    /\ \E table \in Tables(a) :
          \/ SingleActive(table) /\ cert' = table /\ status' = StatusAfter(admin[a].op)
          \/ ~SingleActive(table) /\ UNCHANGED <<cert, status>>
    /\ admin' = [admin EXCEPT ![a] = IdleAdmin]
    /\ UNCHANGED endRaced

\* The worker dies, or PostgreSQL breaks a deadlock between two requests
Abort(a) ==
    /\ admin[a].pc # "idle"
    /\ admin' = [admin EXCEPT ![a] = IdleAdmin]
    /\ UNCHANGED <<status, cert, endRaced>>

-----------------------------------------------------------------------------
AgentNext ==
    \/ \E c \in Certs : CreateAgent(c)
    \/ \E a \in Admins, op \in Operations : CheckTransition(a, op)
    \/ \E a \in Admins : FindCertificate(a) \/ Commit(a) \/ Abort(a)

AgentSpec == AgentInit /\ [][AgentNext]_agentVars

-----------------------------------------------------------------------------
(* The columns keep to the values their CHECK constraints list, whatever   *)
(* the interleaving of the lifecycle requests.                             *)
AgentTypeOK ==
    /\ status \in Statuses
    /\ cert \in [Certs -> CertStatuses]
    /\ admin \in [Admins -> Admin]
    /\ endRaced \in BOOLEAN

Live == {c \in Certs : cert[c] \in {"issued", "active"}}

Agreement ==
    /\ status = "registered" => \E c \in Certs : cert[c] = "issued" /\ Live = {c}
    /\ status \in {"active", "suspended"} => \E c \in Certs : cert[c] = "active" /\ Live = {c}
    /\ status \in Terminal => Live = {}

(* The agent's status and its certificates agree: before activation one    *)
(* certificate is waiting, an active or suspended agent has exactly one    *)
(* live certificate, and it is active, an ended agent has none             *)
(* (agent_service's docstrings).  Activations, suspensions and rotations   *)
(* may overlap as they like: each writes a certificate it read earlier,    *)
(* and only the partial unique index, which makes the later one lose,      *)
(* keeps a rotated certificate from becoming active again beside its       *)
(* successor.  Excepted are agents of which a retirement or a revocation   *)
(* overlapped with another request: EndedHasNoKey shows what happens then. *)
CertificateFollowsStatus == ~endRaced => Agreement

(* Revoked and retired are final, and so is what ended the agent, unless   *)
(* the retirement or the revocation overlapped with another request        *)
(* (TerminalIsFinal shows what happens then): no request that began before *)
(* or after, and no two that overlap, bring an ended agent back or give it *)
(* a certificate that is accepted.                                         *)
EndedAloneIsFinal ==
    [][(status \in Terminal /\ ~endRaced') => (status' = status /\ Live' = {})]_agentVars

(* "Revoked (terminal, cannot be reactivated)" (revoke_agent), without     *)
(* that condition: a request that read the status before the revocation    *)
(* committed overwrites it afterwards, because nothing locks the row.      *)
TerminalIsFinal == [][(status \in Terminal) => (status' = status)]_agentVars

(* "A retired agent has no live certificate, so verify_agent_signature     *)
(* rejects any further signed request from it independently of the         *)
(* explicit status check" (retire_agent): a rotation that found the active *)
(* certificate before the retirement committed leaves the ended agent its  *)
(* new one.                                                                *)
EndedHasNoKey == status \in Terminal => Live = {}

=============================================================================
