-------------------------- MODULE IntegrationTrust --------------------------
(***************************************************************************)
(* The trust set-up of Adapter-mediated operations in one organisation:    *)
(* integration contracts (how an external operation is to be read),        *)
(* integration identities with their certificates (who may attest it) and  *)
(* enforcement bindings (this identity uses this contract, for these       *)
(* agents).  Administrators call the services concurrently.  A request     *)
(* reads its rows and checks them in one step and writes and commits in a  *)
(* later one: PostgreSQL runs READ COMMITTED, rows carry no version, and   *)
(* an UPDATE names the primary key only.  What holds two requests apart is *)
(* the unique indexes alone.                                               *)
(***************************************************************************)
EXTENDS Integers, Sequences, FiniteSetsExt

CONSTANTS
    Contracts,      \* ids of contract versions (of one integration)
    Operations,     \* source operations a caller may name
    WellFormed,     \* those that validate_semantic_fields accepts
    Identities,     \* ids of integration identities
    Bindings,       \* ids of enforcement bindings
    Environments,   \* deployment environments
    Agents,         \* agents of the organisation
    Workers,        \* requests in flight at the same time
    MaxCertificates,\* bound: certificates per identity
    NONE            \* SQL NULL

ASSUME ConstantsAssumption ==
    /\ WellFormed \subseteq Operations
    /\ MaxCertificates \in Nat \ {0}
    /\ NONE \notin Contracts \cup Operations \cup Identities \cup Bindings
                    \cup Environments
    /\ IsFiniteSet(Contracts)
    \* ids are UUIDs: no two tables share one
    /\ Contracts \cap Identities = {} /\ Contracts \cap Bindings = {} /\ Identities \cap Bindings = {}

MAX_VERSION_CREATE_ATTEMPTS == 3
MAX_ACTIVATION_ATTEMPTS == 3

VARIABLES
    contract,       \* integration_contract_versions
    identity,       \* integration_identities, each with its certificates
    binding,        \* enforcement_bindings, each with its allow-list
    request,        \* what each worker has read and is about to write
    overlapped,     \* history: rows two requests worked on at the same time
    faults          \* history: operations that answered with HTTP 500

vars == <<contract, identity, binding, request, overlapped, faults>>

\* Of the mapping's semantic fields only source_operation is kept: it is the
\* one that other rows copy.
ContractRow ==
    [status : {"absent", "draft", "validated", "approved", "retired"},
     source_operation : Operations \cup {NONE},
     version : Nat,
     content_hash : Operations \cup {NONE}]

IdentityStatus ==
    {"absent", "registered", "active", "suspended", "revoked", "retired"}

\* certificates, oldest first
CertificateStatus == {"issued", "active", "rotated", "expired", "revoked"}

BindingRow ==
    [status : {"absent", "draft", "active", "retired"},
     integration_identity_id : Identities \cup {NONE},
     integration_contract_version_id : Contracts \cup {NONE},
     source_operation : Operations \cup {NONE},
     environment : Environments \cup {NONE},
     allowed : SUBSET Agents]

Tables == Contracts \cup Identities \cup Bindings

Idle == [stage |-> "idle"]

Init ==
    /\ contract = [c \in Contracts |->
           [status |-> "absent", source_operation |-> NONE, version |-> 0, content_hash |-> NONE]]
    /\ identity = [i \in Identities |-> [status |-> "absent", certificates |-> << >>]]
    /\ binding = [b \in Bindings |->
           [status |-> "absent", integration_identity_id |-> NONE,
            integration_contract_version_id |-> NONE, source_operation |-> NONE,
            environment |-> NONE, allowed |-> {}]]
    /\ request = [w \in Workers |-> Idle]
    /\ overlapped = {}
    /\ faults = {}

-----------------------------------------------------------------------------
(* The routers: the errors of the services that each endpoint translates   *)
(* into a 4xx answer.  Anything else leaves as a 500.                      *)

ContractEndpoints ==
    [create_contract |-> {"not_found", "validation", "conflict"},
     edit_contract   |-> {"not_found", "transition", "validation"},
     validate        |-> {"not_found", "transition", "validation"},
     approve         |-> {"not_found", "transition"},
     retire_contract |-> {"not_found", "transition", "active_binding"}]

IdentityEndpoints ==
    [register          |-> {"sandbox_limit"},
     activate_identity |-> {"not_found", "transition"},
     suspend           |-> {"not_found", "transition"},
     revoke            |-> {"not_found", "transition"},
     retire_identity   |-> {"not_found", "transition"},
     rotate            |-> {"not_found", "transition", "no_active_certificate"}]

BindingEndpoints ==
    [create_binding   |-> {"not_found", "validation"},
     edit_binding     |-> {"not_found", "transition", "validation"},
     add_agent        |-> {"not_found", "transition", "validation"},
     remove_agent     |-> {"not_found", "transition"},
     activate_binding |-> {"not_found", "transition", "validation", "conflict"},
     retire_binding   |-> {"not_found", "transition"}]

Handles(op) ==
    IF op \in DOMAIN ContractEndpoints THEN ContractEndpoints[op]
    ELSE IF op \in DOMAIN IdentityEndpoints THEN IdentityEndpoints[op]
    ELSE BindingEndpoints[op]

Unhandled(op, error) == IF error \in Handles(op) THEN {} ELSE {op}

-----------------------------------------------------------------------------
(* The services.  An operation returns the error it raises on what it has  *)
(* read, or the columns its UPDATE will set.                               *)

Raise(error) == [error |-> error, sets |-> << >>]
Set(columns) == [error |-> "ok", sets |-> columns]

\* get_contract_version, get_integration_identity, get_binding
ContractFound(c) == contract[c].status # "absent"
IdentityFound(i) == identity[i].status # "absent"
BindingFound(b) == binding[b].status # "absent"

validate_semantic_fields(op) == op \in WellFormed
compute_content_hash(row) == row.source_operation

\* The next number for the operation, from the rows committed so far
create_contract_version(c, op) ==
    IF ~validate_semantic_fields(op) THEN Raise("validation")
    ELSE Set([status |-> "draft", source_operation |-> op,
              version |-> 1 + Max({0} \cup {contract[d].version :
                                d \in {x \in Contracts : contract[x].source_operation = op}})])

\* Fault: a mapping stays editable until it is approved
EditUntilApproved(c, op) ==
    IF contract[c].status \notin {"draft", "validated"} THEN Raise("transition")
    ELSE Set([source_operation |-> op])

edit_draft_contract_version(c, op) ==
    IF ~ContractFound(c) THEN Raise("not_found")
    ELSE IF contract[c].status # "draft" THEN Raise("transition")
    ELSE IF ~validate_semantic_fields(op) THEN Raise("validation")
    ELSE Set([source_operation |-> op])

validate_contract_version(c) ==
    IF ~ContractFound(c) THEN Raise("not_found")
    ELSE IF contract[c].status # "draft" THEN Raise("transition")
    ELSE IF ~validate_semantic_fields(contract[c].source_operation) THEN Raise("validation")
    ELSE Set([status |-> "validated", content_hash |-> compute_content_hash(contract[c])])

\* Fault: a retired mapping can be approved again
ApproveAgain(c) ==
    IF contract[c].status \notin {"validated", "retired"} THEN Raise("transition")
    ELSE Set([status |-> "approved"])

approve_contract_version(c) ==
    IF ~ContractFound(c) THEN Raise("not_found")
    ELSE IF contract[c].status # "validated" THEN Raise("transition")
    ELSE Set([status |-> "approved"])

has_active_binding_for_contract_version(c) ==
    \E b \in Bindings : /\ binding[b].integration_contract_version_id = c
                        /\ binding[b].status = "active"

\* Fault: retirement as it was before bindings existed
RetireRegardlessOfBindings(c) ==
    IF ~ContractFound(c) THEN Raise("not_found")
    ELSE IF contract[c].status # "approved" THEN Raise("transition")
    ELSE Set([status |-> "retired"])

retire_contract_version(c) ==
    IF ~ContractFound(c) THEN Raise("not_found")
    ELSE IF contract[c].status # "approved" THEN Raise("transition")
    ELSE IF has_active_binding_for_contract_version(c) THEN Raise("active_binding")
    ELSE Set([status |-> "retired"])

\* _ALLOWED_TRANSITIONS of an identity
AllowedTransitions ==
    [absent |-> {}, registered |-> {"active", "revoked", "retired"},
     active |-> {"suspended", "revoked", "retired"},
     suspended |-> {"active", "revoked", "retired"}, revoked |-> {}, retired |-> {}]

\* The certificate a query by status returns, 0 when there is none
CertificateWith(i, statuses) ==
    LET found == {k \in DOMAIN identity[i].certificates :
                    identity[i].certificates[k] \in statuses}
    IN  IF found = {} THEN 0 ELSE CHOOSE k \in found : TRUE

\* The new status of the identity and of the certificate it has found
Transition(i, to, statuses, certificate) ==
    IF ~IdentityFound(i) THEN Raise("not_found")
    ELSE IF to \notin AllowedTransitions[identity[i].status] THEN Raise("transition")
    ELSE Set([status |-> to, found |-> CertificateWith(i, statuses),
              becomes |-> certificate, issue |-> << >>])

register_integration_identity(i) ==
    Set([status |-> "registered", found |-> 0, becomes |-> "active", issue |-> <<"issued">>])

activate_integration_identity(i) == Transition(i, "active", {"issued"}, "active")
suspend_integration_identity(i) == Transition(i, "suspended", {}, "active")

revoke_integration_identity(i) == Transition(i, "revoked", {"issued", "active"}, "revoked")

retire_integration_identity(i) == Transition(i, "retired", {"issued", "active"}, "expired")

rotate_certificate(i) ==
    IF ~IdentityFound(i) THEN Raise("not_found")
    ELSE IF identity[i].status \notin {"active", "suspended"} THEN Raise("transition")
    ELSE IF CertificateWith(i, {"active"}) = 0 THEN Raise("no_active_certificate")
    ELSE Set([found |-> CertificateWith(i, {"active"}), becomes |-> "rotated",
              issue |-> <<"active">>])

\* The allow-list may name an agent twice: nobody looks before the commit
create_draft_binding(b, i, c, env, agents) ==
    IF ~IdentityFound(i) \/ ~ContractFound(c) THEN Raise("not_found")
    ELSE Set([status |-> "draft", integration_identity_id |-> i,
              integration_contract_version_id |-> c,
              source_operation |-> contract[c].source_operation,
              environment |-> env, allowed |-> agents])

\* A request that repoints the draft: the copied source_operation follows
edit_draft_binding(b, i, c, env) ==
    IF ~BindingFound(b) THEN Raise("not_found")
    ELSE IF binding[b].status # "draft" THEN Raise("transition")
    ELSE IF ~IdentityFound(i) \/ ~ContractFound(c)
         THEN Raise("not_found")
    ELSE Set([integration_identity_id |-> i, integration_contract_version_id |-> c,
              source_operation |-> contract[c].source_operation, environment |-> env])

\* The allow-list has a row per agent: a request inserts or deletes the rows of
\* NewMember or OldMember, which the look-up finds missing or there, and leaves
\* the others alone
NewMember(b, agent) == {agent} \ binding[b].allowed
OldMember(b, agent) == {agent} \cap binding[b].allowed

edit_allowed_agents(b) ==
    IF ~BindingFound(b) THEN Raise("not_found")
    ELSE IF binding[b].status # "draft" THEN Raise("transition")
    ELSE Set(<< >>)

retire_binding(b) ==
    IF ~BindingFound(b) THEN Raise("not_found")
    ELSE IF binding[b].status # "active" THEN Raise("transition")
    ELSE Set([status |-> "retired"])

\* idx_enforcement_bindings_single_active_per_scope's columns
Scope(b) == <<binding[b].integration_identity_id, binding[b].source_operation,
              binding[b].environment>>

\* eligible: the agents that are active when the request looks
activate_binding_attempt(b, eligible) ==
    LET row == binding[b]
        prior == {d \in Bindings \ {b} : binding[d].status = "active" /\ Scope(d) = Scope(b)}
    IN  IF ~BindingFound(b) THEN Raise("not_found")
        ELSE IF row.status # "draft" THEN Raise("transition")
        ELSE IF \/ identity[row.integration_identity_id].status # "active"
                \/ contract[row.integration_contract_version_id].status # "approved"
                \/ row.allowed = {}
                \/ ~(row.allowed \subseteq eligible)
             THEN Raise("validation")
        ELSE Set([status |-> "active", prior |-> prior])

-----------------------------------------------------------------------------
(* Requests.                                                               *)

\* What a request reads and relies on: its own row; a binding's contract; the
\* bindings that name a contract to be retired; the source operation under
\* which a version number is allocated.
RowsOf(op, x, sets) ==
    {x} \cup
    CASE x \in Bindings ->
            {binding[x].integration_contract_version_id} \cup
            (IF "integration_contract_version_id" \in DOMAIN sets
             THEN {sets.integration_contract_version_id} ELSE {})
      [] op = "retire_contract" ->
            {b \in Bindings : binding[b].integration_contract_version_id = x}
      [] op \in {"create_contract", "edit_contract"} -> {sets.source_operation}
      [] OTHER -> {}

Others(w) == {request[v].rows : v \in {u \in Workers \ {w} : request[u].stage # "idle"}}

\* The first step of a request: read, check, and either answer with an error
\* or hold the columns to be written.
Submit(w, op, x, out, arg) ==
    /\ request[w] = Idle
    /\ IF out.error # "ok"
       THEN /\ faults' = faults \cup Unhandled(op, out.error)
            /\ UNCHANGED <<request, overlapped>>
       ELSE LET rows == RowsOf(op, x, out.sets)
                meets == {r \in Others(w) : r \cap rows # {}}
            IN  /\ request' = [request EXCEPT ![w] =
                     [stage |-> "loaded", op |-> op, row |-> x, sets |-> out.sets,
                      arg |-> arg, rows |-> rows, attempt |-> 1]]
                /\ overlapped' = IF meets = {} THEN overlapped
                                 ELSE overlapped \cup rows \cup UNION meets
                /\ UNCHANGED faults
    /\ UNCHANGED <<contract, identity, binding>>

\* The UPDATE: the columns set, the others as they are now in the database
Merge(row, sets) ==
    [f \in DOMAIN row |-> IF f \in DOMAIN sets THEN sets[f] ELSE row[f]]

Answer(w) == request' = [request EXCEPT ![w] = Idle]

\* An IntegrityError the service does not catch
Crash(w) ==
    /\ Answer(w)
    /\ faults' = faults \cup Unhandled(request[w].op, "integrity")
    /\ UNCHANGED <<contract, identity, binding, overlapped>>

\* uq_integration_contract_versions_identity
UniqueVersions(table) ==
    \A c, d \in Contracts :
        /\ table[c].status # "absent" /\ table[d].status # "absent"
        /\ table[c].source_operation = table[d].source_operation
        /\ table[c].version = table[d].version
        => c = d

\* Runs out of attempts after `limit', else reads again
RetryOrConflict(w, limit) ==
    /\ IF request[w].attempt < limit
       THEN /\ request' = [request EXCEPT ![w].stage = "retry",
                                          ![w].attempt = request[w].attempt + 1]
            /\ UNCHANGED faults
       ELSE /\ Answer(w)
            /\ faults' = faults \cup Unhandled(request[w].op, "conflict")
    /\ UNCHANGED <<contract, identity, binding, overlapped>>

WriteContract(w) ==
    LET r == request[w]
        new == [contract EXCEPT ![r.row] = Merge(contract[r.row], r.sets)]
    IN  /\ r.stage = "loaded" /\ r.row \in Contracts
        /\ IF UniqueVersions(new)
           THEN /\ contract' = new
                /\ Answer(w)
                /\ UNCHANGED <<identity, binding, overlapped, faults>>
           ELSE IF r.op = "create_contract"
           THEN RetryOrConflict(w, MAX_VERSION_CREATE_ATTEMPTS)
           ELSE Crash(w)

\* idx_integration_identity_certificates_single_active
CertificateIndex(certificates) ==
    \A j, k \in DOMAIN certificates :
        certificates[j] = "active" /\ certificates[k] = "active" => j = k

WriteIdentity(w) ==
    LET r == request[w]
        old == identity[r.row].certificates
        certificates ==
            [k \in DOMAIN old |-> IF k = r.sets.found THEN r.sets.becomes ELSE old[k]]
                \o r.sets.issue
    IN  /\ r.stage = "loaded" /\ r.row \in Identities
        /\ IF CertificateIndex(certificates)
           THEN /\ identity' = [identity EXCEPT ![r.row] =
                     [Merge(identity[r.row], r.sets) EXCEPT !.certificates = certificates]]
                /\ Answer(w)
                /\ UNCHANGED <<contract, binding, overlapped, faults>>
           ELSE Crash(w)

\* idx_enforcement_bindings_single_active_per_scope
ScopeIndex(table) ==
    \A a, b \in Bindings :
        /\ table[a].status = "active" /\ table[b].status = "active"
        /\ table[a].integration_identity_id = table[b].integration_identity_id
        /\ table[a].source_operation = table[b].source_operation
        /\ table[a].environment = table[b].environment
        => a = b

\* uq_enforcement_binding_agents_membership: the rows to insert are not there
\* yet, and a new allow-list (arg: the agents it repeats) names nobody twice.
MembershipIndex(r) ==
    /\ r.op = "create_binding" => r.arg = {}
    /\ r.op = "add_agent" => r.arg \cap binding[r.row].allowed = {}

\* The binding and its allow-list as the request leaves them, the binding it
\* replaces retired.  (A DELETE names the id of the membership row: one that
\* was deleted and inserted again since the look-up would stay.)
BindingsAfter(r) ==
    [b \in Bindings |->
        IF b = r.row
        THEN CASE r.op = "add_agent" ->
                    [binding[b] EXCEPT !.allowed = binding[b].allowed \cup r.arg]
               [] r.op = "remove_agent" ->
                    [binding[b] EXCEPT !.allowed = binding[b].allowed \ r.arg]
               [] OTHER -> Merge(binding[b], r.sets)
        ELSE IF r.op = "activate_binding" /\ b \in r.sets.prior
        THEN [binding[b] EXCEPT !.status = "retired"]
        ELSE binding[b]]

WriteBinding(w) ==
    LET r == request[w]
        new == BindingsAfter(r)
    IN  /\ r.stage = "loaded" /\ r.row \in Bindings
        /\ IF ScopeIndex(new) /\ MembershipIndex(r)
           THEN /\ binding' = new
                /\ Answer(w)
                /\ UNCHANGED <<contract, identity, overlapped, faults>>
           ELSE IF r.op = "activate_binding"
           THEN RetryOrConflict(w, MAX_ACTIVATION_ATTEMPTS)
           ELSE Crash(w)

\* The next attempt of a request that lost against a unique index
Retry(w) ==
    LET r == request[w]
    IN  /\ r.stage = "retry"
        /\ LET out == IF r.op = "create_contract"
                      THEN create_contract_version(r.row, r.arg)
                      ELSE activate_binding_attempt(r.row, r.arg)
           IN  IF out.error = "ok"
               THEN /\ request' = [request EXCEPT ![w].stage = "loaded", ![w].sets = out.sets]
                    /\ UNCHANGED faults
               ELSE /\ Answer(w)
                    /\ faults' = faults \cup Unhandled(r.op, out.error)
        /\ UNCHANGED <<contract, identity, binding, overlapped>>

\* A UUID nobody has used
Fresh(x, absent) == absent /\ \A w \in Workers : request[w] # Idle => request[w].row # x

ContractRequest(w) ==
    \E c \in Contracts :
        \/ \E op \in Operations :
              \/ /\ Fresh(c, ~ContractFound(c))
                 /\ Submit(w, "create_contract", c, create_contract_version(c, op), op)
              \/ Submit(w, "edit_contract", c, edit_draft_contract_version(c, op), NONE)
        \/ Submit(w, "validate", c, validate_contract_version(c), NONE)
        \/ Submit(w, "approve", c, approve_contract_version(c), NONE)
        \/ Submit(w, "retire_contract", c, retire_contract_version(c), NONE)

IdentityRequest(w) ==
    \E i \in Identities :
        \/ /\ Fresh(i, ~IdentityFound(i))
           /\ Submit(w, "register", i, register_integration_identity(i), NONE)
        \/ Submit(w, "activate_identity", i, activate_integration_identity(i), NONE)
        \/ Submit(w, "suspend", i, suspend_integration_identity(i), NONE)
        \/ Submit(w, "revoke", i, revoke_integration_identity(i), NONE)
        \/ Submit(w, "retire_identity", i, retire_integration_identity(i), NONE)
        \/ /\ Len(identity[i].certificates) < MaxCertificates
           /\ Submit(w, "rotate", i, rotate_certificate(i), NONE)

BindingRequest(w) ==
    \E b \in Bindings :
        \/ \E i \in Identities, c \in Contracts, env \in Environments :
              \/ \E agents \in SUBSET Agents : \E repeated \in SUBSET agents :
                    /\ Fresh(b, ~BindingFound(b))
                    /\ Submit(w, "create_binding", b,
                              create_draft_binding(b, i, c, env, agents), repeated)
              \/ Submit(w, "edit_binding", b, edit_draft_binding(b, i, c, env), NONE)
        \/ \E agent \in Agents :
              \/ Submit(w, "add_agent", b, edit_allowed_agents(b), NewMember(b, agent))
              \/ Submit(w, "remove_agent", b, edit_allowed_agents(b), OldMember(b, agent))
        \/ \E eligible \in SUBSET Agents :
              Submit(w, "activate_binding", b, activate_binding_attempt(b, eligible), eligible)
        \/ Submit(w, "retire_binding", b, retire_binding(b), NONE)

Next ==
    \E w \in Workers :
        \/ ContractRequest(w) \/ IdentityRequest(w) \/ BindingRequest(w)
        \/ WriteContract(w) \/ WriteIdentity(w) \/ WriteBinding(w) \/ Retry(w)

Spec == Init /\ [][Next]_vars

-----------------------------------------------------------------------------
(* Every row keeps its type, whatever requests race: a status its CHECK    *)
(* constraint lists, certificates in the order they were issued.           *)
TypeOK ==
    /\ contract \in [Contracts -> ContractRow]
    /\ \A i \in Identities :
          /\ identity[i].status \in IdentityStatus
          /\ identity[i].certificates \in Seq(CertificateStatus)
    /\ binding \in [Bindings -> BindingRow]
    /\ \A w \in Workers : request[w] # Idle => request[w].row \in Tables
    /\ overlapped \subseteq Tables \cup Operations \cup {NONE}
    /\ faults \subseteq DOMAIN ContractEndpoints \cup DOMAIN IdentityEndpoints
                            \cup DOMAIN BindingEndpoints

Undisturbed(x) == x \notin overlapped

\* Two live bindings never answer for the same identity, operation and
\* environment, whatever activations race.
OneLiveBindingPerScope ==
    \A a, b \in Bindings :
        binding[a].status = "active" /\ binding[b].status = "active" /\ Scope(a) = Scope(b)
        => a = b

\* A live binding rests on an approved contract and names an agent, as
\* activate_binding demanded, unless requests overlapped on its rows:
\* retiring the contract is refused while the binding is live, and neither
\* it nor its allow-list can be edited any more.
LiveBindingGrounded ==
    \A b \in Bindings :
        LET c == binding[b].integration_contract_version_id
        IN  binding[b].status = "active" /\ Undisturbed(b) /\ Undisturbed(c)
            => contract[c].status = "approved" /\ binding[b].allowed # {}

\* The content hash frozen at validation still describes the mapping, unless
\* an edit overlapped with the validation.
ContentMatchesHash ==
    \A c \in Contracts :
        contract[c].status \in {"validated", "approved", "retired"} /\ Undisturbed(c)
        => contract[c].content_hash = compute_content_hash(contract[c])

\* An identity that was revoked or retired keeps no usable certificate,
\* unless requests overlapped on it; never more than one is active.
EndedIdentityHasNoCertificate ==
    \A i \in Identities :
        /\ identity[i].status \in {"revoked", "retired"} /\ Undisturbed(i)
           => \A k \in DOMAIN identity[i].certificates :
                 identity[i].certificates[k] \notin {"issued", "active"}
        /\ Cardinality({k \in DOMAIN identity[i].certificates :
                             identity[i].certificates[k] = "active"}) <= 1

\* Losing a race for a unique index is answered with a 409 by the two
\* operations that retry (create_contract, activate_binding); these six others
\* surface it as a 500, because no endpoint catches an IntegrityError.  As
\* long as no two requests have overlapped on a row only two of them can: an
\* edit that moves a mapping to a source operation where its version number is
\* taken, and a draft whose allow-list names an agent twice.
RacesAnswered ==
    /\ faults \subseteq {"edit_contract", "edit_binding", "create_binding", "add_agent",
                         "activate_identity", "rotate"}
    /\ overlapped = {} => faults \subseteq {"edit_contract", "create_binding"}

\* What the class comment of EnforcementBinding says of the copied column
\* (``immutable copies of the pinned Contract version's own identity''): a
\* live binding's source_operation is its contract's.
ScopeIsTheContracts ==
    \A b \in Bindings :
        binding[b].status = "active" =>
            binding[b].source_operation =
                contract[binding[b].integration_contract_version_id].source_operation

\* Terminal states stay terminal for rows no two requests worked on at once.
EndedStaysEnded ==
    [][/\ \A c \in Contracts : contract[c].status = "retired" /\ c \notin overlapped'
              => contract'[c] = contract[c]
       /\ \A b \in Bindings : binding[b].status = "retired" /\ b \notin overlapped'
              => binding'[b] = binding[b]
       /\ \A i \in Identities : identity[i].status \in {"revoked", "retired"} /\ i \notin overlapped'
              => identity'[i] = identity[i]]_vars

\* What activate_binding promises and its callers rely on, whatever races it:
\* live bindings are unique and grounded, and who lost a race is told so.
ActivationSound == OneLiveBindingPerScope /\ LiveBindingGrounded /\ RacesAnswered

\* The other rows administrators work on: contract versions keep what their
\* validation froze, ended identities keep no usable certificate.
RecordsSound == TypeOK /\ ContentMatchesHash /\ EndedIdentityHasNoCertificate

=============================================================================
