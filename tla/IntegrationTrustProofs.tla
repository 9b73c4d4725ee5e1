------------------------ MODULE IntegrationTrustProofs ------------------------
(***************************************************************************)
(* Theorems of IntegrationTrust, for any number of rows, agents and        *)
(* requests in flight.  The invariant says what each request has read and  *)
(* that it still holds: as long as no two requests met on the rows it      *)
(* relies on, nobody else has changed them.                                *)
(***************************************************************************)
EXTENDS IntegrationTrust, FiniteSetTheorems, SequenceTheorems, TLAPS

-----------------------------------------------------------------------------
(* Types, and the shape of the requests.                                   *)

IdentityRow == [status : IdentityStatus, certificates : Seq(CertificateStatus)]

Typed(con, ide, bin) ==
    /\ con \in [Contracts -> ContractRow] /\ ide \in [Identities -> IdentityRow]
    /\ bin \in [Bindings -> BindingRow]
    /\ \A i \in Identities : ide[i].status = "absent" => ide[i].certificates = << >>
    /\ \A b \in Bindings : bin[b].status # "absent" => bin[b].integration_contract_version_id \in Contracts

Rows == Tables \cup Operations \cup {NONE}

\* What each operation sets, once its checks have passed
ContractJob(r) ==
    /\ r.row \in Contracts
    /\ \/ r.op = "create_contract" /\ r.sets \in [status : {"draft"}, source_operation : Operations, version : Nat]
       \/ r.op = "edit_contract" /\ r.sets \in [source_operation : Operations]
       \/ r.op = "validate" /\ r.sets \in [status : {"validated"}, content_hash : Operations]
       \/ r.op = "approve" /\ r.sets \in [status : {"approved"}]
       \/ r.op = "retire_contract" /\ r.sets \in [status : {"retired"}]

IdentitySets(to, certificate) ==
    [status : {to}, found : Nat, becomes : {certificate}, issue : {<< >>}]

IdentityJob(r) ==
    /\ r.row \in Identities
    /\ \/ r.op = "register" /\ r.sets \in [status : {"registered"}, found : {0}, becomes : {"active"}, issue : {<<"issued">>}]
       \/ r.op = "activate_identity" /\ r.sets \in IdentitySets("active", "active")
       \/ r.op = "suspend" /\ r.sets \in IdentitySets("suspended", "active") /\ r.sets.found = 0
       \/ r.op = "revoke" /\ r.sets \in IdentitySets("revoked", "revoked")
       \/ r.op = "retire_identity" /\ r.sets \in IdentitySets("retired", "expired")
       \/ r.op = "rotate" /\ r.sets \in [found : Nat, becomes : {"rotated"}, issue : {<<"active">>}]

BindingJob(r) ==
    /\ r.row \in Bindings
    /\ \/ /\ r.op = "create_binding"
          /\ r.sets \in [status : {"draft"}, integration_identity_id : Identities,
                         integration_contract_version_id : Contracts, source_operation : Operations \cup {NONE},
                         environment : Environments, allowed : SUBSET Agents]
       \/ /\ r.op = "edit_binding"
          /\ r.sets \in [integration_identity_id : Identities, integration_contract_version_id : Contracts,
                         source_operation : Operations \cup {NONE}, environment : Environments]
       \/ r.op = "add_agent" /\ r.arg \in SUBSET Agents
       \/ r.op = "remove_agent" /\ r.arg \in SUBSET Agents
       \/ r.op = "activate_binding" /\ r.sets \in [status : {"active"}, prior : SUBSET Bindings]
       \/ r.op = "retire_binding" /\ r.sets \in [status : {"retired"}]

Shaped(r) ==
    \/ r = Idle
    \/ /\ DOMAIN r = {"stage", "op", "row", "sets", "arg", "rows", "attempt"}
       /\ r.stage = "loaded" \/ (r.stage = "retry" /\ r.op \in {"create_contract", "activate_binding"})
       /\ r.row \in r.rows /\ r.rows \subseteq Rows
       /\ r.op = "create_contract" => r.arg \in Operations
       /\ ContractJob(r) \/ IdentityJob(r) \/ BindingJob(r)

-----------------------------------------------------------------------------
(* What a request relies on.                                               *)

Creates == {"create_contract", "register", "create_binding"}

Missing(x, con, ide, bin) ==
    \/ x \in Contracts /\ con[x].status = "absent"
    \/ x \in Identities /\ ide[x].status = "absent"
    \/ x \in Bindings /\ bin[x].status = "absent"

\* A new row is one request's alone; any other request is about a row there is.
Alone(reqs, con, ide, bin) ==
    \A w \in Workers : reqs[w] # Idle =>
        /\ reqs[w].op \in Creates <=> Missing(reqs[w].row, con, ide, bin)
        /\ reqs[w].op \in Creates =>
              \A v \in Workers : v # w /\ reqs[v] # Idle => reqs[v].row # reqs[w].row

\* Requests that share a row are known to overlap, on all their rows.
Exclusive(reqs, ov) ==
    \A v, w \in Workers :
        v # w /\ reqs[v] # Idle /\ reqs[w] # Idle /\ reqs[v].rows \cap reqs[w].rows # {} =>
            reqs[v].rows \subseteq ov

\* k is the certificate with one of the statuses, 0 if there is none.
Finds(k, certificates, statuses) ==
    \/ k = 0 /\ \A j \in DOMAIN certificates : certificates[j] \notin statuses
    \/ k \in DOMAIN certificates /\ certificates[k] \in statuses

ContractBasis(r, con, bin, ov) ==
    r.row \notin ov =>
        /\ r.op = "edit_contract" => con[r.row].status = "draft"
        /\ r.op = "validate" =>
              con[r.row].status = "draft" /\ r.sets.content_hash = con[r.row].source_operation
        /\ r.op = "approve" => con[r.row].status = "validated"
        /\ r.op = "retire_contract" =>
              /\ con[r.row].status = "approved"
              /\ \A b \in Bindings : bin[b].integration_contract_version_id = r.row /\ b \notin ov =>
                    bin[b].status # "active"

IdentityBasis(r, ide, ov) ==
    LET row == ide[r.row]
    IN  r.row \notin ov =>
          /\ r.op = "activate_identity" =>
                row.status \in {"registered", "suspended"} /\ Finds(r.sets.found, row.certificates, {"issued"})
          /\ r.op = "suspend" => row.status = "active"
          /\ r.op \in {"revoke", "retire_identity"} =>
                /\ row.status \in {"registered", "active", "suspended"}
                /\ Finds(r.sets.found, row.certificates, {"issued", "active"})
          /\ r.op = "rotate" =>
                /\ row.status \in {"active", "suspended"}
                /\ r.sets.found # 0 /\ Finds(r.sets.found, row.certificates, {"active"})

BindingBasis(r, con, bin, ov) ==
    LET c == bin[r.row].integration_contract_version_id
    IN  /\ r.op \in {"create_binding", "edit_binding"} => r.sets.integration_contract_version_id \in r.rows
        /\ r.op = "retire_binding" => bin[r.row].status \in {"active", "retired"}
        /\ r.op = "activate_binding" =>
              \A d \in r.sets.prior : d # r.row /\ bin[d].status \in {"active", "retired"}
        /\ r.row \notin ov =>
              /\ r.op \in {"edit_binding", "add_agent", "remove_agent"} => bin[r.row].status = "draft"
              /\ r.op = "add_agent" => r.arg \cap bin[r.row].allowed = {}
              /\ r.op = "activate_binding" => c \in r.rows
              /\ r.op = "activate_binding" /\ r.stage = "loaded" =>
                    /\ bin[r.row].status = "draft" /\ bin[r.row].allowed # {}
                    /\ c \notin ov => con[c].status = "approved"

Basis(r, con, ide, bin, ov) ==
    /\ r.row \in Contracts => ContractBasis(r, con, bin, ov)
    /\ r.row \in Identities => IdentityBasis(r, ide, ov)
    /\ r.row \in Bindings => BindingBasis(r, con, bin, ov)

-----------------------------------------------------------------------------
(* What the tables say.                                                    *)

Indexed(con, ide, bin) ==
    /\ UniqueVersions(con) /\ ScopeIndex(bin)
    /\ \A i \in Identities : CertificateIndex(ide[i].certificates)

Usable(certificates) == {k \in DOMAIN certificates : certificates[k] \in {"issued", "active"}}

Grounded(con, bin, ov) ==
    \A b \in Bindings :
        LET c == bin[b].integration_contract_version_id
        IN  bin[b].status = "active" /\ b \notin ov /\ c \notin ov =>
                con[c].status = "approved" /\ bin[b].allowed # {}

Hashed(con, ov) ==
    \A c \in Contracts :
        con[c].status \in {"validated", "approved", "retired"} /\ c \notin ov =>
            con[c].content_hash = con[c].source_operation

OneUsable(ide, ov) ==
    \A i \in Identities : i \notin ov =>
        /\ \A j, k \in Usable(ide[i].certificates) : j = k
        /\ ide[i].status \in {"revoked", "retired"} => Usable(ide[i].certificates) = {}

Names == DOMAIN ContractEndpoints \cup DOMAIN IdentityEndpoints \cup DOMAIN BindingEndpoints

Inv ==
    /\ Typed(contract, identity, binding)
    /\ \A w \in Workers : Shaped(request[w])
    /\ DOMAIN request = Workers
    /\ overlapped \subseteq Rows
    /\ Alone(request, contract, identity, binding)
    /\ Exclusive(request, overlapped)
    /\ \A w \in Workers : request[w] # Idle => Basis(request[w], contract, identity, binding, overlapped)
    /\ Indexed(contract, identity, binding)
    /\ Grounded(contract, binding, overlapped)
    /\ Hashed(contract, overlapped)
    /\ OneUsable(identity, overlapped)
    /\ RacesAnswered

-----------------------------------------------------------------------------
(* Numbers: a finite set of naturals has a greatest one, because strict    *)
(* inclusion of the finite sets of larger elements is well-founded.        *)

LEMMA FiniteMax ==
    ASSUME NEW T \in SUBSET Nat, IsFiniteSet(T), T # {}
    PROVE  Max(T) \in T
<1> DEFINE Above(x) == {y \in T : x < y}
           F == {Above(x) : x \in T}
           S == FiniteSubsetsOf(Nat)
           R == StrictSubsetOrdering(Nat)
<1>1. \A x \in T : Above(x) \in S
  <2>1. \A x \in T : IsFiniteSet(Above(x))  BY FS_Subset
  <2> QED  BY <2>1 DEF FiniteSubsetsOf
<1>2. F \subseteq S /\ F # {}  BY <1>1
<1>3. IsWellFoundedOn(R, S)  BY FS_StrictSubsetOrderingWellFounded
<1>4. \A b, a \in SUBSET Nat : b \subseteq a /\ b # a => <<b, a>> \in R
  BY DEF StrictSubsetOrdering
<1>5. PICK a \in F : \A b \in F : <<b, a>> \notin R
  <2> HIDE DEF F, S, R
  <2> QED  BY <1>2, <1>3, WFMin
<1>6. PICK x \in T : a = Above(x)  OBVIOUS
<1>7. ASSUME NEW y \in T, x < y PROVE FALSE
  <2>0. x \in Nat /\ y \in Nat  OBVIOUS
  <2>1. Above(y) \subseteq Above(x)
    <3> SUFFICES ASSUME NEW z \in T, y < z PROVE x < z  OBVIOUS
    <3>1. z \in Nat  OBVIOUS
    <3> QED  BY <1>7, <2>0, <3>1
  <2>3. y \in Above(x) /\ y \notin Above(y)  BY <1>7, <2>0
  <2>2. <<Above(y), a>> \in R  BY <1>4, <1>6, <2>1, <2>3
  <2> QED  BY <1>5, <2>2
<1>8. \A y \in T : x >= y  BY <1>7
<1> QED  BY <1>8 DEF Max

\* The next version number is one.
LEMMA VersionNatural ==
    ASSUME NEW con \in [Contracts -> ContractRow], NEW op
    PROVE  1 + Max({0} \cup {con[d].version : d \in {x \in Contracts : con[x].source_operation = op}}) \in Nat
<1> DEFINE D == {x \in Contracts : con[x].source_operation = op}
           V == {con[d].version : d \in D}
           T == {0} \cup V
<1>1. V \subseteq Nat  BY DEF ContractRow
<1>2. IsFiniteSet(D)  BY FS_Subset, ConstantsAssumption
<1>3. IsFiniteSet(V)
  <2> DEFINE f == [d \in D |-> con[d].version]
  <2>1. f \in Surjection(D, V)  BY DEF Surjection
  <2> HIDE DEF D, V, f
  <2> QED  BY <1>2, <2>1, FS_Surjection
<1>4. IsFiniteSet({0} \cup V)
  <2>1. IsFiniteSet({0})  BY FS_Singleton
  <2> HIDE DEF V
  <2> QED  BY <1>3, <2>1, FS_Union
<1>5. T \in SUBSET Nat /\ T # {}  BY <1>1
<1>6. Max(T) \in T
  <2>1. IsFiniteSet(T)  BY <1>4
  <2> HIDE DEF T
  <2> QED  BY <1>5, <2>1, FiniteMax
<1>7. Max(T) \in Nat
  <2> HIDE DEF T
  <2> QED  BY <1>5, <1>6
<1> QED  BY <1>7

-----------------------------------------------------------------------------
(* Requests that start.                                                    *)

\* What was known stays known when more requests are known to overlap.
LEMMA KnownStays ==
    ASSUME NEW r, NEW con, NEW ide, NEW bin, NEW ov, NEW more, ov \subseteq more
    PROVE  /\ Basis(r, con, ide, bin, ov) => Basis(r, con, ide, bin, more)
           /\ Grounded(con, bin, ov) => Grounded(con, bin, more)
           /\ Hashed(con, ov) => Hashed(con, more)
           /\ OneUsable(ide, ov) => OneUsable(ide, more)
<1>1. ContractBasis(r, con, bin, ov) => ContractBasis(r, con, bin, more)  BY DEF ContractBasis
<1>2. IdentityBasis(r, ide, ov) => IdentityBasis(r, ide, more)  BY DEF IdentityBasis
<1>3. BindingBasis(r, con, bin, ov) => BindingBasis(r, con, bin, more)  BY DEF BindingBasis
<1>4. Grounded(con, bin, ov) => Grounded(con, bin, more)  BY DEF Grounded
<1>5. Hashed(con, ov) => Hashed(con, more)  BY DEF Hashed
<1>6. OneUsable(ide, ov) => OneUsable(ide, more)  BY DEF OneUsable
<1> QED  BY <1>1, <1>2, <1>3, <1>4, <1>5, <1>6 DEF Basis

LEMMA Stages ==
    ASSUME NEW r, Shaped(r)
    PROVE  r # Idle <=> r.stage # "idle"
  BY DEF Shaped, Idle

New(op, x, sets, arg) ==
    [stage |-> "loaded", op |-> op, row |-> x, sets |-> sets, arg |-> arg,
     rows |-> RowsOf(op, x, sets), attempt |-> 1]

\* A request starts whose operation answers its errors, and has read what its
\* operation relies on.
LEMMA SubmitKeeps ==
    ASSUME Inv, NEW w \in Workers, NEW op, NEW x, NEW out, NEW arg, Submit(w, op, x, out, arg),
           out.error # "ok" => Unhandled(op, out.error) = {},
           out.error = "ok" =>
               LET r == New(op, x, out.sets, arg)
               IN  /\ Shaped(r) /\ Basis(r, contract, identity, binding, {})
                   /\ op \in Creates <=> Missing(x, contract, identity, binding)
                   /\ op \in Creates => \A v \in Workers : request[v] # Idle => request[v].row # x
    PROVE  Inv'
<1>0. request[w] = Idle /\ UNCHANGED <<contract, identity, binding>>  BY DEF Submit
<1>1. CASE out.error # "ok"
  <2>1. UNCHANGED vars  BY <1>0, <1>1 DEF Submit, vars
  <2> QED  BY <2>1 DEF Inv, vars, RacesAnswered, Typed, Alone, Exclusive, Indexed, Grounded, Hashed, OneUsable
<1>2. CASE out.error = "ok"
  <2> DEFINE r == New(op, x, out.sets, arg)
             rows == RowsOf(op, x, out.sets)
             meets == {e \in Others(w) : e \cap rows # {}}
  <2>0. /\ Shaped(r) /\ Basis(r, contract, identity, binding, {})
        /\ op \in Creates <=> Missing(x, contract, identity, binding)
        /\ op \in Creates => \A v \in Workers : request[v] # Idle => request[v].row # x
    BY <1>2
  <2>1. /\ request' = [request EXCEPT ![w] = r] /\ UNCHANGED faults
        /\ overlapped' = IF meets = {} THEN overlapped ELSE overlapped \cup rows \cup UNION meets
    BY <1>2 DEF Submit, New
  <2>2. r.op = op /\ r.row = x /\ r.rows = rows /\ r # Idle
    <3>1. r.stage # "idle"  BY DEF New
    <3> QED  BY <3>1 DEF New, Idle
  <2> HIDE DEF r
  <2>3. \A v \in Workers : Shaped(request[v]) /\ (request[v] # Idle => request[v].rows \subseteq Rows)
    BY DEF Inv, Shaped
  <2>4. request'[w] = r /\ \A v \in Workers : v # w => request'[v] = request[v]
    BY <2>1 DEF Inv
  <2>5. \A v \in Workers \ {w} : request[v] # Idle => request[v].rows \in Others(w)
    BY <2>3, Stages DEF Others
  <2>6. \A e \in Others(w) : e \subseteq Rows
    BY <2>3, Stages DEF Others
  <2>7. rows \subseteq Rows  BY <2>0, <2>2 DEF Shaped
  <2>8. overlapped \subseteq overlapped' /\ overlapped' \subseteq Rows
    BY <2>1, <2>6, <2>7 DEF Inv
  <2>9. \A v \in Workers \ {w} : request[v] # Idle /\ request[v].rows \cap rows # {} =>
           request[v].rows \subseteq overlapped' /\ rows \subseteq overlapped'
    BY <2>1, <2>5
  <2> HIDE DEF meets, rows
  <2>10. \A v \in Workers : Shaped(request'[v])  BY <2>0, <2>3, <2>4
  <2>11. DOMAIN request' = Workers  BY <2>1 DEF Inv
  <2>12. Alone(request', contract, identity, binding)
    <3>1. Alone(request, contract, identity, binding)  BY DEF Inv
    <3>2. ASSUME op \notin Creates, NEW v \in Workers, request[v] # Idle, request[v].op \in Creates
          PROVE  request[v].row # x
      BY <2>0, <3>1, <3>2 DEF Alone
    <3> QED  BY <2>0, <2>2, <2>4, <3>1, <3>2 DEF Alone
  <2>13. Exclusive(request', overlapped')
    <3>1. Exclusive(request, overlapped)  BY DEF Inv
    <3> SUFFICES ASSUME NEW v \in Workers, NEW u \in Workers, v # u, request'[v] # Idle, request'[u] # Idle,
                        request'[v].rows \cap request'[u].rows # {}
                 PROVE  request'[v].rows \subseteq overlapped'
      BY DEF Exclusive
    <3>2. CASE v = w  BY <2>2, <2>4, <2>9, <3>2
    <3>3. CASE u = w  BY <2>2, <2>4, <2>9, <3>3
    <3>4. CASE v # w /\ u # w  BY <2>4, <2>8, <3>1, <3>4 DEF Exclusive
    <3> QED  BY <3>2, <3>3, <3>4
  <2>14. \A v \in Workers : request'[v] # Idle => Basis(request'[v], contract, identity, binding, overlapped')
    <3>1. Basis(r, contract, identity, binding, overlapped')  BY <2>0, KnownStays
    <3>2. \A v \in Workers : request[v] # Idle => Basis(request[v], contract, identity, binding, overlapped)
      BY DEF Inv
    <3>3. \A v \in Workers : request[v] # Idle => Basis(request[v], contract, identity, binding, overlapped')
      BY <2>8, <3>2, KnownStays
    <3> QED  BY <2>4, <3>1, <3>3
  <2>15. /\ Grounded(contract, binding, overlapped') /\ Hashed(contract, overlapped')
         /\ OneUsable(identity, overlapped')
    BY <2>8, KnownStays DEF Inv
  <2>16. Typed(contract, identity, binding) /\ Indexed(contract, identity, binding)  BY DEF Inv
  <2>17. RacesAnswered'
    <3>1. overlapped' = {} => overlapped = {}  BY <2>8
    <3> QED  BY <2>1, <3>1 DEF Inv, RacesAnswered
  <2> QED  BY <1>0, <2>8, <2>10, <2>11, <2>12, <2>13, <2>14, <2>15, <2>16, <2>17 DEF Inv
<1> QED  BY <1>1, <1>2

LEMMA ContractErrors ==
    /\ \A e \in {"not_found", "validation", "conflict"} : Unhandled("create_contract", e) = {}
    /\ \A e \in {"not_found", "transition", "validation"} : Unhandled("edit_contract", e) = {}
    /\ \A e \in {"not_found", "transition", "validation"} : Unhandled("validate", e) = {}
    /\ \A e \in {"not_found", "transition"} : Unhandled("approve", e) = {}
    /\ \A e \in {"not_found", "transition", "active_binding"} : Unhandled("retire_contract", e) = {}
  BY DEF Unhandled, Handles, ContractEndpoints, IdentityEndpoints, BindingEndpoints

LEMMA IdentityErrors ==
    /\ \A op \in {"activate_identity", "suspend", "revoke", "retire_identity"} :
          \A e \in {"not_found", "transition"} : Unhandled(op, e) = {}
    /\ \A e \in {"not_found", "transition", "no_active_certificate"} : Unhandled("rotate", e) = {}
  BY DEF Unhandled, Handles, ContractEndpoints, IdentityEndpoints, BindingEndpoints

LEMMA BindingErrors ==
    /\ \A op \in {"create_binding", "retire_binding", "remove_agent"} : Unhandled(op, "not_found") = {}
    /\ \A op \in {"retire_binding", "remove_agent"} : Unhandled(op, "transition") = {}
    /\ \A op \in {"edit_binding", "add_agent", "activate_binding"} :
          \A e \in {"not_found", "transition", "validation"} : Unhandled(op, e) = {}
    /\ Unhandled("activate_binding", "conflict") = {}
  BY DEF Unhandled, Handles, ContractEndpoints, IdentityEndpoints, BindingEndpoints

LEMMA TablesApart ==
    /\ \A c \in Contracts : c \notin Identities /\ c \notin Bindings
    /\ \A i \in Identities : i \notin Contracts /\ i \notin Bindings
    /\ \A b \in Bindings : b \notin Contracts /\ b \notin Identities
  BY ConstantsAssumption

LEMMA RowsRead ==
    ASSUME NEW x, NEW op, NEW sets
    PROVE  x \in RowsOf(op, x, sets)
  BY DEF RowsOf

LEMMA BindingRowsRelied ==
    ASSUME NEW x \in Bindings, NEW op, NEW sets,
           op \notin {"create_contract", "edit_contract", "retire_contract"}
    PROVE  /\ binding[x].integration_contract_version_id \in RowsOf(op, x, sets)
           /\ "integration_contract_version_id" \in DOMAIN sets =>
                 sets.integration_contract_version_id \in RowsOf(op, x, sets)
  BY DEF RowsOf

LEMMA ContractRowsRead ==
    ASSUME NEW x \in Contracts, NEW op, NEW sets,
           op \in {"create_contract", "edit_contract"} => sets.source_operation \in Operations
    PROVE  RowsOf(op, x, sets) \subseteq Rows
  BY TablesApart DEF RowsOf, Rows, Tables

LEMMA IdentityRowsRead ==
    ASSUME NEW x \in Identities, NEW op, NEW sets,
           op \notin {"create_contract", "edit_contract", "retire_contract"}
    PROVE  RowsOf(op, x, sets) \subseteq Rows
  BY TablesApart DEF RowsOf, Rows, Tables

LEMMA BindingRowsRead ==
    ASSUME NEW x \in Bindings, NEW op, NEW sets, binding \in [Bindings -> BindingRow],
           op \notin {"create_contract", "edit_contract", "retire_contract"},
           "integration_contract_version_id" \in DOMAIN sets => sets.integration_contract_version_id \in Contracts
    PROVE  RowsOf(op, x, sets) \subseteq Rows
<1>1. binding[x].integration_contract_version_id \in Contracts \cup {NONE}  BY DEF BindingRow
<1> QED  BY <1>1 DEF RowsOf, Rows, Tables

\* The contract operations, as read.
LEMMA ContractRequestKeeps ==
    ASSUME Inv, NEW w \in Workers, ContractRequest(w)
    PROVE  Inv'
<1> DEFINE Keeps(op, c, out, arg) ==
              /\ out.error # "ok" => Unhandled(op, out.error) = {}
              /\ out.error = "ok" =>
                    LET r == New(op, c, out.sets, arg)
                    IN  /\ Shaped(r) /\ Basis(r, contract, identity, binding, {})
                        /\ op \in Creates <=> Missing(c, contract, identity, binding)
<1>1. ASSUME NEW c \in Contracts
      PROVE  c \notin Identities /\ c \notin Bindings
             /\ (Missing(c, contract, identity, binding) <=> ~ContractFound(c))
  BY TablesApart DEF Missing, ContractFound
<1>2. \A c \in Contracts : contract[c] \in ContractRow  BY DEF Inv, Typed
<1>3. ASSUME NEW c \in Contracts, NEW op, NEW sets, NEW arg,
             ContractJob(New(op, c, sets, arg)), op = "create_contract" => arg \in Operations
      PROVE  Shaped(New(op, c, sets, arg))
  <2> DEFINE r == New(op, c, sets, arg)
  <2>1. /\ DOMAIN r = {"stage", "op", "row", "sets", "arg", "rows", "attempt"}
        /\ r.stage = "loaded" /\ r.row = c /\ r.rows = RowsOf(op, c, sets) /\ r.op = op /\ r.arg = arg /\ r.sets = sets
    BY DEF New
  <2> HIDE DEF r
  <2>2. op \in {"create_contract", "edit_contract"} => sets.source_operation \in Operations
    BY <1>3, <2>1 DEF ContractJob, r
  <2>3. c \in RowsOf(op, c, sets) /\ RowsOf(op, c, sets) \subseteq Rows
    BY <2>2, RowsRead, ContractRowsRead
  <2> QED  BY <1>3, <2>1, <2>3 DEF Shaped, r
<1>4. ASSUME NEW c \in Contracts, NEW op, NEW sets, NEW arg,
             ContractBasis(New(op, c, sets, arg), contract, binding, {})
      PROVE  Basis(New(op, c, sets, arg), contract, identity, binding, {})
  BY <1>1, <1>4 DEF Basis, New
<1>5. ASSUME NEW c \in Contracts, NEW o \in Operations, ~ContractFound(c)
      PROVE  Keeps("create_contract", c, create_contract_version(c, o), o)
  <2> DEFINE sets == [status |-> "draft", source_operation |-> o,
                      version |-> 1 + Max({0} \cup {contract[d].version :
                                        d \in {x \in Contracts : contract[x].source_operation = o}})]
             out == create_contract_version(c, o)
  <2>1. out = IF o \in WellFormed THEN Set(sets) ELSE Raise("validation")
    BY DEF create_contract_version, validate_semantic_fields
  <2>2. sets \in [status : {"draft"}, source_operation : Operations, version : Nat]
    BY VersionNatural DEF Inv, Typed
  <2> HIDE DEF sets, out
  <2>3. CASE o \notin WellFormed  BY <2>1, <2>3, ContractErrors DEF Raise, out
  <2>4. CASE o \in WellFormed
    <3>1. out.error = "ok" /\ out.sets = sets  BY <2>1, <2>4 DEF Set
    <3>2. ContractJob(New("create_contract", c, sets, o))  BY <2>2 DEF ContractJob, New
    <3>3. ContractBasis(New("create_contract", c, sets, o), contract, binding, {})
      BY DEF ContractBasis, New
    <3> QED  BY <1>1, <1>3, <1>4, <1>5, <3>1, <3>2, <3>3 DEF Creates, out
  <2> QED  BY <2>3, <2>4
<1>6. ASSUME NEW c \in Contracts, NEW o \in Operations
      PROVE  Keeps("edit_contract", c, edit_draft_contract_version(c, o), NONE)
  <2> DEFINE sets == [source_operation |-> o]
             out == edit_draft_contract_version(c, o)
  <2>1. CASE out.error # "ok"
    <3>1. out.error \in {"not_found", "transition", "validation"}
      BY <2>1 DEF edit_draft_contract_version, Raise, Set
    <3> QED  BY <2>1, <3>1, ContractErrors
  <2>2. CASE out.error = "ok"
    <3>1. ContractFound(c) /\ contract[c].status = "draft" /\ out.sets = sets
      BY <2>2 DEF edit_draft_contract_version, Raise, Set
    <3>2. ContractJob(New("edit_contract", c, sets, NONE))  BY DEF ContractJob, New
    <3>3. ContractBasis(New("edit_contract", c, sets, NONE), contract, binding, {})
      BY <3>1 DEF ContractBasis, New
    <3> HIDE DEF out, sets
    <3> QED  BY <1>1, <1>3, <1>4, <2>2, <3>1, <3>2, <3>3 DEF Creates, out
  <2> QED  BY <2>1, <2>2
<1>7. ASSUME NEW c \in Contracts
      PROVE  Keeps("validate", c, validate_contract_version(c), NONE)
  <2> DEFINE sets == [status |-> "validated", content_hash |-> contract[c].source_operation]
             out == validate_contract_version(c)
  <2>1. CASE out.error # "ok"
    <3>1. out.error \in {"not_found", "transition", "validation"}
      BY <2>1 DEF validate_contract_version, Raise, Set
    <3> QED  BY <2>1, <3>1, ContractErrors
  <2>2. CASE out.error = "ok"
    <3>1. /\ ContractFound(c) /\ contract[c].status = "draft" /\ out.sets = sets
          /\ contract[c].source_operation \in WellFormed
      BY <2>2 DEF validate_contract_version, Raise, Set, compute_content_hash, validate_semantic_fields
    <3>2. ContractJob(New("validate", c, sets, NONE))  BY <3>1, ConstantsAssumption DEF ContractJob, New
    <3>3. ContractBasis(New("validate", c, sets, NONE), contract, binding, {})
      BY <3>1 DEF ContractBasis, New
    <3> HIDE DEF out, sets
    <3> QED  BY <1>1, <1>3, <1>4, <2>2, <3>1, <3>2, <3>3 DEF Creates, out
  <2> QED  BY <2>1, <2>2
<1>8. ASSUME NEW c \in Contracts
      PROVE  Keeps("approve", c, approve_contract_version(c), NONE)
  <2> DEFINE sets == [status |-> "approved"]
             out == approve_contract_version(c)
  <2>1. CASE out.error # "ok"
    <3>1. out.error \in {"not_found", "transition"}
      BY <2>1 DEF approve_contract_version, Raise, Set
    <3> QED  BY <2>1, <3>1, ContractErrors
  <2>2. CASE out.error = "ok"
    <3>1. ContractFound(c) /\ contract[c].status = "validated" /\ out.sets = sets
      BY <2>2 DEF approve_contract_version, Raise, Set
    <3>2. ContractJob(New("approve", c, sets, NONE))  BY DEF ContractJob, New
    <3>3. ContractBasis(New("approve", c, sets, NONE), contract, binding, {})
      BY <3>1 DEF ContractBasis, New
    <3> HIDE DEF out, sets
    <3> QED  BY <1>1, <1>3, <1>4, <2>2, <3>1, <3>2, <3>3 DEF Creates, out
  <2> QED  BY <2>1, <2>2
<1>9. ASSUME NEW c \in Contracts
      PROVE  Keeps("retire_contract", c, retire_contract_version(c), NONE)
  <2> DEFINE sets == [status |-> "retired"]
             out == retire_contract_version(c)
  <2>1. CASE out.error # "ok"
    <3>1. out.error \in {"not_found", "transition", "active_binding"}
      BY <2>1 DEF retire_contract_version, Raise, Set
    <3> QED  BY <2>1, <3>1, ContractErrors
  <2>2. CASE out.error = "ok"
    <3>1. /\ ContractFound(c) /\ contract[c].status = "approved" /\ out.sets = sets
          /\ ~has_active_binding_for_contract_version(c)
      BY <2>2 DEF retire_contract_version, Raise, Set
    <3>2. ContractJob(New("retire_contract", c, sets, NONE))  BY DEF ContractJob, New
    <3>3. ContractBasis(New("retire_contract", c, sets, NONE), contract, binding, {})
      BY <3>1 DEF ContractBasis, New, has_active_binding_for_contract_version
    <3> HIDE DEF out, sets
    <3> QED  BY <1>1, <1>3, <1>4, <2>2, <3>1, <3>2, <3>3 DEF Creates, out
  <2> QED  BY <2>1, <2>2
<1> HIDE DEF Keeps
<1>10. ASSUME NEW c \in Contracts, NEW op \in {"edit_contract", "validate", "approve", "retire_contract"},
              NEW out, NEW arg, Submit(w, op, c, out, arg), Keeps(op, c, out, arg)
       PROVE  Inv'
  BY <1>10, SubmitKeeps DEF Keeps, Creates
<1>11. ASSUME NEW c \in Contracts, NEW o \in Operations, Fresh(c, ~ContractFound(c)),
              Submit(w, "create_contract", c, create_contract_version(c, o), o)
       PROVE  Inv'
  <2>1. Keeps("create_contract", c, create_contract_version(c, o), o)  BY <1>5, <1>11 DEF Fresh
  <2>2. \A v \in Workers : request[v] # Idle => request[v].row # c  BY <1>11 DEF Fresh
  <2> QED  BY <1>11, <2>1, <2>2, SubmitKeeps DEF Keeps
<1> QED  BY <1>6, <1>7, <1>8, <1>9, <1>10, <1>11 DEF ContractRequest

LEMMA CertificateFound ==
    ASSUME Inv, NEW i \in Identities, NEW statuses
    PROVE  /\ CertificateWith(i, statuses) \in Nat
           /\ Finds(CertificateWith(i, statuses), identity[i].certificates, statuses)
           /\ statuses = {} => CertificateWith(i, statuses) = 0
<1> DEFINE certificates == identity[i].certificates
           found == {k \in DOMAIN certificates : certificates[k] \in statuses}
<1>1. certificates \in Seq(CertificateStatus)  BY DEF Inv, Typed, IdentityRow
<1>2. DOMAIN certificates \subseteq Nat  BY <1>1
<1>3. CertificateWith(i, statuses) = IF found = {} THEN 0 ELSE CHOOSE k \in found : TRUE
  BY DEF CertificateWith
<1> HIDE DEF certificates
<1>4. CASE found = {}  BY <1>3, <1>4 DEF Finds, certificates
<1>5. CASE found # {}
  <2>1. (CHOOSE k \in found : TRUE) \in found  BY <1>5
  <2> QED  BY <1>2, <1>3, <1>5, <2>1 DEF Finds, certificates
<1> QED  BY <1>4, <1>5

\* The identity operations, as read.
LEMMA IdentityRequestKeeps ==
    ASSUME Inv, NEW w \in Workers, IdentityRequest(w)
    PROVE  Inv'
<1> DEFINE Keeps(op, i, out, arg) ==
              /\ out.error # "ok" => Unhandled(op, out.error) = {}
              /\ out.error = "ok" =>
                    LET r == New(op, i, out.sets, arg)
                    IN  /\ Shaped(r) /\ Basis(r, contract, identity, binding, {})
                        /\ op \in Creates <=> Missing(i, contract, identity, binding)
<1>1. ASSUME NEW i \in Identities
      PROVE  i \notin Contracts /\ i \notin Bindings
             /\ (Missing(i, contract, identity, binding) <=> ~IdentityFound(i))
  BY TablesApart DEF Missing, IdentityFound
<1>2. ASSUME NEW i \in Identities, NEW op, NEW sets, NEW arg, IdentityJob(New(op, i, sets, arg))
      PROVE  Shaped(New(op, i, sets, arg))
  <2> DEFINE r == New(op, i, sets, arg)
  <2>1. /\ DOMAIN r = {"stage", "op", "row", "sets", "arg", "rows", "attempt"}
        /\ r.stage = "loaded" /\ r.row = i /\ r.rows = RowsOf(op, i, sets) /\ r.op = op
    BY DEF New
  <2> HIDE DEF r
  <2>2. op \notin {"create_contract", "edit_contract", "retire_contract"}
    BY <1>2, <2>1 DEF IdentityJob, r
  <2>3. i \in RowsOf(op, i, sets) /\ RowsOf(op, i, sets) \subseteq Rows
    BY <2>2, RowsRead, IdentityRowsRead
  <2> QED  BY <1>2, <2>1, <2>2, <2>3 DEF Shaped, r
<1>3. ASSUME NEW i \in Identities, NEW op, NEW sets, NEW arg,
             IdentityBasis(New(op, i, sets, arg), identity, {})
      PROVE  Basis(New(op, i, sets, arg), contract, identity, binding, {})
  BY <1>1, <1>3 DEF Basis, New
<1>4. ASSUME NEW i \in Identities, ~IdentityFound(i)
      PROVE  Keeps("register", i, register_integration_identity(i), NONE)
  <2> DEFINE sets == [status |-> "registered", found |-> 0, becomes |-> "active", issue |-> <<"issued">>]
             out == register_integration_identity(i)
  <2>1. out.error = "ok" /\ out.sets = sets  BY DEF register_integration_identity, Set
  <2>2. IdentityJob(New("register", i, sets, NONE))  BY DEF IdentityJob, New
  <2>3. IdentityBasis(New("register", i, sets, NONE), identity, {})  BY DEF IdentityBasis, New
  <2> HIDE DEF sets, out
  <2> QED  BY <1>1, <1>2, <1>3, <1>4, <2>1, <2>2, <2>3 DEF Creates, out
<1>5. ASSUME NEW i \in Identities, NEW op \in {"activate_identity", "suspend", "revoke", "retire_identity"},
             NEW to, NEW statuses, NEW certificate,
             \/ op = "activate_identity" /\ to = "active" /\ statuses = {"issued"} /\ certificate = "active"
             \/ op = "suspend" /\ to = "suspended" /\ statuses = {} /\ certificate = "active"
             \/ op = "revoke" /\ to = "revoked" /\ statuses = {"issued", "active"} /\ certificate = "revoked"
             \/ op = "retire_identity" /\ to = "retired" /\ statuses = {"issued", "active"} /\ certificate = "expired"
      PROVE  Keeps(op, i, Transition(i, to, statuses, certificate), NONE)
  <2> DEFINE found == CertificateWith(i, statuses)
             sets == [status |-> to, found |-> found, becomes |-> certificate, issue |-> << >>]
             out == Transition(i, to, statuses, certificate)
  <2>1. CASE out.error # "ok"
    <3>1. out.error \in {"not_found", "transition"}  BY <2>1 DEF Transition, Raise, Set
    <3> QED  BY <2>1, <3>1, IdentityErrors
  <2>2. CASE out.error = "ok"
    <3>1. IdentityFound(i) /\ to \in AllowedTransitions[identity[i].status] /\ out.sets = sets
      BY <2>2 DEF Transition, Raise, Set
    <3>2. identity[i].status \in IdentityStatus  BY DEF Inv, Typed, IdentityRow
    <3>3. found \in Nat /\ Finds(found, identity[i].certificates, statuses) /\ (statuses = {} => found = 0)
      BY CertificateFound
    <3> HIDE DEF found
    <3>4. /\ op = "activate_identity" => identity[i].status \in {"registered", "suspended"}
          /\ op = "suspend" => identity[i].status = "active"
          /\ op \in {"revoke", "retire_identity"} => identity[i].status \in {"registered", "active", "suspended"}
      BY <1>5, <3>1, <3>2 DEF AllowedTransitions, IdentityStatus
    <3>5. sets.found = found /\ sets \in IdentitySets(to, certificate)  BY <3>3 DEF IdentitySets
    <3> HIDE DEF sets, out
    <3>6. IdentityJob(New(op, i, sets, NONE))  BY <1>5, <3>3, <3>5 DEF IdentityJob, New
    <3>7. IdentityBasis(New(op, i, sets, NONE), identity, {})
      BY <1>5, <3>3, <3>4, <3>5 DEF IdentityBasis, New
    <3> QED  BY <1>1, <1>2, <1>3, <2>2, <3>1, <3>6, <3>7 DEF Creates, out
  <2> QED  BY <2>1, <2>2
<1>6. ASSUME NEW i \in Identities
      PROVE  Keeps("rotate", i, rotate_certificate(i), NONE)
  <2> DEFINE found == CertificateWith(i, {"active"})
             sets == [found |-> found, becomes |-> "rotated", issue |-> <<"active">>]
             out == rotate_certificate(i)
  <2>1. CASE out.error # "ok"
    <3>1. out.error \in {"not_found", "transition", "no_active_certificate"}
      BY <2>1 DEF rotate_certificate, Raise, Set
    <3> QED  BY <2>1, <3>1, IdentityErrors
  <2>2. CASE out.error = "ok"
    <3>1. IdentityFound(i) /\ identity[i].status \in {"active", "suspended"} /\ found # 0 /\ out.sets = sets
      BY <2>2 DEF rotate_certificate, Raise, Set
    <3>2. found \in Nat /\ Finds(found, identity[i].certificates, {"active"})  BY CertificateFound
    <3> HIDE DEF found
    <3>3. sets.found = found /\ sets \in [found : Nat, becomes : {"rotated"}, issue : {<<"active">>}]
      BY <3>2
    <3> HIDE DEF sets, out
    <3>4. IdentityJob(New("rotate", i, sets, NONE))  BY <3>3 DEF IdentityJob, New
    <3>5. IdentityBasis(New("rotate", i, sets, NONE), identity, {})
      BY <3>1, <3>2, <3>3 DEF IdentityBasis, New
    <3> QED  BY <1>1, <1>2, <1>3, <2>2, <3>1, <3>4, <3>5 DEF Creates, out
  <2> QED  BY <2>1, <2>2
<1> HIDE DEF Keeps
<1>7. ASSUME NEW i \in Identities, NEW op \in {"activate_identity", "suspend", "revoke", "retire_identity", "rotate"},
             NEW out, Submit(w, op, i, out, NONE), Keeps(op, i, out, NONE)
      PROVE  Inv'
  BY <1>7, SubmitKeeps DEF Keeps, Creates
<1>8. ASSUME NEW i \in Identities, Fresh(i, ~IdentityFound(i)),
             Submit(w, "register", i, register_integration_identity(i), NONE)
      PROVE  Inv'
  <2>1. Keeps("register", i, register_integration_identity(i), NONE)  BY <1>4, <1>8 DEF Fresh
  <2>2. \A v \in Workers : request[v] # Idle => request[v].row # i  BY <1>8 DEF Fresh
  <2> QED  BY <1>8, <2>1, <2>2, SubmitKeeps DEF Keeps
<1>9. ASSUME NEW i \in Identities, Submit(w, "activate_identity", i, activate_integration_identity(i), NONE)
      PROVE  Inv'
  BY <1>5, <1>7, <1>9 DEF activate_integration_identity
<1>10. ASSUME NEW i \in Identities, Submit(w, "suspend", i, suspend_integration_identity(i), NONE)
       PROVE  Inv'
  BY <1>5, <1>7, <1>10 DEF suspend_integration_identity
<1>11. ASSUME NEW i \in Identities, Submit(w, "revoke", i, revoke_integration_identity(i), NONE)
       PROVE  Inv'
  BY <1>5, <1>7, <1>11 DEF revoke_integration_identity
<1>12. ASSUME NEW i \in Identities, Submit(w, "retire_identity", i, retire_integration_identity(i), NONE)
       PROVE  Inv'
  BY <1>5, <1>7, <1>12 DEF retire_integration_identity
<1>13. ASSUME NEW i \in Identities, Submit(w, "rotate", i, rotate_certificate(i), NONE)
       PROVE  Inv'
  BY <1>6, <1>7, <1>13
<1> QED  BY <1>8, <1>9, <1>10, <1>11, <1>12, <1>13 DEF IdentityRequest

\* The binding operations, as read.
LEMMA BindingRequestKeeps ==
    ASSUME Inv, NEW w \in Workers, BindingRequest(w)
    PROVE  Inv'
<1> DEFINE Keeps(op, b, out, arg) ==
              /\ out.error # "ok" => Unhandled(op, out.error) = {}
              /\ out.error = "ok" =>
                    LET r == New(op, b, out.sets, arg)
                    IN  /\ Shaped(r) /\ Basis(r, contract, identity, binding, {})
                        /\ op \in Creates <=> Missing(b, contract, identity, binding)
<1>0. binding \in [Bindings -> BindingRow]  BY DEF Inv, Typed
<1>1. ASSUME NEW b \in Bindings
      PROVE  b \notin Contracts /\ b \notin Identities
             /\ (Missing(b, contract, identity, binding) <=> ~BindingFound(b))
  BY TablesApart DEF Missing, BindingFound
<1>2. ASSUME NEW b \in Bindings, NEW op, NEW sets, NEW arg, BindingJob(New(op, b, sets, arg)),
             "integration_contract_version_id" \in DOMAIN sets => sets.integration_contract_version_id \in Contracts
      PROVE  Shaped(New(op, b, sets, arg))
  <2> DEFINE r == New(op, b, sets, arg)
  <2>1. /\ DOMAIN r = {"stage", "op", "row", "sets", "arg", "rows", "attempt"}
        /\ r.stage = "loaded" /\ r.row = b /\ r.rows = RowsOf(op, b, sets) /\ r.op = op
    BY DEF New
  <2> HIDE DEF r
  <2>2. op \notin {"create_contract", "edit_contract", "retire_contract"}
    BY <1>2, <2>1 DEF BindingJob, r
  <2>3. b \in RowsOf(op, b, sets) /\ RowsOf(op, b, sets) \subseteq Rows
    BY <1>0, <1>2, <2>2, RowsRead, BindingRowsRead
  <2> QED  BY <1>2, <2>1, <2>2, <2>3 DEF Shaped, r
<1>3. ASSUME NEW b \in Bindings, NEW op, NEW sets, NEW arg,
             BindingBasis(New(op, b, sets, arg), contract, binding, {})
      PROVE  Basis(New(op, b, sets, arg), contract, identity, binding, {})
  BY <1>1, <1>3 DEF Basis, New
<1>4. ASSUME NEW b \in Bindings, NEW k \in Identities, NEW c \in Contracts, NEW env \in Environments,
             NEW agents \in SUBSET Agents, NEW repeated, ~BindingFound(b)
      PROVE  Keeps("create_binding", b, create_draft_binding(b, k, c, env, agents), repeated)
  <2> DEFINE sets == [status |-> "draft", integration_identity_id |-> k,
                      integration_contract_version_id |-> c,
                      source_operation |-> contract[c].source_operation,
                      environment |-> env, allowed |-> agents]
             out == create_draft_binding(b, k, c, env, agents)
  <2>1. CASE out.error # "ok"
    <3>1. out.error = "not_found"  BY <2>1 DEF create_draft_binding, Raise, Set
    <3> QED  BY <2>1, <3>1, BindingErrors
  <2>2. CASE out.error = "ok"
    <3>1. out.sets = sets  BY <2>2 DEF create_draft_binding, Raise, Set
    <3>2. contract[c].source_operation \in Operations \cup {NONE}  BY DEF Inv, Typed, ContractRow
    <3>3. BindingJob(New("create_binding", b, sets, repeated))  BY <3>2 DEF BindingJob, New
    <3>4. sets.integration_contract_version_id = c /\ "integration_contract_version_id" \in DOMAIN sets  OBVIOUS
    <3> HIDE DEF out, sets
    <3>5. BindingBasis(New("create_binding", b, sets, repeated), contract, binding, {})
      <4>1. sets.integration_contract_version_id \in RowsOf("create_binding", b, sets)
        BY <3>4, BindingRowsRelied
      <4> QED  BY <4>1 DEF BindingBasis, New
    <3> QED  BY <1>1, <1>2, <1>3, <1>4, <2>2, <3>1, <3>3, <3>4, <3>5 DEF Creates, out
  <2> QED  BY <2>1, <2>2
<1>5. ASSUME NEW b \in Bindings, NEW k \in Identities, NEW c \in Contracts, NEW env \in Environments
      PROVE  Keeps("edit_binding", b, edit_draft_binding(b, k, c, env), NONE)
  <2> DEFINE sets == [integration_identity_id |-> k, integration_contract_version_id |-> c,
                      source_operation |-> contract[c].source_operation, environment |-> env]
             out == edit_draft_binding(b, k, c, env)
  <2>1. CASE out.error # "ok"
    <3>1. out.error \in {"not_found", "transition"}  BY <2>1 DEF edit_draft_binding, Raise, Set
    <3> QED  BY <2>1, <3>1, BindingErrors
  <2>2. CASE out.error = "ok"
    <3>1. BindingFound(b) /\ binding[b].status = "draft" /\ out.sets = sets
      BY <2>2 DEF edit_draft_binding, Raise, Set
    <3>2. contract[c].source_operation \in Operations \cup {NONE}  BY DEF Inv, Typed, ContractRow
    <3>3. BindingJob(New("edit_binding", b, sets, NONE))  BY <3>2 DEF BindingJob, New
    <3>4. sets.integration_contract_version_id = c /\ "integration_contract_version_id" \in DOMAIN sets  OBVIOUS
    <3> HIDE DEF out, sets
    <3>5. BindingBasis(New("edit_binding", b, sets, NONE), contract, binding, {})
      <4>1. sets.integration_contract_version_id \in RowsOf("edit_binding", b, sets)
        BY <3>4, BindingRowsRelied
      <4> QED  BY <3>1, <4>1 DEF BindingBasis, New
    <3> QED  BY <1>1, <1>2, <1>3, <2>2, <3>1, <3>3, <3>4, <3>5 DEF Creates, out
  <2> QED  BY <2>1, <2>2
<1>6. ASSUME NEW b \in Bindings, NEW op \in {"add_agent", "remove_agent"}, NEW rows \in SUBSET Agents,
             op = "add_agent" => rows \cap binding[b].allowed = {}
      PROVE  Keeps(op, b, edit_allowed_agents(b), rows)
  <2> DEFINE out == edit_allowed_agents(b)
  <2>1. CASE out.error # "ok"
    <3>1. out.error \in {"not_found", "transition"}  BY <2>1 DEF edit_allowed_agents, Raise, Set
    <3> QED  BY <2>1, <3>1, BindingErrors
  <2>2. CASE out.error = "ok"
    <3>1. BindingFound(b) /\ binding[b].status = "draft" /\ out.sets = << >>
      BY <2>2 DEF edit_allowed_agents, Raise, Set
    <3>2. BindingJob(New(op, b, << >>, rows))  BY DEF BindingJob, New
    <3>3. BindingBasis(New(op, b, << >>, rows), contract, binding, {})
      BY <1>6, <3>1 DEF BindingBasis, New
    <3>4. "integration_contract_version_id" \notin DOMAIN << >>  OBVIOUS
    <3> HIDE DEF out
    <3> QED  BY <1>1, <1>2, <1>3, <2>2, <3>1, <3>2, <3>3, <3>4 DEF Creates, out
  <2> QED  BY <2>1, <2>2
<1>7. ASSUME NEW b \in Bindings
      PROVE  Keeps("retire_binding", b, retire_binding(b), NONE)
  <2> DEFINE sets == [status |-> "retired"]
             out == retire_binding(b)
  <2>1. CASE out.error # "ok"
    <3>1. out.error \in {"not_found", "transition"}  BY <2>1 DEF retire_binding, Raise, Set
    <3> QED  BY <2>1, <3>1, BindingErrors
  <2>2. CASE out.error = "ok"
    <3>1. BindingFound(b) /\ binding[b].status = "active" /\ out.sets = sets
      BY <2>2 DEF retire_binding, Raise, Set
    <3>2. BindingJob(New("retire_binding", b, sets, NONE))  BY DEF BindingJob, New
    <3>3. BindingBasis(New("retire_binding", b, sets, NONE), contract, binding, {})
      BY <3>1 DEF BindingBasis, New
    <3>4. "integration_contract_version_id" \notin DOMAIN sets  OBVIOUS
    <3> HIDE DEF out, sets
    <3> QED  BY <1>1, <1>2, <1>3, <2>2, <3>1, <3>2, <3>3, <3>4 DEF Creates, out
  <2> QED  BY <2>1, <2>2
<1>8. ASSUME NEW b \in Bindings, NEW eligible
      PROVE  Keeps("activate_binding", b, activate_binding_attempt(b, eligible), eligible)
  <2> DEFINE prior == {d \in Bindings \ {b} : binding[d].status = "active" /\ Scope(d) = Scope(b)}
             sets == [status |-> "active", prior |-> prior]
             out == activate_binding_attempt(b, eligible)
  <2>1. CASE out.error # "ok"
    <3>1. out.error \in {"not_found", "transition", "validation"}
      BY <2>1 DEF activate_binding_attempt, Raise, Set
    <3> QED  BY <2>1, <3>1, BindingErrors
  <2>2. CASE out.error = "ok"
    <3>1. /\ BindingFound(b) /\ binding[b].status = "draft" /\ out.sets = sets
          /\ contract[binding[b].integration_contract_version_id].status = "approved"
          /\ binding[b].allowed # {}
      BY <2>2 DEF activate_binding_attempt, Raise, Set
    <3>2. BindingJob(New("activate_binding", b, sets, eligible))  BY DEF BindingJob, New
    <3>3. sets.prior = prior /\ "integration_contract_version_id" \notin DOMAIN sets  OBVIOUS
    <3> HIDE DEF out, sets
    <3>4. BindingBasis(New("activate_binding", b, sets, eligible), contract, binding, {})
      <4>1. binding[b].integration_contract_version_id \in RowsOf("activate_binding", b, sets)
        BY BindingRowsRelied
      <4> QED  BY <3>1, <3>3, <4>1 DEF BindingBasis, New
    <3> QED  BY <1>1, <1>2, <1>3, <2>2, <3>1, <3>2, <3>3, <3>4 DEF Creates, out
  <2> QED  BY <2>1, <2>2
<1> HIDE DEF Keeps
<1>9. ASSUME NEW b \in Bindings, NEW op \in {"edit_binding", "add_agent", "remove_agent", "retire_binding", "activate_binding"},
             NEW out, NEW arg, Submit(w, op, b, out, arg), Keeps(op, b, out, arg)
      PROVE  Inv'
  BY <1>9, SubmitKeeps DEF Keeps, Creates
<1>10. ASSUME NEW b \in Bindings, NEW k \in Identities, NEW c \in Contracts, NEW env \in Environments,
              NEW agents \in SUBSET Agents, NEW repeated, Fresh(b, ~BindingFound(b)),
              Submit(w, "create_binding", b, create_draft_binding(b, k, c, env, agents), repeated)
       PROVE  Inv'
  <2>1. Keeps("create_binding", b, create_draft_binding(b, k, c, env, agents), repeated)
    BY <1>4, <1>10 DEF Fresh
  <2>2. \A v \in Workers : request[v] # Idle => request[v].row # b  BY <1>10 DEF Fresh
  <2> QED  BY <1>10, <2>1, <2>2, SubmitKeeps DEF Keeps
<1>11. ASSUME NEW b \in Bindings, NEW k \in Identities, NEW c \in Contracts, NEW env \in Environments,
              Submit(w, "edit_binding", b, edit_draft_binding(b, k, c, env), NONE)
       PROVE  Inv'
  BY <1>5, <1>9, <1>11
<1>12. ASSUME NEW b \in Bindings, NEW agent \in Agents,
              \/ Submit(w, "add_agent", b, edit_allowed_agents(b), NewMember(b, agent))
              \/ Submit(w, "remove_agent", b, edit_allowed_agents(b), OldMember(b, agent))
       PROVE  Inv'
  <2>1. /\ NewMember(b, agent) \in SUBSET Agents /\ NewMember(b, agent) \cap binding[b].allowed = {}
        /\ OldMember(b, agent) \in SUBSET Agents
    BY DEF NewMember, OldMember
  <2>2. /\ Keeps("add_agent", b, edit_allowed_agents(b), NewMember(b, agent))
        /\ Keeps("remove_agent", b, edit_allowed_agents(b), OldMember(b, agent))
    BY <1>6, <2>1
  <2> QED  BY <1>9, <1>12, <2>2
<1>13. ASSUME NEW b \in Bindings, NEW eligible \in SUBSET Agents,
              Submit(w, "activate_binding", b, activate_binding_attempt(b, eligible), eligible)
       PROVE  Inv'
  BY <1>8, <1>9, <1>13
<1>14. ASSUME NEW b \in Bindings, Submit(w, "retire_binding", b, retire_binding(b), NONE)
       PROVE  Inv'
  BY <1>7, <1>9, <1>14
<1> QED  BY <1>10, <1>11, <1>12, <1>13, <1>14 DEF BindingRequest

-----------------------------------------------------------------------------
(* Requests that end or try again, the tables untouched.                   *)

LEMMA RequestMoves ==
    ASSUME Inv, NEW w \in Workers, request[w] # Idle, NEW r,
           request' = [request EXCEPT ![w] = r],
           UNCHANGED <<contract, identity, binding, overlapped>>, RacesAnswered',
           r # Idle => /\ Shaped(r) /\ Basis(r, contract, identity, binding, overlapped)
                       /\ r.op = request[w].op /\ r.row = request[w].row /\ r.rows = request[w].rows
    PROVE  Inv'
<1>1. request'[w] = r /\ \A v \in Workers : v # w => request'[v] = request[v]  BY DEF Inv
<1>2. DOMAIN request' = Workers /\ \A v \in Workers : Shaped(request'[v])
  BY <1>1 DEF Inv, Shaped
<1>3. Alone(request', contract, identity, binding)  BY <1>1 DEF Inv, Alone
<1>4. Exclusive(request', overlapped)  BY <1>1 DEF Inv, Exclusive
<1>5. \A v \in Workers : request'[v] # Idle => Basis(request'[v], contract, identity, binding, overlapped)
  BY <1>1 DEF Inv
<1> QED  BY <1>2, <1>3, <1>4, <1>5 DEF Inv

\* The index that refuses the write is one these operations can violate.
LEMMA CrashKeeps ==
    ASSUME Inv, NEW w \in Workers, request[w] # Idle, Crash(w),
           request[w].op \in {"edit_contract", "edit_binding", "create_binding", "add_agent",
                              "activate_identity", "rotate"},
           overlapped = {} => request[w].op \in {"edit_contract", "create_binding"}
    PROVE  Inv'
<1>1. RacesAnswered'  BY DEF Inv, RacesAnswered, Crash, Unhandled
<1> QED  BY <1>1, RequestMoves DEF Crash, Answer

LEMMA ConflictKeeps ==
    ASSUME Inv, NEW w \in Workers, request[w] # Idle, NEW limit, RetryOrConflict(w, limit),
           request[w].op \in {"create_contract", "activate_binding"}
    PROVE  Inv'
<1>1. CASE request[w].attempt < limit
  <2> DEFINE old == request[w]
             r == [old EXCEPT !.stage = "retry", !.attempt = old.attempt + 1]
  <2>0. Shaped(old) /\ old # Idle /\ Basis(old, contract, identity, binding, overlapped)  BY DEF Inv
  <2>1. request' = [request EXCEPT ![w] = r]  BY <1>1 DEF RetryOrConflict, Inv
  <2>2. RacesAnswered'  BY <1>1 DEF RetryOrConflict, Inv, RacesAnswered
  <2>3. UNCHANGED <<contract, identity, binding, overlapped>>  BY DEF RetryOrConflict
  <2>4. DOMAIN old = {"stage", "op", "row", "sets", "arg", "rows", "attempt"}  BY <2>0 DEF Shaped
  <2>5. old.op \in {"create_contract", "activate_binding"}  OBVIOUS
  <2> HIDE DEF old
  <2>6. /\ DOMAIN r = {"stage", "op", "row", "sets", "arg", "rows", "attempt"} /\ r.stage = "retry"
        /\ r.op = old.op /\ r.row = old.row /\ r.rows = old.rows /\ r.sets = old.sets /\ r.arg = old.arg
    BY <2>4
  <2> HIDE DEF r
  <2>7. Shaped(r)
    <3>1. ContractJob(old) \/ IdentityJob(old) \/ BindingJob(old)  BY <2>0 DEF Shaped
    <3>2. ContractJob(old) => ContractJob(r)  BY <2>6 DEF ContractJob
    <3>3. IdentityJob(old) => IdentityJob(r)  BY <2>6 DEF IdentityJob
    <3>4. BindingJob(old) => BindingJob(r)  BY <2>6 DEF BindingJob
    <3>5. old.row \in old.rows /\ old.rows \subseteq Rows /\ (old.op = "create_contract" => old.arg \in Operations)
      BY <2>0 DEF Shaped
    <3> QED  BY <2>5, <2>6, <3>1, <3>2, <3>3, <3>4, <3>5 DEF Shaped
  <2>8. Basis(r, contract, identity, binding, overlapped)
    <3>1. ContractBasis(r, contract, binding, overlapped)  BY <2>5, <2>6 DEF ContractBasis
    <3>2. IdentityBasis(r, identity, overlapped)  BY <2>5, <2>6 DEF IdentityBasis
    <3>3. BindingBasis(old, contract, binding, overlapped) => BindingBasis(r, contract, binding, overlapped)
      BY <2>5, <2>6 DEF BindingBasis
    <3> QED  BY <2>0, <2>6, <3>1, <3>2, <3>3 DEF Basis
  <2> QED  BY <2>1, <2>2, <2>3, <2>6, <2>7, <2>8, RequestMoves DEF old
<1>2. CASE ~(request[w].attempt < limit)
  <2>1. request' = [request EXCEPT ![w] = Idle] /\ UNCHANGED <<contract, identity, binding, overlapped>>
    BY <1>2 DEF RetryOrConflict, Answer
  <2>2. RacesAnswered'
    BY <1>2, ContractErrors, BindingErrors DEF RetryOrConflict, Inv, RacesAnswered
  <2> QED  BY <2>1, <2>2, RequestMoves
<1> QED  BY <1>1, <1>2

-----------------------------------------------------------------------------
(* Requests that write.                                                    *)

\* Two requests at the same row, or on rows one of them relies on, are known
\* to overlap.
LEMMA Apart ==
    ASSUME Inv, NEW w \in Workers, NEW v \in Workers, v # w, request[w] # Idle, request[v] # Idle
    PROVE  /\ \A x \in request[v].rows \cap request[w].rows :
                 request[v].rows \subseteq overlapped /\ request[w].rows \subseteq overlapped
           /\ request[v].row \in request[v].rows /\ request[w].row \in request[w].rows
           /\ request[v].row \notin overlapped =>
                 request[w].row \notin request[v].rows /\ request[v].row \notin request[w].rows
<1>1. request[v].row \in request[v].rows /\ request[w].row \in request[w].rows  BY DEF Inv, Shaped
<1>2. \A x \in request[v].rows \cap request[w].rows :
         request[v].rows \subseteq overlapped /\ request[w].rows \subseteq overlapped
  BY DEF Inv, Exclusive
<1> QED  BY <1>1, <1>2

LEMMA AnswerKeeps ==
    ASSUME Inv, NEW w \in Workers, request[w] # Idle, Answer(w), UNCHANGED <<overlapped, faults>>,
           Typed(contract', identity', binding'), Indexed(contract', identity', binding'),
           Grounded(contract', binding', overlapped), Hashed(contract', overlapped),
           OneUsable(identity', overlapped),
           ~Missing(request[w].row, contract', identity', binding'),
           \A v \in Workers : v # w /\ request[v] # Idle =>
               /\ request[v].row # request[w].row =>
                     (Missing(request[v].row, contract', identity', binding') <=>
                      Missing(request[v].row, contract, identity, binding))
               /\ Basis(request[v], contract', identity', binding', overlapped)
    PROVE  Inv'
<1>1. request'[w] = Idle /\ \A v \in Workers : v # w => request'[v] = request[v]
  BY DEF Inv, Answer
<1>2. DOMAIN request' = Workers /\ \A v \in Workers : Shaped(request'[v])
  BY <1>1 DEF Inv, Shaped, Answer
<1>3. Alone(request', contract', identity', binding')
  <2>1. Alone(request, contract, identity, binding)  BY DEF Inv
  <2>2. \A v \in Workers : v # w /\ request[v] # Idle /\ request[v].row = request[w].row =>
           request[v].op \notin Creates
    BY <2>1 DEF Alone
  <2> QED  BY <1>1, <2>1, <2>2 DEF Alone
<1>4. Exclusive(request', overlapped)  BY <1>1 DEF Inv, Exclusive
<1>5. \A v \in Workers : request'[v] # Idle => Basis(request'[v], contract', identity', binding', overlapped)
  BY <1>1
<1>6. RacesAnswered' /\ overlapped' \subseteq Rows  BY DEF Inv, RacesAnswered
<1> QED  BY <1>2, <1>3, <1>4, <1>5, <1>6 DEF Inv

\* The contract UPDATE.
LEMMA WriteContractKeeps ==
    ASSUME Inv, NEW w \in Workers, WriteContract(w)
    PROVE  Inv'
<1> DEFINE r == request[w]
           x == r.row
           row == Merge(contract[x], r.sets)
           new == [contract EXCEPT ![x] = row]
<1>0. r.stage = "loaded" /\ x \in Contracts /\ r # Idle  BY Stages DEF WriteContract, Inv
<1>1. ContractJob(r) /\ x \notin Identities /\ x \notin Bindings
  BY <1>0, TablesApart DEF Inv, Shaped, IdentityJob, BindingJob, Idle
<1>2. contract \in [Contracts -> ContractRow] /\ contract[x] \in ContractRow  BY <1>0 DEF Inv, Typed
<1>3. ContractBasis(r, contract, binding, overlapped)  BY <1>0 DEF Inv, Basis
<1>4. r.op = "create_contract" <=> contract[x].status = "absent"
  BY <1>0, <1>1 DEF Inv, Alone, Missing, Creates, ContractJob
<1> HIDE DEF r
\* What each operation leaves in the row
<1>5. /\ row \in ContractRow
      /\ r.op = "create_contract" => row.status = "draft"
      /\ r.op = "edit_contract" => row.status = contract[x].status
      /\ r.op = "validate" => /\ row.status = "validated" /\ row.content_hash = r.sets.content_hash
                              /\ row.source_operation = contract[x].source_operation
      /\ r.op \in {"approve", "retire_contract"} =>
            /\ row.content_hash = contract[x].content_hash
            /\ row.source_operation = contract[x].source_operation
      /\ r.op = "approve" => row.status = "approved"
      /\ r.op = "retire_contract" => row.status = "retired"
  <2>1. CASE r.op = "create_contract"
    <3>1. r.sets \in [status : {"draft"}, source_operation : Operations, version : Nat]
      BY <1>1, <2>1 DEF ContractJob
    <3> QED  BY <1>2, <2>1, <3>1 DEF Merge, ContractRow
  <2>2. CASE r.op = "edit_contract"
    <3>1. r.sets \in [source_operation : Operations]  BY <1>1, <2>2 DEF ContractJob
    <3> QED  BY <1>2, <2>2, <3>1 DEF Merge, ContractRow
  <2>3. CASE r.op = "validate"
    <3>1. r.sets \in [status : {"validated"}, content_hash : Operations]  BY <1>1, <2>3 DEF ContractJob
    <3> QED  BY <1>2, <2>3, <3>1 DEF Merge, ContractRow
  <2>4. CASE r.op = "approve"
    <3>1. r.sets \in [status : {"approved"}]  BY <1>1, <2>4 DEF ContractJob
    <3> QED  BY <1>2, <2>4, <3>1 DEF Merge, ContractRow
  <2>5. CASE r.op = "retire_contract"
    <3>1. r.sets \in [status : {"retired"}]  BY <1>1, <2>5 DEF ContractJob
    <3> QED  BY <1>2, <2>5, <3>1 DEF Merge, ContractRow
  <2> QED  BY <1>1, <2>1, <2>2, <2>3, <2>4, <2>5 DEF ContractJob
<1> HIDE DEF row
<1>6. /\ new \in [Contracts -> ContractRow] /\ new[x] = row
      /\ \A c \in Contracts : c # x => new[c] = contract[c]
  BY <1>0, <1>2, <1>5
<1>7. r.op \in {"create_contract", "edit_contract", "validate", "approve", "retire_contract"}
  BY <1>1 DEF ContractJob
<1> HIDE DEF new
<1>8. CASE UniqueVersions(new)
  <2>1. contract' = new /\ Answer(w) /\ UNCHANGED <<identity, binding, overlapped, faults>>
    BY <1>0, <1>8 DEF WriteContract, r, row, new
  <2>2. Typed(new, identity, binding)  BY <1>6 DEF Inv, Typed
  <2>3. Indexed(new, identity, binding)  BY <1>8 DEF Inv, Indexed
  <2>4. row.status # "absent"  BY <1>4, <1>5, <1>7
  <2>5. Grounded(new, binding, overlapped)
    <3> SUFFICES ASSUME NEW b \in Bindings, NEW c, c = binding[b].integration_contract_version_id,
                        binding[b].status = "active", b \notin overlapped, c \notin overlapped
                 PROVE  new[c].status = "approved" /\ binding[b].allowed # {}
      BY DEF Grounded
    <3>1. contract[c].status = "approved" /\ binding[b].allowed # {}  BY DEF Inv, Grounded
    <3>2. c \in Contracts  BY DEF Inv, Typed
    <3>3. c # x  BY <1>3, <1>4, <1>7, <3>1 DEF ContractBasis
    <3> QED  BY <1>6, <3>1, <3>2, <3>3
  <2>6. Hashed(new, overlapped)
    <3> SUFFICES ASSUME NEW c \in Contracts, new[c].status \in {"validated", "approved", "retired"},
                        c \notin overlapped
                 PROVE  new[c].content_hash = new[c].source_operation
      BY DEF Hashed
    <3>1. Hashed(contract, overlapped)  BY DEF Inv
    <3>2. CASE c # x  BY <1>6, <3>1, <3>2 DEF Hashed
    <3>3. CASE c = x  BY <1>3, <1>5, <1>6, <1>7, <3>1, <3>3 DEF Hashed, ContractBasis, r
    <3> QED  BY <3>2, <3>3
  <2>7. ~Missing(x, new, identity, binding)  BY <1>1, <1>6, <2>4 DEF Missing
  <2>8. ASSUME NEW v \in Workers, v # w, request[v] # Idle
        PROVE  /\ request[v].row # x =>
                     (Missing(request[v].row, new, identity, binding) <=>
                      Missing(request[v].row, contract, identity, binding))
               /\ Basis(request[v], new, identity, binding, overlapped)
    <3> DEFINE q == request[v]
    <3>1. q.row # x => (Missing(q.row, new, identity, binding) <=> Missing(q.row, contract, identity, binding))
      BY <1>6 DEF Missing
    <3>2. /\ Basis(q, contract, identity, binding, overlapped)
          /\ x \in q.rows => q.rows \subseteq overlapped
          /\ q.row \notin overlapped => q.row # x
      BY <1>0, <2>8, Apart DEF Inv, r
    <3>4. binding \in [Bindings -> BindingRow]
          /\ \A b \in Bindings : binding[b].status # "absent" => binding[b].integration_contract_version_id \in Contracts
      BY DEF Inv, Typed
    <3> HIDE DEF q
    <3>5. q.row \in Contracts => ContractBasis(q, new, binding, overlapped)
      BY <1>6, <3>2 DEF Basis, ContractBasis
    <3>6. q.row \in Bindings => BindingBasis(q, new, binding, overlapped)
      <4> SUFFICES ASSUME q.row \in Bindings, BindingBasis(q, contract, binding, overlapped),
                          q.row \notin overlapped, q.op = "activate_binding", q.stage = "loaded",
                          NEW c, c = binding[q.row].integration_contract_version_id, c \notin overlapped
                   PROVE  new[c].status = "approved"
        BY <3>2 DEF Basis, BindingBasis
      <4>1. c \in q.rows /\ binding[q.row].status = "draft" /\ contract[c].status = "approved"
        BY DEF BindingBasis
      <4>2. c \in Contracts /\ c # x  BY <3>2, <3>4, <4>1
      <4> QED  BY <1>6, <4>1, <4>2
    <3> QED  BY <3>1, <3>2, <3>5, <3>6 DEF Basis, q
  <2>9. OneUsable(identity, overlapped)  BY DEF Inv
  <2> QED  BY <1>0, <2>1, <2>2, <2>3, <2>5, <2>6, <2>7, <2>8, <2>9, AnswerKeeps DEF r
<1>9. CASE ~UniqueVersions(new)
  <2>1. CASE r.op = "create_contract"
    <3>1. RetryOrConflict(w, MAX_VERSION_CREATE_ATTEMPTS)
      BY <1>0, <1>9, <2>1 DEF WriteContract, r, row, new
    <3> QED  BY <1>0, <2>1, <3>1, ConflictKeeps DEF r
  <2>2. CASE r.op # "create_contract"
    <3>1. Crash(w)  BY <1>0, <1>9, <2>2 DEF WriteContract, r, row, new
    <3>2. CASE r.op = "edit_contract"  BY <1>0, <3>1, <3>2, CrashKeeps DEF r
    \* Any other leaves operation and number as they are
    <3>3. CASE r.op # "edit_contract"
      <4>1. row.version = contract[x].version /\ row.source_operation = contract[x].source_operation
        <5>1. "version" \notin DOMAIN r.sets /\ "source_operation" \notin DOMAIN r.sets
          BY <1>1, <2>2, <3>3 DEF ContractJob
        <5> QED  BY <1>2, <5>1 DEF row, Merge, ContractRow
      <4>2. UniqueVersions(contract) /\ contract[x].status # "absent"
        BY <1>4, <2>2 DEF Inv, Indexed
      <4> QED  BY <1>6, <1>9, <4>1, <4>2 DEF UniqueVersions
    <3> QED  BY <3>2, <3>3
  <2> QED  BY <2>1, <2>2
<1> QED  BY <1>8, <1>9

\* The certificates of an identity after its UPDATE and INSERT
CertificatesAfter(old, sets) ==
    [k \in DOMAIN old |-> IF k = sets.found THEN sets.becomes ELSE old[k]] \o sets.issue

LEMMA CertificatesWritten ==
    ASSUME NEW old \in Seq(CertificateStatus), NEW sets, sets.becomes \in CertificateStatus,
           sets.issue \in Seq(CertificateStatus), Len(sets.issue) <= 1
    PROVE  LET certificates == CertificatesAfter(old, sets)
           IN  /\ certificates \in Seq(CertificateStatus)
               /\ \A k \in DOMAIN old :
                     /\ k \in DOMAIN certificates
                     /\ certificates[k] = IF k = sets.found THEN sets.becomes ELSE old[k]
               /\ Len(sets.issue) = 0 => DOMAIN certificates = DOMAIN old
               /\ Len(sets.issue) = 1 =>
                     /\ DOMAIN certificates = DOMAIN old \cup {Len(old) + 1}
                     /\ Len(old) + 1 \notin DOMAIN old /\ certificates[Len(old) + 1] = sets.issue[1]
<1> DEFINE issue == sets.issue
           kept == [k \in DOMAIN old |-> IF k = sets.found THEN sets.becomes ELSE old[k]]
           certificates == CertificatesAfter(old, sets)
<1>1. Len(old) \in Nat /\ DOMAIN old = 1..Len(old) /\ \A k \in DOMAIN old : old[k] \in CertificateStatus
  OBVIOUS
<1>2. kept \in [1..Len(old) -> CertificateStatus]  BY <1>1
<1>3. kept \in Seq(CertificateStatus) /\ Len(kept) = Len(old) /\ DOMAIN kept = DOMAIN old
  BY <1>1, <1>2
<1>4. \A k \in DOMAIN old : kept[k] = IF k = sets.found THEN sets.becomes ELSE old[k]  OBVIOUS
<1>5. certificates = kept \o issue /\ issue \in Seq(CertificateStatus) /\ Len(issue) \in {0, 1}
  <2>1. certificates = kept \o issue  BY Zenon DEF CertificatesAfter
  <2>2. issue \in Seq(CertificateStatus) /\ Len(issue) <= 1  OBVIOUS
  <2> HIDE DEF kept, certificates, issue
  <2>3. Len(issue) \in {0, 1}
    <3>1. \A n \in Nat : n <= 1 => n \in {0, 1}  OBVIOUS
    <3>2. Len(issue) \in Nat  BY <2>2, LenProperties, Zenon
    <3> QED  BY <2>2, <3>1, <3>2, Zenon
  <2> QED  BY <2>1, <2>2, <2>3
<1> HIDE DEF kept, certificates, issue
<1>6. /\ certificates \in Seq(CertificateStatus) /\ Len(certificates) = Len(old) + Len(issue)
      /\ \A k \in 1..(Len(old) + Len(issue)) :
            certificates[k] = IF k <= Len(old) THEN kept[k] ELSE issue[k - Len(old)]
  <2>1. \A S : \A s \in Seq(S), t \in Seq(S) :
           /\ s \o t \in Seq(S) /\ Len(s \o t) = Len(s) + Len(t)
           /\ \A k \in 1..(Len(s) + Len(t)) : (s \o t)[k] = IF k <= Len(s) THEN s[k] ELSE t[k - Len(s)]
    BY ConcatProperties, Zenon
  <2>2. kept \in Seq(CertificateStatus) /\ issue \in Seq(CertificateStatus) /\ Len(kept) = Len(old)
    BY <1>3, <1>5
  <2>3. /\ kept \o issue \in Seq(CertificateStatus) /\ Len(kept \o issue) = Len(kept) + Len(issue)
        /\ \A k \in 1..(Len(kept) + Len(issue)) :
              (kept \o issue)[k] = IF k <= Len(kept) THEN kept[k] ELSE issue[k - Len(kept)]
    BY <2>1, <2>2, Zenon
  <2> QED  BY <1>5, <2>2, <2>3, Zenon
<1>7. DOMAIN certificates = 1..(Len(old) + Len(issue))  BY <1>6
<1>8. \A k \in DOMAIN old : k \in DOMAIN certificates /\ certificates[k] = kept[k]
  BY <1>1, <1>5, <1>6, <1>7
<1>9. Len(issue) = 0 => DOMAIN certificates = DOMAIN old  BY <1>1, <1>7
<1>10. ASSUME Len(issue) = 1
       PROVE  /\ Len(old) + 1 \notin DOMAIN old /\ DOMAIN certificates = DOMAIN old \cup {Len(old) + 1}
              /\ certificates[Len(old) + 1] = issue[1]
  <2>1. Len(old) + 1 \notin DOMAIN old /\ DOMAIN certificates = DOMAIN old \cup {Len(old) + 1}
    BY <1>1, <1>7, <1>10
  <2>2. certificates[Len(old) + 1] = issue[1]
    <3>1. Len(old) + 1 \in 1..(Len(old) + Len(issue)) /\ ~(Len(old) + 1 <= Len(old)) /\ Len(old) + 1 - Len(old) = 1
      BY <1>1, <1>10
    <3> QED  BY <1>6, <3>1
  <2> QED  BY <2>1, <2>2
<1>11. \A k \in DOMAIN old : /\ k \in DOMAIN certificates
                             /\ certificates[k] = IF k = sets.found THEN sets.becomes ELSE old[k]
  BY <1>4, <1>8
<1>12. certificates \in Seq(CertificateStatus)  BY <1>6
<1>13. certificates = CertificatesAfter(old, sets) /\ issue = sets.issue  BY DEF certificates, issue
<1> QED  BY <1>9, <1>10, <1>11, <1>12, <1>13

\* The identity UPDATE, with its certificates.
LEMMA WriteIdentityKeeps ==
    ASSUME Inv, NEW w \in Workers, WriteIdentity(w)
    PROVE  Inv'
<1> DEFINE r == request[w]
           x == r.row
           old == identity[x].certificates
           after == CertificatesAfter(old, r.sets)
           row == [Merge(identity[x], r.sets) EXCEPT !.certificates = after]
           new == [identity EXCEPT ![x] = row]
<1>0. r.stage = "loaded" /\ x \in Identities /\ r # Idle  BY Stages DEF WriteIdentity, Inv
<1>1. IdentityJob(r) /\ x \notin Contracts /\ x \notin Bindings
  BY <1>0, TablesApart DEF Inv, Shaped, ContractJob, BindingJob, Idle
<1>2. identity \in [Identities -> IdentityRow] /\ identity[x] \in IdentityRow
      /\ old \in Seq(CertificateStatus) /\ (identity[x].status = "absent" => old = << >>)
  BY <1>0 DEF Inv, Typed, IdentityRow
<1>3. IdentityBasis(r, identity, overlapped)  BY <1>0 DEF Inv, Basis
<1>4. r.op = "register" <=> identity[x].status = "absent"
  BY <1>0, <1>1 DEF Inv, Alone, Missing, Creates, IdentityJob
<1>5. CertificateIndex(old) /\ OneUsable(identity, overlapped)  BY <1>0 DEF Inv, Indexed
<1> HIDE DEF r
<1>6. /\ r.op \in {"register", "activate_identity", "suspend", "revoke", "retire_identity", "rotate"}
      /\ r.sets.found \in Nat /\ r.sets.becomes \in CertificateStatus
      /\ r.op # "rotate" => r.sets.status \in IdentityStatus \ {"absent"} /\ "status" \in DOMAIN r.sets
      /\ r.op = "rotate" => "status" \notin DOMAIN r.sets /\ r.sets.becomes = "rotated"
      /\ r.sets.issue \in Seq(CertificateStatus) /\ Len(r.sets.issue) <= 1
      /\ r.op = "register" =>
            Len(r.sets.issue) = 1 /\ r.sets.issue[1] = "issued" /\ r.sets.status = "registered"
      /\ r.op = "rotate" => Len(r.sets.issue) = 1 /\ r.sets.issue[1] = "active"
      /\ r.op \notin {"register", "rotate"} => Len(r.sets.issue) = 0
      /\ r.op \in {"register", "suspend"} => r.sets.found = 0
      /\ r.op = "activate_identity" => r.sets.becomes = "active" /\ r.sets.status = "active"
      /\ r.op = "suspend" => r.sets.status = "suspended"
      /\ r.op \in {"revoke", "retire_identity"} =>
            r.sets.becomes \in {"revoked", "expired"} /\ r.sets.status \in {"revoked", "retired"}
  <2>1. CASE r.op = "register"
    <3>1. r.sets \in [status : {"registered"}, found : {0}, becomes : {"active"}, issue : {<<"issued">>}]
      BY <1>1, <2>1 DEF IdentityJob
    <3>2. r.sets.issue = <<"issued">> /\ "issued" \in CertificateStatus  BY <3>1 DEF CertificateStatus
    <3>3. r.sets.issue \in Seq(CertificateStatus) /\ Len(r.sets.issue) = 1 /\ r.sets.issue[1] = "issued"
      BY <3>2
    <3> QED  BY <2>1, <3>1, <3>3 DEF IdentityStatus, CertificateStatus
  <2>2. CASE r.op = "rotate"
    <3>1. r.sets \in [found : Nat, becomes : {"rotated"}, issue : {<<"active">>}]
      BY <1>1, <2>2 DEF IdentityJob
    <3>2. r.sets.issue = <<"active">> /\ "active" \in CertificateStatus  BY <3>1 DEF CertificateStatus
    <3>3. r.sets.issue \in Seq(CertificateStatus) /\ Len(r.sets.issue) = 1 /\ r.sets.issue[1] = "active"
      BY <3>2
    <3> QED  BY <2>2, <3>1, <3>3 DEF IdentityStatus, CertificateStatus
  <2>3. ASSUME NEW to \in IdentityStatus \ {"absent"}, NEW certificate \in CertificateStatus,
               r.sets \in IdentitySets(to, certificate)
        PROVE  /\ r.sets.found \in Nat /\ r.sets.becomes = certificate
               /\ r.sets.status = to /\ "status" \in DOMAIN r.sets
               /\ r.sets.issue \in Seq(CertificateStatus) /\ Len(r.sets.issue) = 0
    <3>1. /\ r.sets.found \in Nat /\ r.sets.becomes = certificate /\ r.sets.issue = << >>
          /\ r.sets.status = to /\ "status" \in DOMAIN r.sets
      BY <2>3 DEF IdentitySets
    <3>2. << >> \in Seq(CertificateStatus) /\ Len(<< >>) = 0  OBVIOUS
    <3> QED  BY <3>1, <3>2, Zenon
  <2>4. CASE r.op = "activate_identity"
    <3>1. r.sets \in IdentitySets("active", "active")  BY <1>1, <2>4 DEF IdentityJob
    <3> QED  BY <2>3, <2>4, <3>1 DEF IdentityStatus, CertificateStatus
  <2>5. CASE r.op = "suspend"
    <3>1. r.sets \in IdentitySets("suspended", "active") /\ r.sets.found = 0  BY <1>1, <2>5 DEF IdentityJob
    <3> QED  BY <2>3, <2>5, <3>1 DEF IdentityStatus, CertificateStatus
  <2>6. CASE r.op = "revoke"
    <3>1. r.sets \in IdentitySets("revoked", "revoked")  BY <1>1, <2>6 DEF IdentityJob
    <3> QED  BY <2>3, <2>6, <3>1 DEF IdentityStatus, CertificateStatus
  <2>7. CASE r.op = "retire_identity"
    <3>1. r.sets \in IdentitySets("retired", "expired")  BY <1>1, <2>7 DEF IdentityJob
    <3> QED  BY <2>3, <2>7, <3>1 DEF IdentityStatus, CertificateStatus
  <2> QED  BY <1>1, <2>1, <2>2, <2>4, <2>5, <2>6, <2>7 DEF IdentityJob
<1>7. /\ after \in Seq(CertificateStatus)
      /\ \A k \in DOMAIN old : /\ k \in DOMAIN after
                               /\ after[k] = IF k = r.sets.found THEN r.sets.becomes ELSE old[k]
      /\ Len(r.sets.issue) = 0 => DOMAIN after = DOMAIN old
      /\ Len(r.sets.issue) = 1 =>
            /\ DOMAIN after = DOMAIN old \cup {Len(old) + 1}
            /\ Len(old) + 1 \notin DOMAIN old /\ after[Len(old) + 1] = r.sets.issue[1]
  <2> DEFINE sets == r.sets
  <2>1. after = CertificatesAfter(old, sets)  OBVIOUS
  <2>2. old \in Seq(CertificateStatus)  BY <1>2
  <2> HIDE DEF old, after, sets
  <2>3. sets.becomes \in CertificateStatus /\ sets.issue \in Seq(CertificateStatus) /\ Len(sets.issue) <= 1
    BY <1>6 DEF sets
  <2>4. /\ after \in Seq(CertificateStatus)
        /\ \A k \in DOMAIN old : /\ k \in DOMAIN after
                                 /\ after[k] = IF k = sets.found THEN sets.becomes ELSE old[k]
        /\ Len(sets.issue) = 0 => DOMAIN after = DOMAIN old
        /\ Len(sets.issue) = 1 =>
              /\ DOMAIN after = DOMAIN old \cup {Len(old) + 1}
              /\ Len(old) + 1 \notin DOMAIN old /\ after[Len(old) + 1] = sets.issue[1]
    BY <2>1, <2>2, <2>3, CertificatesWritten
  <2> QED  BY <2>4 DEF sets
<1>8. 0 \notin DOMAIN old /\ DOMAIN old \subseteq Nat  BY <1>2
<1>9. r.op # "register" => identity[x].status # "absent"  BY <1>4
<1> HIDE DEF after
<1>10. /\ row \in IdentityRow /\ row.certificates = after
       /\ row.status = IF r.op = "rotate" THEN identity[x].status ELSE r.sets.status
  BY <1>2, <1>6, <1>7 DEF Merge, IdentityRow
<1>11. row.status # "absent"  BY <1>6, <1>9, <1>10
<1> HIDE DEF row
<1>12. /\ new \in [Identities -> IdentityRow] /\ new[x] = row
       /\ \A i \in Identities : i # x => new[i] = identity[i]
  BY <1>0, <1>2, <1>10
<1> HIDE DEF new
<1>13. CASE CertificateIndex(after)
  <2>1. identity' = new /\ Answer(w) /\ UNCHANGED <<contract, binding, overlapped, faults>>
    BY <1>0, <1>13 DEF WriteIdentity, r, row, new, after, CertificatesAfter
  <2>2. Typed(contract, new, binding)
    <3>1. \A i \in Identities : new[i].status = "absent" => new[i].certificates = << >>
      BY <1>11, <1>12 DEF Inv, Typed
    <3> QED  BY <1>12, <3>1 DEF Inv, Typed
  <2>3. Indexed(contract, new, binding)
    <3>1. \A i \in Identities : CertificateIndex(new[i].certificates)
      BY <1>10, <1>12, <1>13 DEF Inv, Indexed
    <3> QED  BY <3>1 DEF Inv, Indexed
  <2>4. OneUsable(new, overlapped)
    <3> SUFFICES ASSUME x \notin overlapped
                 PROVE  /\ \A j, k \in Usable(after) : j = k
                        /\ row.status \in {"revoked", "retired"} => Usable(after) = {}
      BY <1>5, <1>10, <1>12 DEF OneUsable
    <3>1. /\ \A j, k \in Usable(old) : j = k
          /\ identity[x].status \in {"revoked", "retired"} => Usable(old) = {}
      BY <1>0, <1>5 DEF OneUsable
    <3>2. CASE r.op = "register"
      <4>1. DOMAIN old = {}  BY <1>2, <1>4, <3>2
      <4>2. DOMAIN after = DOMAIN old \cup {Len(old) + 1}  BY <1>6, <1>7, <3>2
      <4>3. DOMAIN after = {Len(old) + 1}  BY <4>1, <4>2
      <4>4. Usable(after) \subseteq {Len(old) + 1}  BY <4>3 DEF Usable
      <4>5. row.status = "registered"  BY <1>6, <1>10, <3>2
      <4> QED  BY <4>4, <4>5
    <3>3. CASE r.op = "activate_identity"
      <4>1. Finds(r.sets.found, old, {"issued"})  BY <1>3, <3>3 DEF IdentityBasis, r
      <4>2. Usable(after) = Usable(old)  BY <1>6, <1>7, <1>8, <3>3, <4>1 DEF Usable, Finds
      <4> QED  BY <1>6, <1>10, <3>1, <3>3, <4>2
    <3>4. CASE r.op = "suspend"
      <4>1. Usable(after) = Usable(old)  BY <1>6, <1>7, <1>8, <3>4 DEF Usable
      <4> QED  BY <1>6, <1>10, <3>1, <3>4, <4>1
    <3>5. CASE r.op \in {"revoke", "retire_identity"}
      <4>1. Finds(r.sets.found, old, {"issued", "active"})  BY <1>3, <3>5 DEF IdentityBasis, r
      <4>2. Usable(after) = {}  BY <1>6, <1>7, <1>8, <3>1, <3>5, <4>1 DEF Usable, Finds
      <4> QED  BY <4>2
    <3>6. CASE r.op = "rotate"
      <4>1. /\ Finds(r.sets.found, old, {"active"}) /\ r.sets.found # 0
            /\ identity[x].status \in {"active", "suspended"}
        BY <1>3, <3>6 DEF IdentityBasis, r
      <4>2. Usable(after) \subseteq {Len(old) + 1}
        BY <1>6, <1>7, <1>8, <3>1, <3>6, <4>1 DEF Usable, Finds
      <4> QED  BY <1>10, <3>6, <4>1, <4>2
    <3> QED  BY <1>6, <3>2, <3>3, <3>4, <3>5, <3>6
  <2>5. ~Missing(x, contract, new, binding)  BY <1>1, <1>11, <1>12 DEF Missing
  <2>6. ASSUME NEW v \in Workers, v # w, request[v] # Idle
        PROVE  /\ request[v].row # x =>
                     (Missing(request[v].row, contract, new, binding) <=>
                      Missing(request[v].row, contract, identity, binding))
               /\ Basis(request[v], contract, new, binding, overlapped)
    <3> DEFINE q == request[v]
    <3>1. q.row # x => (Missing(q.row, contract, new, binding) <=> Missing(q.row, contract, identity, binding))
      BY <1>12 DEF Missing
    <3>2. Basis(q, contract, identity, binding, overlapped) /\ (q.row \notin overlapped => q.row # x)
      BY <1>0, <2>6, Apart DEF Inv, r
    <3> HIDE DEF q
    <3>3. q.row \in Identities => IdentityBasis(q, new, overlapped)
      BY <1>12, <3>2 DEF Basis, IdentityBasis
    <3> QED  BY <3>1, <3>2, <3>3 DEF Basis, q
  <2>7. Grounded(contract, binding, overlapped) /\ Hashed(contract, overlapped)  BY DEF Inv
  <2> QED  BY <1>0, <2>1, <2>2, <2>3, <2>4, <2>5, <2>6, <2>7, AnswerKeeps DEF r
<1>14. CASE ~CertificateIndex(after)
  <2>1. Crash(w)
    BY <1>0, <1>14 DEF WriteIdentity, r, after, CertificatesAfter
  <2>2. CASE r.op \in {"activate_identity", "rotate"}
    \* Undisturbed, it replaces the only certificate that could be used
    <3>1. ASSUME overlapped = {} PROVE CertificateIndex(after)
      <4>1. \A j, k \in Usable(old) : j = k  BY <1>0, <1>5, <3>1 DEF OneUsable
      <4>2. /\ r.op = "activate_identity" => Finds(r.sets.found, old, {"issued"})
            /\ r.op = "rotate" => r.sets.found # 0 /\ Finds(r.sets.found, old, {"active"})
        BY <1>3, <3>1 DEF IdentityBasis
      <4>3. ASSUME NEW j \in DOMAIN after, NEW k \in DOMAIN after, after[j] = "active", after[k] = "active"
            PROVE  j = k
        <5>1. CASE r.op = "activate_identity"
          <6>1. DOMAIN after = DOMAIN old /\ r.sets.becomes = "active"  BY <1>6, <1>7, <5>1
          <6>2. \A m \in DOMAIN old : after[m] = IF m = r.sets.found THEN "active" ELSE old[m]
            BY <1>7, <6>1
          <6> HIDE DEF old
          <6>3. j \in Usable(old) /\ k \in Usable(old)
            BY <1>8, <4>2, <4>3, <5>1, <6>1, <6>2 DEF Usable, Finds
          <6> QED  BY <4>1, <6>3
        <5>2. CASE r.op = "rotate"
          <6>1. /\ DOMAIN after = DOMAIN old \cup {Len(old) + 1} /\ r.sets.becomes = "rotated"
                /\ \A m \in DOMAIN old : after[m] = IF m = r.sets.found THEN "rotated" ELSE old[m]
            BY <1>6, <1>7, <5>2
          <6> HIDE DEF old
          <6>2. \A m \in DOMAIN old : after[m] = "active" => m \in Usable(old) /\ r.sets.found \in Usable(old)
            BY <1>8, <4>2, <5>2, <6>1 DEF Usable, Finds
          <6>3. \A m \in DOMAIN old : after[m] # "active"  BY <4>1, <6>1, <6>2
          <6> QED  BY <4>3, <6>1, <6>3
        <5> QED  BY <2>2, <5>1, <5>2
      <4> QED  BY <4>3 DEF CertificateIndex
    <3>2. overlapped # {}  BY <1>14, <3>1
    <3> QED  BY <1>0, <2>1, <2>2, <3>2, CrashKeeps DEF r
  \* Any other makes no certificate active
  <2>3. CASE r.op \notin {"activate_identity", "rotate"}
    <3>1. \A k \in DOMAIN after : after[k] = "active" => k \in DOMAIN old /\ old[k] = "active"
      BY <1>6, <1>7, <1>8, <2>3
    <3> QED  BY <1>5, <1>14, <3>1 DEF CertificateIndex
  <2> QED  BY <2>2, <2>3
<1> QED  BY <1>13, <1>14

\* An activation ends the live binding it replaces.
Replaced(op, old, new) ==
    /\ op = "activate_binding" /\ old.status \in {"active", "retired"}
    /\ new = [old EXCEPT !.status = "retired"]

\* What each binding operation leaves in its row.
LEMMA BindingWritten ==
    ASSUME Inv, NEW w \in Workers, request[w] # Idle, request[w].row \in Bindings,
           NEW x, x = request[w].row, NEW op, op = request[w].op, NEW new, new = BindingsAfter(request[w])
    PROVE  /\ op \in {"create_binding", "edit_binding", "add_agent", "remove_agent",
                      "activate_binding", "retire_binding"}
           /\ new \in [Bindings -> BindingRow]
           /\ op = "create_binding" <=> binding[x].status = "absent"
           /\ op = "create_binding" => new[x].status = "draft"
           /\ op \in {"edit_binding", "add_agent", "remove_agent"} => new[x].status = binding[x].status
           /\ op \in {"add_agent", "remove_agent"} =>
                 /\ new[x].integration_identity_id = binding[x].integration_identity_id
                 /\ new[x].source_operation = binding[x].source_operation
                 /\ new[x].environment = binding[x].environment
           /\ op \in {"create_binding", "edit_binding"} => new[x].integration_contract_version_id \in Contracts
           /\ op \notin {"create_binding", "edit_binding"} =>
                 new[x].integration_contract_version_id = binding[x].integration_contract_version_id
           /\ op = "activate_binding" =>
                 /\ new[x].status = "active" /\ new[x].allowed = binding[x].allowed
                 /\ x \notin request[w].sets.prior
           /\ op = "retire_binding" => new[x] = [binding[x] EXCEPT !.status = "retired"]
           /\ \A b \in Bindings : b # x =>
                 new[b] = binding[b] \/ Replaced(op, binding[b], new[b])
<1> DEFINE r == request[w]
<1>1. BindingJob(r) /\ x \notin Contracts /\ x \notin Identities
  BY TablesApart DEF Inv, Shaped, ContractJob, IdentityJob, Idle
<1>2. binding \in [Bindings -> BindingRow] /\ binding[x] \in BindingRow  BY DEF Inv, Typed
<1>3. BindingBasis(r, contract, binding, overlapped)  BY DEF Inv, Basis
<1>4. r.op = "create_binding" <=> binding[x].status = "absent"
  BY <1>1 DEF Inv, Alone, Missing, Creates, BindingJob
<1>5. r.row = x /\ r.op = op  OBVIOUS
<1> HIDE DEF r
<1>6. op \in {"create_binding", "edit_binding", "add_agent", "remove_agent", "activate_binding", "retire_binding"}
  BY <1>1, <1>5 DEF BindingJob
<1>7. \A b \in Bindings : b # x =>
         new[b] = IF op = "activate_binding" /\ b \in r.sets.prior
                  THEN [binding[b] EXCEPT !.status = "retired"] ELSE binding[b]
  BY <1>5 DEF BindingsAfter, r
<1>8. \A b \in Bindings : op = "activate_binding" /\ b \in r.sets.prior =>
         b # x /\ binding[b].status \in {"active", "retired"}
  BY <1>3, <1>5 DEF BindingBasis
<1>9. /\ op = "add_agent" => new[x] = [binding[x] EXCEPT !.allowed = binding[x].allowed \cup r.arg]
      /\ op = "remove_agent" => new[x] = [binding[x] EXCEPT !.allowed = binding[x].allowed \ r.arg]
      /\ op \notin {"add_agent", "remove_agent"} => new[x] = Merge(binding[x], r.sets)
  BY <1>5 DEF BindingsAfter, r
<1>10. DOMAIN new = Bindings  BY DEF BindingsAfter
<1> HIDE DEF r
<1>11. /\ new[x] \in BindingRow
       /\ op = "create_binding" => new[x].status = "draft"
       /\ op \in {"edit_binding", "add_agent", "remove_agent"} => new[x].status = binding[x].status
       /\ op \in {"add_agent", "remove_agent"} =>
             /\ new[x].integration_identity_id = binding[x].integration_identity_id
             /\ new[x].source_operation = binding[x].source_operation
             /\ new[x].environment = binding[x].environment
       /\ op \in {"create_binding", "edit_binding"} => new[x].integration_contract_version_id \in Contracts
       /\ op \notin {"create_binding", "edit_binding"} =>
             new[x].integration_contract_version_id = binding[x].integration_contract_version_id
       /\ op = "activate_binding" => new[x].status = "active" /\ new[x].allowed = binding[x].allowed
       /\ op = "retire_binding" => new[x] = [binding[x] EXCEPT !.status = "retired"]
  <2>1. CASE op = "create_binding"
    <3>1. r.sets \in [status : {"draft"}, integration_identity_id : Identities,
                      integration_contract_version_id : Contracts, source_operation : Operations \cup {NONE},
                      environment : Environments, allowed : SUBSET Agents]
      BY <1>1, <1>5, <2>1 DEF BindingJob
    <3> QED  BY <1>2, <1>9, <2>1, <3>1 DEF Merge, BindingRow
  <2>2. CASE op = "edit_binding"
    <3>1. r.sets \in [integration_identity_id : Identities, integration_contract_version_id : Contracts,
                      source_operation : Operations \cup {NONE}, environment : Environments]
      BY <1>1, <1>5, <2>2 DEF BindingJob
    <3> QED  BY <1>2, <1>9, <2>2, <3>1 DEF Merge, BindingRow
  <2>3. CASE op \in {"add_agent", "remove_agent"}
    <3>1. r.arg \in SUBSET Agents  BY <1>1, <1>5, <2>3 DEF BindingJob
    <3> QED  BY <1>2, <1>9, <2>3, <3>1 DEF BindingRow
  <2>4. CASE op = "activate_binding"
    <3>1. r.sets \in [status : {"active"}, prior : SUBSET Bindings]
      BY <1>1, <1>5, <2>4 DEF BindingJob
    <3> QED  BY <1>2, <1>9, <2>4, <3>1 DEF Merge, BindingRow
  <2>5. CASE op = "retire_binding"
    <3>1. r.sets \in [status : {"retired"}]  BY <1>1, <1>5, <2>5 DEF BindingJob
    <3>2. Merge(binding[x], r.sets) = [binding[x] EXCEPT !.status = "retired"]
      BY <1>2, <3>1 DEF Merge, BindingRow
    <3> QED  BY <1>2, <1>9, <2>5, <3>1, <3>2 DEF BindingRow
  <2> QED  BY <1>6, <2>1, <2>2, <2>3, <2>4, <2>5
<1>12. \A b \in Bindings : b # x => new[b] \in BindingRow
  <2>1. \A row \in BindingRow : [row EXCEPT !.status = "retired"] \in BindingRow  BY DEF BindingRow
  <2>2. \A b \in Bindings : binding[b] \in BindingRow  BY <1>2
  <2> QED  BY <1>7, <2>1, <2>2
<1>13. new \in [Bindings -> BindingRow]
  <2>1. new = [b \in Bindings |-> new[b]]  BY Zenon DEF BindingsAfter
  <2> QED  BY <1>11, <1>12, <2>1
<1>14. \A b \in Bindings : b # x => new[b] = binding[b] \/ Replaced(op, binding[b], new[b])
  BY <1>7, <1>8 DEF Replaced
<1> QED  BY <1>4, <1>5, <1>6, <1>8, <1>11, <1>13, <1>14 DEF r

\* The binding UPDATE, with the bindings it replaces.
LEMMA WriteBindingKeeps ==
    ASSUME Inv, NEW w \in Workers, WriteBinding(w)
    PROVE  Inv'
<1> DEFINE r == request[w]
           x == r.row
           op == r.op
           new == BindingsAfter(r)
<1>0. r.stage = "loaded" /\ x \in Bindings /\ r # Idle  BY Stages DEF WriteBinding, Inv
<1>1. x \notin Contracts /\ x \notin Identities  BY <1>0, TablesApart
<1>2. binding \in [Bindings -> BindingRow]
      /\ \A b \in Bindings : binding[b].status # "absent" => binding[b].integration_contract_version_id \in Contracts
  BY DEF Inv, Typed
<1>3. BindingBasis(r, contract, binding, overlapped)  BY <1>0 DEF Inv, Basis
<1>4. /\ op \in {"create_binding", "edit_binding", "add_agent", "remove_agent", "activate_binding", "retire_binding"}
      /\ new \in [Bindings -> BindingRow]
      /\ op = "create_binding" <=> binding[x].status = "absent"
      /\ op = "create_binding" => new[x].status = "draft"
      /\ op \in {"edit_binding", "add_agent", "remove_agent"} => new[x].status = binding[x].status
      /\ op \in {"add_agent", "remove_agent"} =>
            /\ new[x].integration_identity_id = binding[x].integration_identity_id
            /\ new[x].source_operation = binding[x].source_operation
            /\ new[x].environment = binding[x].environment
      /\ op \in {"create_binding", "edit_binding"} => new[x].integration_contract_version_id \in Contracts
      /\ op \notin {"create_binding", "edit_binding"} =>
            new[x].integration_contract_version_id = binding[x].integration_contract_version_id
      /\ op = "activate_binding" => new[x].status = "active" /\ new[x].allowed = binding[x].allowed
      /\ op = "retire_binding" => new[x] = [binding[x] EXCEPT !.status = "retired"]
      /\ \A b \in Bindings : b # x => new[b] = binding[b] \/ Replaced(op, binding[b], new[b])
  BY <1>0, BindingWritten
<1>5. \A b \in Bindings : b # x => new[b] = binding[b] \/ Replaced(op, binding[b], new[b])
  BY <1>4
<1> HIDE DEF r, new
<1>6. \A b \in Bindings : Replaced(op, binding[b], new[b]) =>
         /\ new[b].status = "retired"
         /\ new[b].integration_contract_version_id = binding[b].integration_contract_version_id
  BY <1>2 DEF BindingRow, Replaced
<1>7. op = "retire_binding" => new[x].status = "retired" /\ binding[x].status \in {"active", "retired"}
  <2>1. binding[x] \in BindingRow /\ (op = "retire_binding" => binding[x].status \in {"active", "retired"})
    BY <1>0, <1>2, <1>3 DEF BindingBasis
  <2>2. \A row \in BindingRow : [row EXCEPT !.status = "retired"].status = "retired"  BY DEF BindingRow
  <2> QED  BY <1>4, <2>1, <2>2
\* A binding that was active stays active or ends
<1>8. \A b \in Bindings : binding[b].status \in {"active", "retired"} => new[b].status \in {"active", "retired"}
  BY <1>4, <1>5, <1>6, <1>7
<1>9. \A b \in Bindings : b # x => (new[b].status = "absent" <=> binding[b].status = "absent")
  BY <1>5, <1>6 DEF Replaced
<1>10. new[x].status # "absent"  BY <1>4, <1>7
<1>11. CASE ScopeIndex(new) /\ MembershipIndex(r)
  <2>1. binding' = new /\ Answer(w) /\ UNCHANGED <<contract, identity, overlapped, faults>>
    BY <1>0, <1>11 DEF WriteBinding, r, new
  <2>2. Typed(contract, identity, new)
    <3>1. ASSUME NEW b \in Bindings, new[b].status # "absent"
          PROVE  new[b].integration_contract_version_id \in Contracts
      <4>1. CASE b = x  BY <1>2, <1>4, <4>1
      <4>2. CASE b # x  BY <1>2, <1>5, <1>6, <1>9, <3>1, <4>2
      <4> QED  BY <4>1, <4>2
    <3> QED  BY <1>4, <3>1 DEF Inv, Typed
  <2>3. Indexed(contract, identity, new)  BY <1>11 DEF Inv, Indexed
  <2>4. Grounded(contract, new, overlapped)
    <3> SUFFICES ASSUME NEW b \in Bindings, NEW c, c = new[b].integration_contract_version_id,
                        new[b].status = "active", b \notin overlapped, c \notin overlapped
                 PROVE  contract[c].status = "approved" /\ new[b].allowed # {}
      BY DEF Grounded
    <3>1. Grounded(contract, binding, overlapped)  BY DEF Inv
    <3>2. CASE b # x  BY <1>5, <1>6, <3>1, <3>2 DEF Grounded
    <3>3. CASE b = x /\ op = "activate_binding"
      BY <1>0, <1>3, <1>4, <3>3 DEF BindingBasis
    <3>4. CASE b = x /\ op # "activate_binding"
      <4>1. op \in {"edit_binding", "add_agent", "remove_agent"} => binding[x].status = "draft"
        BY <1>3, <3>4 DEF BindingBasis
      <4> QED  BY <1>4, <1>7, <3>4, <4>1
    <3> QED  BY <3>2, <3>3, <3>4
  <2>5. ~Missing(x, contract, identity, new)  BY <1>1, <1>10 DEF Missing
  <2>6. ASSUME NEW v \in Workers, v # w, request[v] # Idle
        PROVE  /\ request[v].row # x =>
                     (Missing(request[v].row, contract, identity, new) <=>
                      Missing(request[v].row, contract, identity, binding))
               /\ Basis(request[v], contract, identity, new, overlapped)
    <3> DEFINE q == request[v]
               y == q.row
    <3>1. y # x => (Missing(y, contract, identity, new) <=> Missing(y, contract, identity, binding))
      BY <1>9 DEF Missing
    <3>2. /\ Basis(q, contract, identity, binding, overlapped)
          /\ \A z \in q.rows \cap r.rows : q.rows \subseteq overlapped /\ r.rows \subseteq overlapped
          /\ y \in q.rows /\ (y \notin overlapped => x # y)
      BY <1>0, <2>6, Apart DEF Inv, r
    <3> HIDE DEF q
    <3>3. y \in Contracts => ContractBasis(q, contract, new, overlapped)
      <4> SUFFICES ASSUME y \in Contracts, ContractBasis(q, contract, binding, overlapped),
                          y \notin overlapped, q.op = "retire_contract",
                          NEW b \in Bindings, new[b].integration_contract_version_id = y, b \notin overlapped
                   PROVE  new[b].status # "active"
        BY <3>2 DEF Basis, ContractBasis
      <4>1. \A d \in Bindings : binding[d].integration_contract_version_id = y /\ d \notin overlapped =>
               binding[d].status # "active"
        BY DEF ContractBasis
      <4>2. CASE b # x  BY <1>5, <1>6, <4>1, <4>2
      <4>3. CASE b = x /\ op = "activate_binding"
        <5>1. y \in r.rows  BY <1>3, <1>4, <4>3 DEF BindingBasis
        <5> QED  BY <3>2, <5>1
      <4>4. CASE b = x /\ op # "activate_binding"
        <5>1. op \in {"edit_binding", "add_agent", "remove_agent"} => binding[x].status = "draft"
          BY <1>3, <4>4 DEF BindingBasis
        <5> QED  BY <1>4, <1>7, <4>4, <5>1
      <4> QED  BY <4>2, <4>3, <4>4
    <3>4. y \in Bindings => BindingBasis(q, contract, new, overlapped)
      <4> SUFFICES ASSUME y \in Bindings, BindingBasis(q, contract, binding, overlapped)
                   PROVE  BindingBasis(q, contract, new, overlapped)
        BY <3>2 DEF Basis
      <4>1. q.op \in {"create_binding", "edit_binding"} => q.sets.integration_contract_version_id \in q.rows
        BY DEF BindingBasis
      <4>2. q.op = "retire_binding" => new[y].status \in {"active", "retired"}
        BY <1>8 DEF BindingBasis
      <4>3. q.op = "activate_binding" =>
               \A d \in q.sets.prior : d # y /\ new[d].status \in {"active", "retired"}
        <5>1. q.op = "activate_binding" => q.sets.prior \subseteq Bindings
          <6>1. Shaped(q) /\ q # Idle  BY <2>6 DEF Inv, q
          <6>2. q.op = "activate_binding" => q.sets \in [status : {"active"}, prior : SUBSET Bindings]
            BY <6>1 DEF Shaped, ContractJob, IdentityJob, BindingJob
          <6> QED  BY <6>2
        <5> QED  BY <1>8, <5>1 DEF BindingBasis
      <4>4. ASSUME y \notin overlapped
            PROVE  /\ q.op \in {"edit_binding", "add_agent", "remove_agent"} => new[y].status = "draft"
                   /\ q.op = "add_agent" => q.arg \cap new[y].allowed = {}
                   /\ q.op = "activate_binding" => new[y].integration_contract_version_id \in q.rows
                   /\ q.op = "activate_binding" /\ q.stage = "loaded" =>
                         /\ new[y].status = "draft" /\ new[y].allowed # {}
                         /\ new[y].integration_contract_version_id \notin overlapped =>
                               contract[new[y].integration_contract_version_id].status = "approved"
        <5>1. new[y] = binding[y] \/ Replaced(op, binding[y], new[y])  BY <1>5, <3>2, <4>4
        <5>2. Replaced(op, binding[y], new[y]) => binding[y].status # "draft"  BY DEF Replaced
        <5>3. new[y].integration_contract_version_id = binding[y].integration_contract_version_id
          BY <1>6, <5>1
        <5> QED  BY <4>4, <5>1, <5>2, <5>3 DEF BindingBasis
      <4> QED  BY <4>1, <4>2, <4>3, <4>4 DEF BindingBasis
    <3>5. y \in Identities => IdentityBasis(q, identity, overlapped)  BY <3>2 DEF Basis
    <3> QED  BY <3>1, <3>3, <3>4, <3>5 DEF Basis, q
  <2>7. Hashed(contract, overlapped) /\ OneUsable(identity, overlapped)  BY DEF Inv
  <2> QED  BY <1>0, <2>1, <2>2, <2>3, <2>4, <2>5, <2>6, <2>7, AnswerKeeps DEF r
<1>12. CASE ~(ScopeIndex(new) /\ MembershipIndex(r))
  <2>1. CASE op = "activate_binding"
    <3>1. RetryOrConflict(w, MAX_ACTIVATION_ATTEMPTS)
      BY <1>0, <1>12, <2>1 DEF WriteBinding, r, new
    <3> QED  BY <1>0, <2>1, <3>1, ConflictKeeps DEF r
  <2>2. CASE op # "activate_binding"
    <3>1. Crash(w)  BY <1>0, <1>12, <2>2 DEF WriteBinding, r, new
    \* No other makes a binding active or moves one to another scope, and a
    \* draft that is edited is not active
    <3>2. ASSUME op # "edit_binding" \/ binding[x].status = "draft" PROVE ScopeIndex(new)
      <4>1. \A b \in Bindings : new[b].status = "active" =>
               /\ binding[b].status = "active"
               /\ new[b].integration_identity_id = binding[b].integration_identity_id
               /\ new[b].source_operation = binding[b].source_operation
               /\ new[b].environment = binding[b].environment
        BY <1>4, <1>5, <1>6, <1>7, <2>2, <3>2
      <4>2. ScopeIndex(binding)  BY DEF Inv, Indexed
      <4> QED  BY <4>1, <4>2 DEF ScopeIndex
    <3>3. op \in {"edit_binding", "create_binding", "add_agent"}
      BY <1>12, <3>2 DEF MembershipIndex
    \* An undisturbed edit is of a draft, an undisturbed agent a new one
    <3>4. overlapped = {} => op = "create_binding"
      <4>1. overlapped = {} /\ op = "edit_binding" => binding[x].status = "draft"
        BY <1>3 DEF BindingBasis
      <4>2. overlapped = {} /\ op = "add_agent" => r.arg \cap binding[x].allowed = {}
        BY <1>3 DEF BindingBasis
      <4> QED  BY <1>12, <3>2, <3>3, <4>1, <4>2 DEF MembershipIndex
    <3> QED  BY <1>0, <3>1, <3>3, <3>4, CrashKeeps DEF r
  <2> QED  BY <2>1, <2>2
<1> QED  BY <1>11, <1>12

\* A request that reads again after losing the race for an index.
LEMMA RetryKeeps ==
    ASSUME Inv, NEW w \in Workers, Retry(w)
    PROVE  Inv'
<1> DEFINE r == request[w]
           x == r.row
           out == IF r.op = "create_contract" THEN create_contract_version(x, r.arg)
                  ELSE activate_binding_attempt(x, r.arg)
           again == [r EXCEPT !.stage = "loaded", !.sets = out.sets]
<1>0. r.stage = "retry" /\ r # Idle /\ UNCHANGED <<contract, identity, binding, overlapped>>
  BY Stages DEF Retry, Inv
<1>1. /\ IF out.error = "ok"
         THEN /\ request' = [request EXCEPT ![w] = again]
              /\ UNCHANGED faults
         ELSE /\ Answer(w)
              /\ faults' = faults \cup Unhandled(r.op, out.error)
  BY DEF Retry, Inv
<1>2. Shaped(r) /\ Basis(r, contract, identity, binding, overlapped)  BY <1>0 DEF Inv
<1>3. /\ DOMAIN r = {"stage", "op", "row", "sets", "arg", "rows", "attempt"}
      /\ x \in r.rows /\ r.rows \subseteq Rows
      /\ \/ r.op = "create_contract" /\ x \in Contracts /\ r.arg \in Operations
         \/ r.op = "activate_binding" /\ x \in Bindings
  <2> HIDE DEF r
  <2>1. /\ DOMAIN r = {"stage", "op", "row", "sets", "arg", "rows", "attempt"}
        /\ x \in r.rows /\ r.rows \subseteq Rows
        /\ r.op \in {"create_contract", "activate_binding"}
        /\ r.op = "create_contract" => r.arg \in Operations
        /\ ContractJob(r) \/ IdentityJob(r) \/ BindingJob(r)
    BY <1>0, <1>2 DEF Shaped
  <2>2. ContractJob(r) => x \in Contracts /\ r.op # "activate_binding"  BY DEF ContractJob
  <2>3. IdentityJob(r) => r.op \notin {"create_contract", "activate_binding"}  BY DEF IdentityJob
  <2>4. BindingJob(r) => x \in Bindings /\ r.op # "create_contract"  BY DEF BindingJob
  <2> QED  BY <2>1, <2>2, <2>3, <2>4
<1>4. /\ x \in Contracts => x \notin Identities /\ x \notin Bindings
      /\ x \in Bindings => x \notin Identities /\ x \notin Contracts
  BY TablesApart
<1> HIDE DEF r, out
<1>5. /\ DOMAIN again = {"stage", "op", "row", "sets", "arg", "rows", "attempt"} /\ again.stage = "loaded"
      /\ again.op = r.op /\ again.row = x /\ again.rows = r.rows /\ again.sets = out.sets /\ again.arg = r.arg
      /\ again # Idle
  <2>1. /\ DOMAIN again = {"stage", "op", "row", "sets", "arg", "rows", "attempt"} /\ again.stage = "loaded"
        /\ again.op = r.op /\ again.row = x /\ again.rows = r.rows /\ again.sets = out.sets /\ again.arg = r.arg
    BY <1>3
  <2> HIDE DEF again
  <2> QED  BY <2>1 DEF Idle
<1> HIDE DEF again
<1>6. CASE out.error # "ok"
  <2>1. /\ r.op = "create_contract" => out.error = "validation"
        /\ r.op = "activate_binding" => out.error \in {"not_found", "transition", "validation"}
    BY <1>6 DEF out, create_contract_version, activate_binding_attempt, Raise, Set
  <2>2. RacesAnswered'
    <3>1. faults' = faults \cup Unhandled(r.op, out.error) /\ overlapped' = overlapped
      BY <1>1, <1>6 DEF Retry
    <3>2. Unhandled(r.op, out.error) = {}  BY <1>3, <1>6, <2>1, ContractErrors, BindingErrors
    <3> QED  BY <3>1, <3>2 DEF RacesAnswered, Inv
  <2> QED  BY <1>0, <1>1, <1>6, <2>2, RequestMoves DEF Answer, r
<1>7. CASE out.error = "ok"
  <2>1. request' = [request EXCEPT ![w] = again] /\ RacesAnswered'
    <3>1. overlapped' = overlapped  BY DEF Retry
    <3> QED  BY <1>1, <1>7, <3>1 DEF RacesAnswered, Inv
  <2>2. CASE r.op = "create_contract"
    <3>1. out.sets \in [status : {"draft"}, source_operation : Operations, version : Nat]
      <4> DEFINE sets == [status |-> "draft", source_operation |-> r.arg,
                          version |-> 1 + Max({0} \cup {contract[d].version :
                                            d \in {c \in Contracts : contract[c].source_operation = r.arg}})]
      <4>1. out = IF r.arg \in WellFormed THEN Set(sets) ELSE Raise("validation")
        BY <2>2 DEF out, create_contract_version, validate_semantic_fields
      <4>2. sets \in [status : {"draft"}, source_operation : Operations, version : Nat]
        BY <1>3, <2>2, VersionNatural DEF Inv, Typed
      <4> HIDE DEF sets
      <4> QED  BY <1>7, <4>1, <4>2 DEF Set, Raise
    <3>2. Shaped(again)  BY <1>3, <1>5, <2>2, <3>1 DEF Shaped, ContractJob
    <3>3. Basis(again, contract, identity, binding, overlapped)
      BY <1>3, <1>4, <1>5, <2>2 DEF Basis, ContractBasis
    <3> QED  BY <1>0, <1>5, <2>1, <3>2, <3>3, RequestMoves DEF r
  <2>3. CASE r.op = "activate_binding"
    <3> DEFINE prior == {d \in Bindings \ {x} : binding[d].status = "active" /\ Scope(d) = Scope(x)}
    <3>1. /\ binding[x].status = "draft" /\ binding[x].allowed # {}
          /\ contract[binding[x].integration_contract_version_id].status = "approved"
          /\ out.sets = [status |-> "active", prior |-> prior]
      BY <1>7, <2>3 DEF out, activate_binding_attempt, Raise, Set
    <3>2. /\ out.sets \in [status : {"active"}, prior : SUBSET Bindings] /\ out.sets.prior = prior
      BY <3>1
    <3>3. Shaped(again)  BY <1>3, <1>5, <2>3, <3>2 DEF Shaped, BindingJob
    <3>4. x \notin overlapped => binding[x].integration_contract_version_id \in r.rows
      BY <1>2, <1>3, <2>3 DEF Basis, BindingBasis
    <3>5. \A d \in out.sets.prior : d # x /\ binding[d].status \in {"active", "retired"}
      BY <3>2
    <3>6. BindingBasis(again, contract, binding, overlapped)
      BY <1>5, <2>3, <3>1, <3>4, <3>5 DEF BindingBasis
    <3>7. Basis(again, contract, identity, binding, overlapped)
      BY <1>3, <1>4, <1>5, <2>3, <3>6 DEF Basis
    <3> QED  BY <1>0, <1>5, <2>1, <3>3, <3>7, RequestMoves DEF r
  <2> QED  BY <1>3, <2>2, <2>3
<1> QED  BY <1>6, <1>7

-----------------------------------------------------------------------------
(* The theorems.                                                           *)

LEMMA InitInv == Init => Inv
<1> SUFFICES ASSUME Init PROVE Inv  OBVIOUS
<1>1. Typed(contract, identity, binding)
  <2>1. << >> \in Seq(CertificateStatus)  OBVIOUS
  <2> QED  BY <2>1 DEF Init, Typed, ContractRow, IdentityRow, IdentityStatus, BindingRow
<1>2. DOMAIN request = Workers /\ (\A w \in Workers : request[w] = Idle) /\ overlapped = {} /\ faults = {}
  BY DEF Init
<1>3. /\ \A c \in Contracts : contract[c].status = "absent"
      /\ \A i \in Identities : identity[i].status = "absent" /\ identity[i].certificates = << >>
      /\ \A b \in Bindings : binding[b].status = "absent"
  BY DEF Init
<1>4. Indexed(contract, identity, binding)
  BY <1>3 DEF Indexed, UniqueVersions, ScopeIndex, CertificateIndex
<1>5. Grounded(contract, binding, overlapped) /\ Hashed(contract, overlapped) /\ OneUsable(identity, overlapped)
  BY <1>3 DEF Grounded, Hashed, OneUsable, Usable
<1> QED  BY <1>1, <1>2, <1>4, <1>5 DEF Inv, Shaped, Alone, Exclusive, RacesAnswered

LEMMA NextInv == Inv /\ [Next]_vars => Inv'
<1> SUFFICES ASSUME Inv, [Next]_vars PROVE Inv'  OBVIOUS
<1>1. CASE UNCHANGED vars
  BY <1>1 DEF Inv, vars, RacesAnswered, Typed, Alone, Exclusive, Indexed, Grounded, Hashed, OneUsable
<1>2. ASSUME NEW w \in Workers, ContractRequest(w) PROVE Inv'  BY <1>2, ContractRequestKeeps
<1>3. ASSUME NEW w \in Workers, IdentityRequest(w) PROVE Inv'  BY <1>3, IdentityRequestKeeps
<1>4. ASSUME NEW w \in Workers, BindingRequest(w) PROVE Inv'  BY <1>4, BindingRequestKeeps
<1>5. ASSUME NEW w \in Workers, WriteContract(w) PROVE Inv'  BY <1>5, WriteContractKeeps
<1>6. ASSUME NEW w \in Workers, WriteIdentity(w) PROVE Inv'  BY <1>6, WriteIdentityKeeps
<1>7. ASSUME NEW w \in Workers, WriteBinding(w) PROVE Inv'  BY <1>7, WriteBindingKeeps
<1>8. ASSUME NEW w \in Workers, Retry(w) PROVE Inv'  BY <1>8, RetryKeeps
<1> QED  BY <1>1, <1>2, <1>3, <1>4, <1>5, <1>6, <1>7, <1>8 DEF Next

LEMMA InvHolds == Spec => []Inv
  BY InitInv, NextInv, PTL DEF Spec

\* What activate_binding promises, whatever requests race: one live binding
\* per identity, operation and environment; each on an approved contract and
\* with an agent, unless requests overlapped on its rows; and only six services
\* answer a violated unique index with a 500, two of them when nothing raced.
THEOREM ActivationIsSound == Spec => []ActivationSound
<1>1. Inv => ActivationSound
  <2> SUFFICES ASSUME Inv PROVE ActivationSound  OBVIOUS
  <2>1. OneLiveBindingPerScope  BY DEF Inv, Indexed, ScopeIndex, OneLiveBindingPerScope, Scope
  <2>2. LiveBindingGrounded  BY DEF Inv, Grounded, LiveBindingGrounded, Undisturbed
  <2>3. RacesAnswered  BY DEF Inv
  <2> QED  BY <2>1, <2>2, <2>3 DEF ActivationSound
<1> QED  BY <1>1, InvHolds, PTL

\* The other rows: every column keeps its type; the hash frozen when a mapping
\* was validated still describes it, and an ended identity keeps no usable
\* certificate, unless requests overlapped on the row; and no identity ever has
\* two active certificates.
THEOREM RecordsAreSound == Spec => []RecordsSound
<1>1. Inv => RecordsSound
  <2> SUFFICES ASSUME Inv PROVE RecordsSound  OBVIOUS
  <2>1. TypeOK
    <3>1. \A w \in Workers : request[w] # Idle => request[w].row \in Tables
      BY DEF Inv, Shaped, ContractJob, IdentityJob, BindingJob, Tables
    <3>2. \A i \in Identities :
             identity[i].status \in IdentityStatus /\ identity[i].certificates \in Seq(CertificateStatus)
      BY DEF Inv, Typed, IdentityRow
    <3>3. faults \subseteq DOMAIN ContractEndpoints \cup DOMAIN IdentityEndpoints \cup DOMAIN BindingEndpoints
      BY DEF Inv, RacesAnswered, ContractEndpoints, IdentityEndpoints, BindingEndpoints
    <3> QED  BY <3>1, <3>2, <3>3 DEF TypeOK, Inv, Typed, Rows
  <2>2. ContentMatchesHash  BY DEF Inv, Hashed, ContentMatchesHash, Undisturbed, compute_content_hash
  <2>3. EndedIdentityHasNoCertificate
    <3> SUFFICES ASSUME NEW i \in Identities
                 PROVE  /\ identity[i].status \in {"revoked", "retired"} /\ Undisturbed(i) =>
                              \A k \in DOMAIN identity[i].certificates :
                                 identity[i].certificates[k] \notin {"issued", "active"}
                        /\ Cardinality({k \in DOMAIN identity[i].certificates :
                                           identity[i].certificates[k] = "active"}) <= 1
      BY DEF EndedIdentityHasNoCertificate
    <3>1. identity[i].status \in {"revoked", "retired"} /\ Undisturbed(i) => Usable(identity[i].certificates) = {}
      BY DEF Inv, OneUsable, Undisturbed
    <3>2. CertificateIndex(identity[i].certificates)  BY DEF Inv, Indexed
    <3> DEFINE A == {k \in DOMAIN identity[i].certificates : identity[i].certificates[k] = "active"}
    <3>3. \A j, k \in A : j = k  BY <3>2 DEF CertificateIndex
    <3> HIDE DEF A
    <3>4. A = {} \/ \E k : A = {k}  BY <3>3
    <3>5. Cardinality(A) <= 1
      <4>1. CASE A = {}
        <5>1. Cardinality(A) = 0  BY <4>1, FS_EmptySet
        <5> QED  BY <5>1
      <4>2. ASSUME NEW k, A = {k} PROVE Cardinality(A) <= 1
        <5>1. Cardinality(A) = 1  BY <4>2, FS_Singleton
        <5> QED  BY <5>1
      <4> QED  BY <3>4, <4>1, <4>2
    <3> QED  BY <3>1, <3>5 DEF Usable, A
  <2> QED  BY <2>1, <2>2, <2>3 DEF RecordsSound
<1> QED  BY <1>1, InvHolds, PTL

\* Terminal states stay terminal: no UPDATE changes a retired contract version
\* or binding, or an identity revoked or retired, unless requests overlapped
\* on the row.  A stale retirement writes the value that is there.
THEOREM EndedStays == Spec => EndedStaysEnded
<1> DEFINE Stays ==
       /\ \A c \in Contracts : contract[c].status = "retired" /\ c \notin overlapped'
              => contract'[c] = contract[c]
       /\ \A b \in Bindings : binding[b].status = "retired" /\ b \notin overlapped'
              => binding'[b] = binding[b]
       /\ \A i \in Identities : identity[i].status \in {"revoked", "retired"} /\ i \notin overlapped'
              => identity'[i] = identity[i]
<1>1. UNCHANGED <<contract, identity, binding>> => Stays  OBVIOUS
<1>2. Inv /\ [Next]_vars => [Stays]_vars
  <2> SUFFICES ASSUME Inv, [Next]_vars, ~UNCHANGED <<contract, identity, binding>> PROVE Stays
    BY <1>1
  <2> HIDE DEF Stays
  <2>1. \A w \in Workers : \A limit : Crash(w) \/ RetryOrConflict(w, limit) => FALSE
    BY DEF Crash, RetryOrConflict
  <2>2. ASSUME NEW w \in Workers, WriteContract(w) PROVE Stays
    <3> DEFINE r == request[w]
               x == r.row
    <3>1. r.stage = "loaded" /\ x \in Contracts /\ r # Idle  BY <2>2, Stages DEF WriteContract, Inv
    <3>2. /\ contract' = [contract EXCEPT ![x] = Merge(contract[x], r.sets)]
          /\ UNCHANGED <<identity, binding, overlapped>>
      BY <2>1, <2>2 DEF WriteContract
    <3>3. ContractJob(r) /\ x \notin Identities /\ x \notin Bindings
      BY <3>1, TablesApart DEF Inv, Shaped, IdentityJob, BindingJob, Idle
    <3>4. ContractBasis(r, contract, binding, overlapped)  BY <3>1 DEF Inv, Basis
    <3>5. r.op = "create_contract" => contract[x].status = "absent"
      BY <3>1, <3>3 DEF Inv, Alone, Missing, Creates
    <3>6. contract[x].status = "retired" => x \in overlapped
      BY <3>3, <3>4, <3>5 DEF ContractBasis, ContractJob
    <3>7. \A c \in Contracts : c # x => contract'[c] = contract[c]  BY <3>2 DEF Inv, Typed
    <3> QED  BY <3>2, <3>6, <3>7 DEF Stays
  <2>3. ASSUME NEW w \in Workers, WriteIdentity(w) PROVE Stays
    <3> DEFINE r == request[w]
               x == r.row
    <3>1. r.stage = "loaded" /\ x \in Identities /\ r # Idle  BY <2>3, Stages DEF WriteIdentity, Inv
    <3>2. /\ \E row : identity' = [identity EXCEPT ![x] = row]
          /\ UNCHANGED <<contract, binding, overlapped>>
      BY <2>1, <2>3 DEF WriteIdentity
    <3>3. IdentityJob(r) /\ x \notin Contracts /\ x \notin Bindings
      BY <3>1, TablesApart DEF Inv, Shaped, ContractJob, BindingJob, Idle
    <3>4. IdentityBasis(r, identity, overlapped)  BY <3>1 DEF Inv, Basis
    <3>5. r.op = "register" => identity[x].status = "absent"
      BY <3>1, <3>3 DEF Inv, Alone, Missing, Creates
    <3>6. identity[x].status \in {"revoked", "retired"} => x \in overlapped
      BY <3>3, <3>4, <3>5 DEF IdentityBasis, IdentityJob
    <3>7. \A i \in Identities : i # x => identity'[i] = identity[i]  BY <3>2 DEF Inv, Typed
    <3> QED  BY <3>2, <3>6, <3>7 DEF Stays
  <2>4. ASSUME NEW w \in Workers, WriteBinding(w) PROVE Stays
    <3> DEFINE r == request[w]
               x == r.row
               op == r.op
               new == BindingsAfter(r)
    <3>1. r.stage = "loaded" /\ x \in Bindings /\ r # Idle  BY <2>4, Stages DEF WriteBinding, Inv
    <3>2. binding' = new /\ UNCHANGED <<contract, identity, overlapped>>
      BY <2>1, <2>4 DEF WriteBinding
    <3>3. BindingBasis(r, contract, binding, overlapped)  BY <3>1 DEF Inv, Basis
    <3>4. /\ op \in {"create_binding", "edit_binding", "add_agent", "remove_agent", "activate_binding", "retire_binding"}
          /\ op = "create_binding" <=> binding[x].status = "absent"
          /\ op = "retire_binding" => new[x] = [binding[x] EXCEPT !.status = "retired"]
          /\ \A b \in Bindings : b # x => new[b] = binding[b] \/ Replaced(op, binding[b], new[b])
      BY <3>1, BindingWritten
    <3>5. \A b \in Bindings : binding[b].status = "retired" => [binding[b] EXCEPT !.status = "retired"] = binding[b]
      BY DEF Inv, Typed, BindingRow
    <3> HIDE DEF r, new
    <3>6. op \in {"edit_binding", "add_agent", "remove_agent", "activate_binding"} /\ x \notin overlapped =>
             binding[x].status = "draft"
      BY <3>1, <3>3 DEF BindingBasis
    <3>7. ASSUME NEW b \in Bindings, binding[b].status = "retired", b \notin overlapped
          PROVE  new[b] = binding[b]
      <4>1. CASE b # x  BY <3>4, <3>5, <3>7, <4>1 DEF Replaced
      <4>2. CASE b = x  BY <3>4, <3>5, <3>6, <3>7, <4>2
      <4> QED  BY <4>1, <4>2
    <3> QED  BY <3>2, <3>7 DEF Stays
  <2>5. \A w \in Workers : ~(ContractRequest(w) \/ IdentityRequest(w) \/ BindingRequest(w) \/ Retry(w))
    BY DEF ContractRequest, IdentityRequest, BindingRequest, Submit, Retry
  <2> QED  BY <2>2, <2>3, <2>4, <2>5 DEF Next, vars
<1>3. Spec => [][Stays]_vars  BY <1>2, InvHolds, PTL DEF Spec
<1> QED  BY <1>3 DEF EndedStaysEnded

=============================================================================
