------------------------------ MODULE Tenancy ------------------------------
(***************************************************************************)
(* Organisations and who may act for them: the organisation lifecycle,     *)
(* members and invitations, login sessions, API keys, settings, and the    *)
(* self-service sandbox with its caps and its clean-up.                    *)
(*                                                                         *)
(* A request is a script of service calls.  Each call reads and checks in  *)
(* one step (Load) and writes and commits in a later one (Commit); what    *)
(* another request commits in between is not seen.  Only the unique index  *)
(* on (organisation, email) keeps two requests apart.  A request may be    *)
(* cut off between two calls of its script.                                *)
(***************************************************************************)
EXTENDS Integers, Sequences, FiniteSets, Functions

CONSTANTS
    Organizations, Users, Invitations, Sessions, ApiKeys, Agents,  \* row ids
    Emails,
    Tabs,                   \* groups of settings, one per tab of the page
    Workers,                \* requests in flight at the same time
    SessionTimeout,         \* ticks
    InvitationValidity,     \* ticks
    MAX_AGENTS_PER_SANDBOX, \* 5 in the code
    NONE

Tables == <<Organizations, Users, Invitations, Sessions, ApiKeys, Agents, Emails>>

ASSUME ConstantsAssumption ==
    /\ SessionTimeout \in Nat \ {0}
    /\ InvitationValidity \in Nat \ {0}
    /\ MAX_AGENTS_PER_SANDBOX \in Nat
    /\ IsFiniteSet(Workers)
    \* row ids are UUIDs
    /\ \A s, t \in DOMAIN Tables : s # t => Tables[s] \cap Tables[t] = {}
    /\ Invitations \cap {NONE, "founder"} = {} /\ NONE # "founder"

Role == {"owner", "reviewer"}

\* The lifecycle of the starter policy that a sandbox is provisioned with
StarterStages == <<"draft", "under_review", "approved", "compiled", "active">>

VARIABLES
    db,         \* the tables: row id -> row
    request,    \* what each worker is doing
    overlapped  \* history: rows that two requests worked on at once

vars == <<db, request, overlapped>>

Rows == Organizations \cup Users \cup Invitations \cup Sessions \cup ApiKeys \cup Agents

Absent == [status |-> "absent"]
Idle == [stage |-> "idle"]

OrganizationRow ==
    [status : {"active", "deactivated", "archived"},
     environment : {"production", "sandbox"},
     stale : BOOLEAN,               \* created_at is before the clean-up's cutoff
     settings : SUBSET Tabs,        \* the tabs somebody has saved
     starter : Range(StarterStages) \cup {NONE}]

UserRow ==
    [status : {"active", "disabled"}, organization_id : Organizations,
     email : Emails, role : Role,
     edited : BOOLEAN,               \* history: email or role has changed
     via : Invitations \cup {"founder", NONE}]  \* history: the way in

InvitationRow ==
    [status : {"pending", "accepted", "revoked", "expired"},
     organization_id : Organizations, email : Emails, role : Role,
     left : 0..InvitationValidity]

UserSession ==
    [status : {"open", "revoked"}, user_id : Users, left : Int,
     age : 0..SessionTimeout]       \* history: ticks since the login

ApiKey == [status : {"live", "revoked"}, organization_id : Organizations]

Init ==
    /\ db = [x \in Rows |-> Absent]
    /\ request = [w \in Workers |-> Idle]
    /\ overlapped = {}

-----------------------------------------------------------------------------
(* What a call returns: the error it raises, or the columns its UPDATEs    *)
(* and INSERTs set, and the rows its decision rests on.                    *)

Raise(error) == [error |-> error, writes |-> << >>, reads |-> {}]
Row(x, columns) == [y \in {x} |-> columns]
Write(writes, reads) == [error |-> "ok", writes |-> writes, reads |-> reads]

Exists(x) == db[x].status # "absent"
In(table, o) == {x \in table : Exists(x) /\ db[x].organization_id = o}

Registered(o, e) == \E u \in In(Users, o) : db[u].email = e

\* Fault: a deactivated organisation still gets its requests served
AnyOrganization(o) == Exists(o)

\* get_current_organization: every route of a tenant resolves it first
get_current_organization(o) == Exists(o) /\ db[o].status = "active"

ensure_active_or_403(o, out) ==
    IF get_current_organization(o) THEN [out EXCEPT !.reads = out.reads \cup {o}]
    ELSE Raise("organization_not_active")

-----------------------------------------------------------------------------
(* organization_service, organization_lifecycle_service                    *)

NewOrganization(environment) ==
    [status |-> "active", environment |-> environment, stale |-> FALSE,
     settings |-> {}, starter |-> NONE]

NewUser(o, e, role, i) ==
    [status |-> "active", organization_id |-> o, email |-> e, role |-> role,
     edited |-> FALSE, via |-> i]

create_organization(o, u, e, environment) ==
    Write([x \in {o, u} |-> IF x = o THEN NewOrganization(environment)
                          ELSE NewUser(o, e, "owner", "founder")], {})

\* At startup of a process
ensure_owner_bootstrapped(o, u, e) ==
    IF \E x \in Organizations : Exists(x) THEN Raise("nothing_to_do")
    ELSE create_organization(o, u, e, "production")

StatusChange(o, from, to) ==
    IF ~Exists(o) \/ db[o].status # from THEN Raise("invalid_status")
    ELSE Write(Row(o, [status |-> to]), {})

deactivate_organization(o) == StatusChange(o, "active", "deactivated")

reactivate_organization(o) == StatusChange(o, "deactivated", "active")
archive_organization(o) == StatusChange(o, "deactivated", "archived")

\* Merged into the blob that was read; the blob is written as a whole
update_settings(o, tab) == Write(Row(o, [settings |-> db[o].settings \cup {tab}]), {})

invite_member(i, o, e, role) ==
    IF Registered(o, e) THEN Raise("email_already_exists")
    ELSE Write(Row(i, [status |-> "pending", organization_id |-> o, email |-> e,
                     role |-> role, left |-> InvitationValidity]), {e})

revoke_invitation(i, o) ==
    IF ~Exists(i) \/ db[i].organization_id # o THEN Raise("invitation_not_found")
    ELSE IF db[i].status # "pending" THEN Raise("not_pending")
    ELSE Write(Row(i, [status |-> "revoked"]), {})

\* Fault: the token stays good after it has been used
AcceptAgain(i, u) ==
    IF ~Exists(i) THEN Raise("invitation_not_found")
    ELSE IF db[i].status = "revoked" THEN Raise("not_pending")
    ELSE IF Registered(db[i].organization_id, db[i].email)
    THEN Raise("email_already_exists")
    ELSE Write([x \in {u, i} |-> IF x = i THEN [status |-> "accepted"]
                               ELSE NewUser(db[i].organization_id, db[i].email, db[i].role, i)],
               {db[i].email})

\* The organisation's status is not looked at.  An expired invitation is
\* marked so before the error is raised.
accept_invitation(i, u) ==
    IF ~Exists(i) THEN Raise("invitation_not_found")
    ELSE IF db[i].status # "pending" THEN Raise("not_pending")
    ELSE IF db[i].left = 0
    THEN [error |-> "expired", writes |-> Row(i, [status |-> "expired"]), reads |-> {}]
    ELSE IF Registered(db[i].organization_id, db[i].email)
    THEN Raise("email_already_exists")
    ELSE Write([x \in {u, i} |-> IF x = i THEN [status |-> "accepted"]
                               ELSE NewUser(db[i].organization_id, db[i].email, db[i].role, i)],
               {db[i].email})

-----------------------------------------------------------------------------
(* Users, sessions and API keys                                            *)

create_user(o, u, e, role) ==
    IF Registered(o, e) THEN Raise("email_already_exists")
    ELSE Write(Row(u, NewUser(o, e, role, NONE)), {e})

GetOrgUser(o, u) == u \in In(Users, o)

update_user_role(o, u, role) ==
    IF ~GetOrgUser(o, u) THEN Raise("user_not_found") ELSE Write(Row(u, [role |-> role, edited |-> TRUE]), {})

update_user_status(o, u, status) ==
    IF ~GetOrgUser(o, u) THEN Raise("user_not_found") ELSE Write(Row(u, [status |-> status]), {})

\* Takes whichever owner the query returns first and gives it this email
setup_owner(o, owner, e) ==
    IF ~GetOrgUser(o, owner) \/ db[owner].role # "owner" THEN Raise("owner_not_found")
    ELSE IF \E u \in In(Users, o) : u # owner /\ db[u].email = e
    THEN Raise("email_already_exists")
    ELSE Write(Row(owner, [email |-> e, edited |-> TRUE]), {db[owner].email, e})

create_session(s, u) ==
    Write(Row(s, [status |-> "open", user_id |-> u, left |-> SessionTimeout, age |-> 0]), {})

\* authenticate looks the email up in all organisations; the status of the
\* user's organisation is not looked at
login(s, e, u) ==
    IF ~Exists(u) \/ db[u].email # e \/ db[u].status # "active"
    THEN Raise("invalid_credentials")
    ELSE create_session(s, u)

revoke_session(s) ==
    IF ~Exists(s) \/ db[s].status = "revoked" THEN Raise("nothing_to_do")
    ELSE Write(Row(s, [status |-> "revoked"]), {})

\* resolve_user_for_session_token finds a user
Resolves(s) ==
    /\ Exists(s) /\ db[s].status = "open" /\ db[s].left # 0
    /\ db[db[s].user_id].status = "active"

create_api_key(k, o) == Write(Row(k, [status |-> "live", organization_id |-> o]), {})

revoke_api_key(k, o) ==
    IF k \notin In(ApiKeys, o) THEN Raise("api_key_not_found")
    ELSE IF db[k].status = "revoked" THEN Raise("nothing_to_do")
    ELSE Write(Row(k, [status |-> "revoked"]), {})

-----------------------------------------------------------------------------
(* The sandbox                                                             *)

is_sandbox_organization(o) == Exists(o) /\ db[o].environment = "sandbox"

\* Fault: the cap counts from one too many
OneTooMany(a, o) ==
    IF is_sandbox_organization(o) /\ Cardinality(In(Agents, o)) > MAX_AGENTS_PER_SANDBOX
    THEN Raise("sandbox_limit")
    ELSE Write(Row(a, [status |-> "registered", organization_id |-> o]), {})

\* create_agent's cap; policies and integration identities are capped alike
register_agent(a, o) ==
    IF is_sandbox_organization(o) /\ Cardinality(In(Agents, o)) >= MAX_AGENTS_PER_SANDBOX
    THEN Raise("sandbox_limit")
    ELSE Write(Row(a, [status |-> "registered", organization_id |-> o]), {})

find_sandbox_organization_by_owner_email(e) ==
    {o \in Organizations :
        /\ is_sandbox_organization(o) /\ db[o].status # "archived"
        /\ \E u \in In(Users, o) : db[u].email = e /\ db[u].role = "owner"}

SandboxOrganization(o, u, e) ==
    IF find_sandbox_organization_by_owner_email(e) # {} THEN Raise("sandbox_already_exists")
    ELSE [create_organization(o, u, e, "sandbox") EXCEPT !.reads = {e}]

\* create_policy, submit_for_review, approve, compile_policy, deploy_policy on
\* the starter policy: each is called with the policy in the state before
StarterStep(o, k) ==
    IF db[o].starter # (IF k = 1 THEN NONE ELSE StarterStages[k - 1])
    THEN Raise("invalid_transition")
    ELSE Write(Row(o, [starter |-> StarterStages[k]]), {})

StarterCalls(o) ==
    [k \in 1..Len(StarterStages) |-> [op |-> "starter", organization |-> o, step |-> k]]

create_sandbox_organization(o, u, e, key) ==
    <<[op |-> "sandbox", organization |-> o, user |-> u, email |-> e]>> \o StarterCalls(o)
        \o <<[op |-> "sandbox_key", organization |-> o, key |-> key]>>

list_stale_sandbox_organizations ==
    {o \in Organizations : is_sandbox_organization(o) /\ db[o].status = "active" /\ db[o].stale}

\* scripts/cleanup_stale_sandboxes.py: two commits for each
archive_stale_sandbox_organizations(o) ==
    <<[op |-> "deactivate", organization |-> o], [op |-> "archive", organization |-> o]>>

-----------------------------------------------------------------------------
(* Requests                                                                *)

\* What the endpoint of a call does when its Load step runs
Call(c) ==
    CASE c.op = "bootstrap"   -> ensure_owner_bootstrapped(c.organization, c.user, c.email)
      [] c.op = "create"      -> create_organization(c.organization, c.user, c.email, "production")
      [] c.op = "deactivate"  -> deactivate_organization(c.organization)
      [] c.op = "reactivate"  -> reactivate_organization(c.organization)
      [] c.op = "archive"     -> archive_organization(c.organization)
      [] c.op = "settings"    -> ensure_active_or_403(c.organization, update_settings(c.organization, c.tab))
      [] c.op = "platform_settings" ->
            IF Exists(c.organization) THEN update_settings(c.organization, c.tab) ELSE Raise("not_found")
      [] c.op = "invite"      -> ensure_active_or_403(c.organization,
                                   invite_member(c.invitation, c.organization, c.email, c.role))
      [] c.op = "uninvite"    -> ensure_active_or_403(c.organization,
                                   revoke_invitation(c.invitation, c.organization))
      [] c.op = "accept"      -> accept_invitation(c.invitation, c.user)
      [] c.op = "create_user" -> ensure_active_or_403(c.organization,
                                   create_user(c.organization, c.user, c.email, c.role))
      [] c.op = "role"        -> ensure_active_or_403(c.organization,
                                   update_user_role(c.organization, c.user, c.role))
      [] c.op = "user_status" -> ensure_active_or_403(c.organization,
                                   update_user_status(c.organization, c.user, c.status))
      [] c.op = "setup_owner" -> ensure_active_or_403(c.organization,
                                   setup_owner(c.organization, c.user, c.email))
      [] c.op = "login"       -> login(c.session, c.email, c.user)
      [] c.op = "logout"      -> revoke_session(c.session)
      [] c.op = "api_key"     -> ensure_active_or_403(c.organization, create_api_key(c.key, c.organization))
      [] c.op = "revoke_key"  -> ensure_active_or_403(c.organization, revoke_api_key(c.key, c.organization))
      [] c.op = "agent"       -> ensure_active_or_403(c.organization, register_agent(c.agent, c.organization))
      [] c.op = "sandbox"     -> SandboxOrganization(c.organization, c.user, c.email)
      [] c.op = "starter"     -> StarterStep(c.organization, c.step)
      [] c.op = "sandbox_key" -> create_api_key(c.key, c.organization)

Touched(r) == IF r.stage = "loaded" THEN DOMAIN r.writes \cup r.reads ELSE {}

Answer(w) == request' = [request EXCEPT ![w] = Idle]

\* The first call of `script': reads and checks
Load(w, script) ==
    LET out == Call(Head(script))
        mine == DOMAIN out.writes \cup out.reads
        met == UNION {Touched(request[v]) \cap mine : v \in Workers \ {w}}
    IN  IF out.error \in {"ok", "expired"}
        THEN /\ request' = [request EXCEPT ![w] =
                  [stage |-> "loaded", op |-> Head(script).op, writes |-> out.writes,
                   reads |-> out.reads,
                   script |-> IF out.error = "ok" THEN Tail(script) ELSE << >>]]
             /\ overlapped' = overlapped \cup met
             /\ UNCHANGED db
        ELSE /\ Answer(w)
             /\ UNCHANGED <<db, overlapped>>

\* An UPDATE sets its columns and leaves the others as they are by now
Merge(row, sets) ==
    [f \in DOMAIN row \cup DOMAIN sets |-> IF f \in DOMAIN sets THEN sets[f] ELSE row[f]]

UniqueEmail(tables) ==
    \A u, v \in Users :
        /\ tables[u].status # "absent" /\ tables[v].status # "absent"
        /\ tables[u].organization_id = tables[v].organization_id
        /\ tables[u].email = tables[v].email
        => u = v

Commit(w) ==
    LET r == request[w]
        after == [x \in Rows |-> IF x \in DOMAIN r.writes THEN Merge(db[x], r.writes[x]) ELSE db[x]]
    IN  /\ r.stage = "loaded"
        /\ IF UniqueEmail(after)
           THEN /\ db' = after
                /\ request' = [request EXCEPT ![w] =
                      IF r.script = << >> THEN Idle
                      ELSE [stage |-> "next", script |-> r.script]]
           ELSE Answer(w) /\ UNCHANGED db      \* IntegrityError: HTTP 500
        /\ UNCHANGED overlapped

\* The next call of the script
Continue(w) == request[w].stage = "next" /\ Load(w, request[w].script)

\* A process dies, or OPA cannot be reached by deploy_policy, between two
\* calls of a script
CutOff(w) ==
    /\ request[w].stage = "next"
    /\ Answer(w)
    /\ UNCHANGED <<db, overlapped>>

Reserved(r) ==
    IF r = Idle THEN {}
    ELSE Touched(r) \cup {c.key : c \in {x \in Range(r.script) : x.op = "sandbox_key"}}

\* The id of a new row: one that nothing has used, and it does not matter which
Unused(table) ==
    LET free == {x \in table : ~Exists(x) /\ \A w \in Workers : x \notin Reserved(request[w])}
    IN  IF free = {} THEN {} ELSE {CHOOSE x \in free : TRUE}

OrganizationRequest(w) ==
    \/ \E o \in Unused(Organizations), u \in Unused(Users), e \in Emails :
          \/ Load(w, <<[op |-> "bootstrap", organization |-> o, user |-> u, email |-> e]>>)
          \/ Load(w, <<[op |-> "create", organization |-> o, user |-> u, email |-> e]>>)
          \/ \E k \in Unused(ApiKeys) : Load(w, create_sandbox_organization(o, u, e, k))
    \/ \E o \in Organizations :
          \/ \E op \in {"deactivate", "reactivate", "archive"} :
                Load(w, <<[op |-> op, organization |-> o]>>)
          \/ \E tab \in Tabs, op \in {"settings", "platform_settings"} :
                Load(w, <<[op |-> op, organization |-> o, tab |-> tab]>>)
          \/ \E a \in Unused(Agents) : Load(w, <<[op |-> "agent", organization |-> o, agent |-> a]>>)
          \/ /\ o \in list_stale_sandbox_organizations
             /\ Load(w, archive_stale_sandbox_organizations(o))

MemberRequest(w) ==
    \E o \in Organizations :
        \/ \E e \in Emails, role \in Role :
              \/ \E i \in Unused(Invitations) :
                    Load(w, <<[op |-> "invite", organization |-> o, invitation |-> i,
                               email |-> e, role |-> role]>>)
              \/ \E u \in Unused(Users) :
                    Load(w, <<[op |-> "create_user", organization |-> o, user |-> u,
                               email |-> e, role |-> role]>>)
        \/ \E i \in Invitations :
              \/ Load(w, <<[op |-> "uninvite", organization |-> o, invitation |-> i]>>)
              \/ \E u \in Unused(Users) : Load(w, <<[op |-> "accept", invitation |-> i, user |-> u]>>)
        \/ \E u \in Users :
              \/ \E role \in Role :
                    Load(w, <<[op |-> "role", organization |-> o, user |-> u, role |-> role]>>)
              \/ \E status \in {"active", "disabled"} :
                    Load(w, <<[op |-> "user_status", organization |-> o, user |-> u, status |-> status]>>)
              \/ \E e \in Emails :
                    Load(w, <<[op |-> "setup_owner", organization |-> o, user |-> u, email |-> e]>>)

CredentialRequest(w) ==
    \/ \E s \in Unused(Sessions), u \in Users, e \in Emails :
          Load(w, <<[op |-> "login", session |-> s, user |-> u, email |-> e]>>)
    \/ \E s \in Sessions : Load(w, <<[op |-> "logout", session |-> s]>>)
    \/ \E o \in Organizations :
          \/ \E k \in Unused(ApiKeys) : Load(w, <<[op |-> "api_key", organization |-> o, key |-> k]>>)
          \/ \E k \in ApiKeys : Load(w, <<[op |-> "revoke_key", organization |-> o, key |-> k]>>)

Sooner(left) == IF left > 0 THEN left - 1 ELSE left

\* Expiry dates come closer and sandboxes grow old
TimePasses ==
    /\ db' = [x \in Rows |->
          CASE x \in Invitations /\ Exists(x) -> [db[x] EXCEPT !.left = Sooner(db[x].left)]
            [] x \in Sessions /\ Exists(x) ->
                 [db[x] EXCEPT !.left = Sooner(db[x].left), !.age = IF db[x].age < SessionTimeout THEN db[x].age + 1 ELSE @]
            [] x \in Organizations /\ is_sandbox_organization(x) -> [db[x] EXCEPT !.stale = TRUE]
            [] OTHER -> db[x]]
    /\ UNCHANGED <<request, overlapped>>

Step(w) ==
    \/ request[w] = Idle /\ (OrganizationRequest(w) \/ MemberRequest(w) \/ CredentialRequest(w))
    \/ Commit(w) \/ Continue(w) \/ CutOff(w)

Next == TimePasses \/ \E w \in Workers : Step(w)

Spec == Init /\ [][Next]_vars

-----------------------------------------------------------------------------
(* Every row keeps its type, whatever requests race: no UPDATE leaves a    *)
(* row half of one kind and half of another.                               *)
TypeOK ==
    /\ \A o \in Organizations : db[o] # Absent => db[o] \in OrganizationRow
    /\ \A u \in Users : db[u] # Absent => db[u] \in UserRow
    /\ \A i \in Invitations : db[i] # Absent => db[i] \in InvitationRow
    /\ \A s \in Sessions : db[s] # Absent => db[s] \in UserSession
    /\ \A k \in ApiKeys : db[k] # Absent => db[k] \in ApiKey
    /\ overlapped \subseteq Rows \cup Emails

Undisturbed(x) == x \notin overlapped

\* Nobody is registered twice in an organisation, whichever of the ways in
\* (bootstrap, creation, invitation, POST /v1/users, setup-owner) race.
OneUserPerEmail ==
    \A o \in Organizations : \A u, v \in In(Users, o) : db[u].email = db[v].email => u = v

\* An invitation admits one person.  Accepted twice at the same time it
\* admits one person per email it was for, since setup-owner may have moved
\* the first to another email.
InvitationAdmitsOnce ==
    \A i \in Invitations :
        LET admitted == {u \in Users : Exists(u) /\ db[u].via = i}
        IN  /\ Undisturbed(i) => Cardinality(admitted) <= 1
            /\ Cardinality({u \in admitted : db[u].email = db[i].email}) <= 1
            /\ admitted # {} /\ Undisturbed(i) => db[i].status = "accepted"

\* A sandbox never holds more agents than the cap plus the requests that can
\* pass the check together, and not more than the cap if none ever did.
SandboxCapped ==
    \A o \in Organizations : is_sandbox_organization(o) =>
        LET held == Cardinality(In(Agents, o))
        IN  /\ held < MAX_AGENTS_PER_SANDBOX + Cardinality(Workers)
            /\ Undisturbed(o) => held <= MAX_AGENTS_PER_SANDBOX

\* A developer who founded a sandbox founds no other before it is archived,
\* unless two requests for the same email were checked at the same time, the
\* founder was edited since, or requests overlapped on the sandbox itself (a
\* stale reactivation revives an archived one).  Being invited to somebody
\* else's sandbox as an owner does not count.
OneSandboxPerEmail ==
    \A e \in Emails : Undisturbed(e) =>
        Cardinality({o \in find_sandbox_organization_by_owner_email(e) :
            /\ Undisturbed(o)
            /\ \E u \in In(Users, o) : db[u].via = "founder" /\ db[u].email = e /\ ~db[u].edited}) <= 1

\* The API key of a sandbox comes last: who holds one can use the starter
\* policy, wherever provisioning was cut off.
KeyMeansStarter ==
    \A w \in Workers : request[w].stage = "loaded" /\ request[w].op = "sandbox_key" =>
        \A k \in DOMAIN request[w].writes :
            db[request[w].writes[k].organization_id].starter = "active"

\* The last commit of provisioning, which is about to issue the key
Provisioned(k) ==
    \E w \in Workers :
        request[w].stage = "loaded" /\ request[w].op = "sandbox_key" /\ k \in DOMAIN request[w].writes

\* A deactivated organisation gains no members by its own administrators, no
\* invitations and no agents, unless the deactivation overlapped with the
\* request; and no API key, with one more exception: a sandbox that is
\* deactivated while it is being provisioned still gets its key, since the
\* last commit of create_sandbox_organization does not look at the status.
DeactivatedIsFrozen ==
    [][\A o \in Organizations :
          Exists(o) /\ db[o].status # "active" /\ o \notin overlapped' =>
              /\ In(Invitations, o)' = In(Invitations, o)
              /\ In(Agents, o)' = In(Agents, o)
              /\ \A k \in In(ApiKeys, o)' \ In(ApiKeys, o) : Provisioned(k)
              /\ \A u \in In(Users, o)' : u \notin In(Users, o) => db'[u].via \in Invitations]_vars

\* Archived is final for an organisation on which no two requests overlapped.
ArchivedIsFinal ==
    [][\A o \in Organizations :
          Exists(o) /\ db[o].status = "archived" /\ o \notin overlapped' =>
              db'[o].status = "archived"]_vars

\* Saving one tab of the settings keeps what the others hold, unless two
\* saves overlapped: the blob is then written from a stale copy.
SettingsMerged ==
    [][\A o \in Organizations :
          Exists(o) /\ o \notin overlapped' => db[o].settings \subseteq db'[o].settings]_vars

\* A login ends by itself: whatever happens meanwhile, no session resolves
\* once the timeout fixed at login is over.
SessionsEnd == \A s \in Sessions : Resolves(s) => db[s].age < SessionTimeout

\* Who may act for an organisation, by every way in and for how long: one user
\* per email, one per invitation, no session past its timeout.
MembershipSound == TypeOK /\ OneUserPerEmail /\ InvitationAdmitsOnce /\ SessionsEnd

\* POST /v1/sandbox under races and cut off anywhere: one sandbox per
\* developer, capped, and usable once its key exists.
SandboxesSound == SandboxCapped /\ OneSandboxPerEmail /\ KeyMeansStarter

\* What a request may never do to an organisation: work for a deactivated one,
\* revive an archived one, or clobber another tab's settings.
TenantsRespected == DeactivatedIsFrozen /\ ArchivedIsFinal /\ SettingsMerged

=============================================================================
