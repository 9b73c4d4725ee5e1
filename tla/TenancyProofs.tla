--------------------------- MODULE TenancyProofs ---------------------------
(***************************************************************************)
(* Theorems of Tenancy, for any number of organisations, users and         *)
(* requests in flight.  The invariant says, for each request that has read *)
(* and not yet committed, what it will write and what it relies on.  What  *)
(* it relies on still holds as long as no two requests met on the row or   *)
(* the email address concerned; what a sandbox's provisioning relies on    *)
(* holds in any case, because nobody else provisions that sandbox.         *)
(***************************************************************************)
EXTENDS Tenancy, FiniteSetTheorems, SequenceTheorems, TLAPS

-----------------------------------------------------------------------------
(* The tables t, as parameters: what is said of them is needed before and  *)
(* after a step.                                                           *)

Here(x, t) == t[x].status # "absent"
Of(table, o, t) == {x \in table : Here(x, t) /\ t[x].organization_id = o}

AgentRow == [status : {"registered"}, organization_id : Organizations]

Typed(t) ==
    /\ \A o \in Organizations : t[o] = Absent \/ t[o] \in OrganizationRow
    /\ \A u \in Users : t[u] = Absent \/ t[u] \in UserRow
    /\ \A i \in Invitations : t[i] = Absent \/ t[i] \in InvitationRow
    /\ \A s \in Sessions : t[s] = Absent \/ t[s] \in UserSession
    /\ \A k \in ApiKeys : t[k] = Absent \/ t[k] \in ApiKey
    /\ \A a \in Agents : t[a] = Absent \/ t[a] \in AgentRow

\* What is somebody's belongs to an organisation there is.
Rooted(t) ==
    \A x \in Users \cup Invitations \cup ApiKeys \cup Agents :
        Here(x, t) => Here(t[x].organization_id, t)

\* A session's remaining time and its age make up the timeout.
Clocked(t) ==
    \A s \in Sessions : Here(s, t) => t[s].left \in Nat /\ t[s].left + t[s].age = SessionTimeout

\* Who was admitted by an invitation
Admitted(t, ov) ==
    \A u \in Users : Here(u, t) /\ t[u].via \in Invitations =>
        LET i == t[u].via
        IN  /\ Here(i, t) /\ t[u].organization_id = t[i].organization_id
            /\ i \notin ov => /\ t[i].status = "accepted"
                              /\ \A v \in Users : Here(v, t) /\ t[v].via = i => v = u

Sandbox(o, t) == Here(o, t) /\ t[o].environment = "sandbox"

\* The sandboxes e founded, as far as nothing disturbed them
Founded(e, t, ov) ==
    {o \in Organizations \ ov :
        /\ Sandbox(o, t) /\ t[o].status # "archived"
        /\ \E u \in Of(Users, o, t) : /\ t[u].via = "founder" /\ t[u].email = e
                                  /\ t[u].role = "owner" /\ ~t[u].edited}

OneSandbox(t, ov) == \A e \in Emails \ ov : \A o, p \in Founded(e, t, ov) : o = p

-----------------------------------------------------------------------------
(* The scripts.                                                            *)

\* The calls that provision o after it was created
Provision(m, o, k) ==
    IF m = 6 THEN [op |-> "sandbox_key", organization |-> o, key |-> k]
    ELSE [op |-> "starter", organization |-> o, step |-> m]

Calls == {Provision(m, o, k) : m \in 1..6, o \in Organizations, k \in ApiKeys}

\* s goes on with the m-th of them.
Remaining(s, m, o, k) ==
    /\ s \in Seq(Calls) /\ Len(s) = 7 - m
    /\ \A j \in 1..(7 - m) : s[j] = Provision(m + j - 1, o, k)

\* The stage of the starter policy before its m-th call
Stage(m) == IF m = 1 THEN NONE ELSE StarterStages[m - 1]

ArchiveScript(o) == <<[op |-> "archive", organization |-> o]>>

KeyCalls(r) == {c \in Range(r.script) : c.op = "sandbox_key"}

\* The organisation a request provisions
Provides(r) ==
    IF r = Idle THEN {}
    ELSE {c.organization : c \in KeyCalls(r)}
         \cup (IF r.stage = "loaded" /\ r.op = "sandbox_key"
               THEN {r.writes[k].organization_id : k \in DOMAIN r.writes} ELSE {})

-----------------------------------------------------------------------------
(* What a request that has read will write, and what it relies on.         *)

Simple(r) == r.script = << >> /\ r.op # "sandbox_key"

Founding(r, t, ov) ==
    \E o \in Organizations, u \in Users, e \in Emails, environment \in {"production", "sandbox"} :
        /\ r.writes = [x \in {o, u} |-> IF x = o THEN NewOrganization(environment)
                                        ELSE NewUser(o, e, "owner", "founder")]
        /\ ~Here(o, t) /\ ~Here(u, t)
        /\ environment = "production" => Simple(r)
        /\ environment = "sandbox" =>
              /\ r.op = "sandbox" /\ e \in r.reads
              /\ \E k \in ApiKeys : Remaining(r.script, 1, o, k) /\ ~Here(k, t)
              /\ e \notin ov => Founded(e, t, ov) = {}

Transitions == {<<"active", "deactivated">>, <<"deactivated", "active">>, <<"deactivated", "archived">>}

ChangingStatus(r, t, ov) ==
    \E o \in Organizations, step \in Transitions :
        /\ r.writes = Row(o, [status |-> step[2]]) /\ Here(o, t)
        /\ r.op # "sandbox_key" /\ r.script \in {<< >>, ArchiveScript(o)}
        /\ o \notin ov => t[o].status = step[1]

SavingSettings(r, t, ov) ==
    \E o \in Organizations, tabs \in SUBSET Tabs :
        /\ r.writes = Row(o, [settings |-> tabs]) /\ Here(o, t) /\ Simple(r)
        /\ o \notin ov => t[o].settings \subseteq tabs

Provisioning(r, t) ==
    \E o \in Organizations, k \in ApiKeys, m \in 1..5 :
        /\ r.writes = Row(o, [starter |-> StarterStages[m]]) /\ Here(o, t)
        /\ r.op = "starter" /\ t[o].starter = Stage(m)
        /\ Remaining(r.script, m + 1, o, k) /\ ~Here(k, t)

Inviting(r, t) ==
    \E i \in Invitations, o \in Organizations, e \in Emails, role \in Role :
        /\ r.writes = Row(i, [status |-> "pending", organization_id |-> o, email |-> e,
                              role |-> role, left |-> InvitationValidity])
        /\ ~Here(i, t) /\ o \in r.reads /\ Simple(r)

ClosingInvitation(r, t, ov) ==
    \E i \in Invitations, status \in {"revoked", "expired"} :
        /\ r.writes = Row(i, [status |-> status]) /\ Here(i, t) /\ Simple(r)
        /\ i \notin ov => t[i].status = "pending"

Accepting(r, t, ov) ==
    \E i \in Invitations, u \in Users :
        /\ ~Here(u, t) /\ Here(i, t) /\ Simple(r)
        /\ r.writes = [x \in {u, i} |-> IF x = i THEN [status |-> "accepted"]
                          ELSE NewUser(t[i].organization_id, t[i].email, t[i].role, i)]
        /\ i \notin ov => t[i].status = "pending"

AddingUser(r, t) ==
    \E u \in Users, o \in Organizations, e \in Emails, role \in Role :
        /\ r.writes = Row(u, NewUser(o, e, role, NONE))
        /\ ~Here(u, t) /\ o \in r.reads /\ Simple(r)

UserColumns ==
    {[role |-> role, edited |-> TRUE] : role \in Role} \cup {[status |-> s] : s \in {"active", "disabled"}}
    \cup {[email |-> e, edited |-> TRUE] : e \in Emails}

EditingUser(r, t) ==
    \E u \in Users, columns \in UserColumns :
        r.writes = Row(u, columns) /\ Here(u, t) /\ Simple(r)

LoggingIn(r, t) ==
    \E s \in Sessions, u \in Users :
        /\ r.writes = Row(s, [status |-> "open", user_id |-> u, left |-> SessionTimeout, age |-> 0])
        /\ ~Here(s, t) /\ Simple(r)

LoggingOut(r, t) ==
    \E s \in Sessions : r.writes = Row(s, [status |-> "revoked"]) /\ Here(s, t) /\ Simple(r)

IssuingKey(r, t) ==
    \E k \in ApiKeys, o \in Organizations :
        /\ r.writes = Row(k, [status |-> "live", organization_id |-> o])
        /\ ~Here(k, t) /\ Here(o, t) /\ r.script = << >>
        /\ r.op = "sandbox_key" => t[o].starter = "active"
        /\ r.op # "sandbox_key" => o \in r.reads

RevokingKey(r, t) ==
    \E k \in ApiKeys : r.writes = Row(k, [status |-> "revoked"]) /\ Here(k, t) /\ Simple(r)

AddingAgent(r, t, ov) ==
    \E a \in Agents, o \in Organizations :
        /\ r.writes = Row(a, [status |-> "registered", organization_id |-> o])
        /\ ~Here(a, t) /\ o \in r.reads /\ Simple(r)
        /\ Sandbox(o, t) /\ o \notin ov => Cardinality(Of(Agents, o, t)) < MAX_AGENTS_PER_SANDBOX

\* What it read of an organisation: that it was active
Reads(r, t, ov) ==
    /\ r.reads \subseteq Organizations \cup Emails
    /\ \A o \in r.reads \cap Organizations : Here(o, t) /\ (o \notin ov => t[o].status = "active")

Job(r, t, ov) ==
    /\ Reads(r, t, ov)
    /\ \/ Founding(r, t, ov)
       \/ ChangingStatus(r, t, ov)
       \/ SavingSettings(r, t, ov)
       \/ Provisioning(r, t)
       \/ Inviting(r, t)
       \/ ClosingInvitation(r, t, ov)
       \/ Accepting(r, t, ov)
       \/ AddingUser(r, t)
       \/ EditingUser(r, t)
       \/ LoggingIn(r, t)
       \/ LoggingOut(r, t)
       \/ IssuingKey(r, t)
       \/ RevokingKey(r, t)
       \/ AddingAgent(r, t, ov)

\* Between two calls
Between(r, t) ==
    \/ \E o \in Organizations : r.script = ArchiveScript(o)
    \/ \E o \in Organizations, k \in ApiKeys, m \in 1..6 :
          Remaining(r.script, m, o, k) /\ ~Here(k, t) /\ Here(o, t) /\ t[o].starter = Stage(m)

Fine(r, t, ov) ==
    \/ r = Idle
    \/ DOMAIN r = {"stage", "script"} /\ r.stage = "next" /\ Between(r, t)
    \/ DOMAIN r = {"stage", "op", "writes", "reads", "script"} /\ r.stage = "loaded" /\ Job(r, t, ov)

-----------------------------------------------------------------------------
(* The requests together.                                                  *)

\* A row that is not there yet is one request's alone.
Alone(reqs, t) ==
    \A v, w \in Workers : v # w =>
        \A x \in Rows : x \in Reserved(reqs[v]) /\ x \in Reserved(reqs[w]) => Here(x, t)

\* Requests that share a row or an email are known to overlap on it.
Exclusive(reqs, ov) ==
    \A v, w \in Workers : v # w => Touched(reqs[v]) \cap Touched(reqs[w]) \subseteq ov

\* A sandbox is provisioned by one request.
Sole(reqs) == \A v, w \in Workers : v # w => Provides(reqs[v]) \cap Provides(reqs[w]) = {}

\* Requests about to register an agent with o
Pending(o, reqs) ==
    {w \in Workers : /\ reqs[w].stage = "loaded"
                     /\ \E a \in Agents \cap DOMAIN reqs[w].writes : reqs[w].writes[a].organization_id = o}

Capped(reqs, t, ov) ==
    \A o \in Organizations :
        LET held == Of(Agents, o, t)
        IN  /\ IsFiniteSet(held)
            /\ Sandbox(o, t) =>
                  /\ Cardinality(held) + Cardinality(Pending(o, reqs))
                        < MAX_AGENTS_PER_SANDBOX + Cardinality(Workers)
                  /\ o \notin ov => Cardinality(held) <= MAX_AGENTS_PER_SANDBOX

Inv ==
    /\ Typed(db)
    /\ DOMAIN request = Workers
    /\ overlapped \subseteq Rows \cup Emails
    /\ \A w \in Workers : Fine(request[w], db, overlapped)
    /\ Alone(request, db)
    /\ Exclusive(request, overlapped)
    /\ Sole(request)
    /\ UniqueEmail(db)
    /\ Rooted(db)
    /\ Clocked(db)
    /\ Admitted(db, overlapped)
    /\ OneSandbox(db, overlapped)
    /\ Capped(request, db, overlapped)

-----------------------------------------------------------------------------
(* Constants.                                                              *)

LEMMA Disjoint ==
    /\ Organizations \cap Users = {} /\ Organizations \cap Invitations = {} /\ Organizations \cap Sessions = {}
    /\ Organizations \cap ApiKeys = {} /\ Organizations \cap Agents = {} /\ Organizations \cap Emails = {}
    /\ Users \cap Invitations = {} /\ Users \cap Sessions = {} /\ Users \cap ApiKeys = {}
    /\ Users \cap Agents = {} /\ Users \cap Emails = {}
    /\ Invitations \cap Sessions = {} /\ Invitations \cap ApiKeys = {} /\ Invitations \cap Agents = {}
    /\ Invitations \cap Emails = {}
    /\ Sessions \cap ApiKeys = {} /\ Sessions \cap Agents = {} /\ Sessions \cap Emails = {}
    /\ ApiKeys \cap Agents = {} /\ ApiKeys \cap Emails = {} /\ Agents \cap Emails = {}
<1>1. DOMAIN Tables = 1..7  BY DEF Tables
<1>2. \A s, t \in 1..7 : s # t => Tables[s] \cap Tables[t] = {}  BY <1>1, ConstantsAssumption
<1>3. /\ Tables[1] = Organizations /\ Tables[2] = Users /\ Tables[3] = Invitations /\ Tables[4] = Sessions
      /\ Tables[5] = ApiKeys /\ Tables[6] = Agents /\ Tables[7] = Emails
  BY DEF Tables
<1>4. /\ 1 \in 1..7 /\ 2 \in 1..7 /\ 3 \in 1..7 /\ 4 \in 1..7 /\ 5 \in 1..7 /\ 6 \in 1..7 /\ 7 \in 1..7
  OBVIOUS
<1> HIDE DEF Tables
<1>5. \A t \in 1..7 : 1 # t => Organizations \cap Tables[t] = {}  BY <1>2, <1>3, <1>4
<1>6. \A t \in 1..7 : 2 # t => Users \cap Tables[t] = {}  BY <1>2, <1>3, <1>4
<1>7. \A t \in 1..7 : 3 # t => Invitations \cap Tables[t] = {}  BY <1>2, <1>3, <1>4
<1>8. \A t \in 1..7 : 4 # t => Sessions \cap Tables[t] = {}  BY <1>2, <1>3, <1>4
<1>9. \A t \in 1..7 : 5 # t => ApiKeys \cap Tables[t] = {}  BY <1>2, <1>3, <1>4
<1>10. Agents \cap Emails = {}  BY <1>2, <1>3, <1>4
<1> QED  BY <1>3, <1>4, <1>5, <1>6, <1>7, <1>8, <1>9, <1>10

LEMMA Stages ==
    /\ \A m \in 1..5 : StarterStages[m] \in Range(StarterStages)
    /\ \A m \in 1..5 : Stage(m + 1) = StarterStages[m]
    /\ Stage(1) = NONE /\ Stage(6) = "active"
<1>1. DOMAIN StarterStages = 1..5  BY DEF StarterStages
<1>2. \A m \in 1..5 : StarterStages[m] \in Range(StarterStages)  BY <1>1 DEF Range
<1>3. \A m \in 1..5 : m + 1 # 1 /\ m + 1 - 1 = m  OBVIOUS
<1>4. Stage(6) = StarterStages[5] /\ StarterStages[5] = "active"  BY DEF Stage, StarterStages
<1> QED  BY <1>2, <1>3, <1>4 DEF Stage

\* A row that is there has the columns of its table.
LEMMA Columns ==
    ASSUME NEW t, Typed(t)
    PROVE  /\ \A o \in Organizations : Here(o, t) <=> t[o] \in OrganizationRow
           /\ \A u \in Users : Here(u, t) <=> t[u] \in UserRow
           /\ \A i \in Invitations : Here(i, t) <=> t[i] \in InvitationRow
           /\ \A s \in Sessions : Here(s, t) <=> t[s] \in UserSession
           /\ \A k \in ApiKeys : Here(k, t) <=> t[k] \in ApiKey
           /\ \A a \in Agents : Here(a, t) <=> t[a] \in AgentRow
           /\ \A x \in Rows : ~Here(x, t) => t[x] = Absent
<1>1. \A o \in Organizations : Here(o, t) <=> t[o] \in OrganizationRow  BY DEF Typed, Here, Absent, OrganizationRow
<1>2. \A u \in Users : Here(u, t) <=> t[u] \in UserRow  BY DEF Typed, Here, Absent, UserRow
<1>3. \A i \in Invitations : Here(i, t) <=> t[i] \in InvitationRow  BY DEF Typed, Here, Absent, InvitationRow
<1>4. \A s \in Sessions : Here(s, t) <=> t[s] \in UserSession  BY DEF Typed, Here, Absent, UserSession
<1>5. \A k \in ApiKeys : Here(k, t) <=> t[k] \in ApiKey  BY DEF Typed, Here, Absent, ApiKey
<1>6. \A a \in Agents : Here(a, t) <=> t[a] \in AgentRow  BY DEF Typed, Here, Absent, AgentRow
<1>7. \A x \in Rows : ~Here(x, t) => t[x] = Absent
  BY <1>1, <1>2, <1>3, <1>4, <1>5, <1>6 DEF Rows, Typed
<1> QED  BY <1>1, <1>2, <1>3, <1>4, <1>5, <1>6, <1>7

-----------------------------------------------------------------------------
(* What a commit does to each table.                                       *)

After(t, writes) == [x \in Rows |-> IF x \in DOMAIN writes THEN Merge(t[x], writes[x]) ELSE t[x]]

LEMMA Inserted ==
    ASSUME NEW S, NEW columns, columns = [f \in S |-> columns[f]], "status" \in S
    PROVE  Merge(Absent, columns) = columns
<1>1. DOMAIN columns = S  OBVIOUS
<1>2. DOMAIN Absent \cup DOMAIN columns = S  BY <1>1 DEF Absent
<1>3. Merge(Absent, columns) = [f \in S |-> columns[f]]  BY <1>1, <1>2 DEF Merge
<1> QED  BY <1>3

LEMMA OrganizationMerged ==
    ASSUME NEW row \in OrganizationRow
    PROVE  /\ \A s : Merge(row, [status |-> s]) = [row EXCEPT !.status = s]
           /\ \A s : Merge(row, [settings |-> s]) = [row EXCEPT !.settings = s]
           /\ \A s : Merge(row, [starter |-> s]) = [row EXCEPT !.starter = s]
<1>1. \A s : Merge(row, [status |-> s]) = [row EXCEPT !.status = s]  BY DEF Merge, OrganizationRow
<1>2. \A s : Merge(row, [settings |-> s]) = [row EXCEPT !.settings = s]  BY DEF Merge, OrganizationRow
<1>3. \A s : Merge(row, [starter |-> s]) = [row EXCEPT !.starter = s]  BY DEF Merge, OrganizationRow
<1> QED  BY <1>1, <1>2, <1>3

LEMMA UserMerged ==
    ASSUME NEW row \in UserRow
    PROVE  /\ \A r \in Role : Merge(row, [role |-> r, edited |-> TRUE]) = [row EXCEPT !.role = r, !.edited = TRUE]
           /\ \A s : Merge(row, [status |-> s]) = [row EXCEPT !.status = s]
           /\ \A e \in Emails : Merge(row, [email |-> e, edited |-> TRUE]) = [row EXCEPT !.email = e, !.edited = TRUE]
<1>1. DOMAIN row = {"status", "organization_id", "email", "role", "edited", "via"}  BY DEF UserRow
<1>2. ASSUME NEW column \in {"role", "email"}, NEW value, NEW yes, NEW columns,
             DOMAIN columns = {column, "edited"}, columns[column] = value, columns["edited"] = yes
      PROVE  Merge(row, columns) = [[row EXCEPT ![column] = value] EXCEPT !["edited"] = yes]
  <2>1. DOMAIN row \cup DOMAIN columns = DOMAIN row  BY <1>1, <1>2
  <2>2. Merge(row, columns) = [f \in DOMAIN row |-> IF f \in {column, "edited"} THEN columns[f] ELSE row[f]]
    BY <1>2, <2>1 DEF Merge
  <2>3. [[row EXCEPT ![column] = value] EXCEPT !["edited"] = yes]
          = [f \in DOMAIN row |-> IF f = "edited" THEN yes ELSE IF f = column THEN value ELSE row[f]]
    OBVIOUS
  <2> QED  BY <1>2, <2>2, <2>3
<1>3. \A r, yes : Merge(row, [role |-> r, edited |-> yes]) = [row EXCEPT !.role = r, !.edited = yes]
  BY <1>2
<1>4. \A s : Merge(row, [status |-> s]) = [row EXCEPT !.status = s]  BY DEF Merge, UserRow
<1>5. \A e, yes : Merge(row, [email |-> e, edited |-> yes]) = [row EXCEPT !.email = e, !.edited = yes]
  BY <1>2
<1> QED  BY <1>3, <1>4, <1>5

LEMMA OtherMerged ==
    /\ \A row \in InvitationRow : \A s : Merge(row, [status |-> s]) = [row EXCEPT !.status = s]
    /\ \A row \in UserSession : \A s : Merge(row, [status |-> s]) = [row EXCEPT !.status = s]
    /\ \A row \in ApiKey : \A s : Merge(row, [status |-> s]) = [row EXCEPT !.status = s]
<1>1. \A row \in InvitationRow : \A s : Merge(row, [status |-> s]) = [row EXCEPT !.status = s]  BY DEF Merge, InvitationRow
<1>2. \A row \in UserSession : \A s : Merge(row, [status |-> s]) = [row EXCEPT !.status = s]  BY DEF Merge, UserSession
<1>3. \A row \in ApiKey : \A s : Merge(row, [status |-> s]) = [row EXCEPT !.status = s]  BY DEF Merge, ApiKey
<1> QED  BY <1>1, <1>2, <1>3

\* What becomes of each table when the request r commits: t2 is what t becomes.
OrganizationsAfter(r, t, t2, ov) ==
    \A o \in Organizations \cap DOMAIN r.writes :
        \/ /\ ~Here(o, t)
           /\ \E environment \in {"production", "sandbox"} : t2[o] = NewOrganization(environment)
        \/ /\ Here(o, t)
           /\ \E step \in Transitions :
                 t2[o] = [t[o] EXCEPT !.status = step[2]] /\ (o \notin ov => t[o].status = step[1])
        \/ /\ Here(o, t)
           /\ \E tabs \in SUBSET Tabs :
                 t2[o] = [t[o] EXCEPT !.settings = tabs] /\ (o \notin ov => t[o].settings \subseteq tabs)
        \/ /\ Here(o, t) /\ o \in Provides(r)
           /\ \E m \in 1..5 : t2[o] = [t[o] EXCEPT !.starter = StarterStages[m]]

\* u is new: the founder of a new organisation, created by an owner, or invited.
Joined(u, r, t, t2, ov) ==
    \/ \E o \in Organizations \cap DOMAIN r.writes, e \in Emails :
          /\ t2[u] = NewUser(o, e, "owner", "founder")
          /\ ~Here(o, t) /\ Here(o, t2)
          /\ t2[o].environment = "sandbox" => e \in r.reads /\ (e \notin ov => Founded(e, t, ov) = {})
    \/ \E o \in r.reads \cap Organizations, e \in Emails, role \in Role : t2[u] = NewUser(o, e, role, NONE)
    \/ \E i \in Invitations \cap DOMAIN r.writes :
          /\ Here(i, t) /\ t2[i].status = "accepted" /\ (i \notin ov => t[i].status = "pending")
          /\ t2[u] = NewUser(t[i].organization_id, t[i].email, t[i].role, i)

UsersAfter(r, t, t2, ov) ==
    /\ \A u, v \in Users \cap DOMAIN r.writes : u = v
    /\ \A u \in Users \cap DOMAIN r.writes :
          \/ ~Here(u, t) /\ Joined(u, r, t, t2, ov)
          \/ /\ Here(u, t)
             /\ \/ \E s \in {"active", "disabled"} : t2[u] = [t[u] EXCEPT !.status = s]
                \/ \E role \in Role : t2[u] = [t[u] EXCEPT !.role = role, !.edited = TRUE]
                \/ \E e \in Emails : t2[u] = [t[u] EXCEPT !.email = e, !.edited = TRUE]

InvitationsAfter(r, t, t2, ov) ==
    \A i \in Invitations \cap DOMAIN r.writes :
        \/ /\ ~Here(i, t)
           /\ \E o \in r.reads \cap Organizations, e \in Emails, role \in Role :
                 t2[i] = [status |-> "pending", organization_id |-> o, email |-> e,
                          role |-> role, left |-> InvitationValidity]
        \/ /\ Here(i, t) /\ (i \notin ov => t[i].status = "pending")
           /\ \E s \in {"accepted", "revoked", "expired"} : t2[i] = [t[i] EXCEPT !.status = s]

SessionsAfter(r, t, t2) ==
    \A s \in Sessions \cap DOMAIN r.writes :
        \/ /\ ~Here(s, t)
           /\ \E u \in Users : t2[s] = [status |-> "open", user_id |-> u, left |-> SessionTimeout, age |-> 0]
        \/ Here(s, t) /\ t2[s] = [t[s] EXCEPT !.status = "revoked"]

KeysAfter(r, t, t2) ==
    \A k \in ApiKeys \cap DOMAIN r.writes :
        \/ /\ ~Here(k, t)
           /\ \E o \in Organizations :
                 /\ Here(o, t) /\ t2[k] = [status |-> "live", organization_id |-> o]
                 /\ r.op # "sandbox_key" => o \in r.reads
        \/ Here(k, t) /\ t2[k] = [t[k] EXCEPT !.status = "revoked"]

AgentsAfter(r, t, t2, ov) ==
    /\ \A a, b \in Agents \cap DOMAIN r.writes : a = b
    /\ \A a \in Agents \cap DOMAIN r.writes :
          /\ ~Here(a, t)
          /\ \E o \in r.reads \cap Organizations :
                /\ t2[a] = [status |-> "registered", organization_id |-> o] /\ r.writes[a] = t2[a]
                /\ Sandbox(o, t) /\ o \notin ov => Cardinality(Of(Agents, o, t)) < MAX_AGENTS_PER_SANDBOX

Effect(r, t, t2, ov) ==
    /\ DOMAIN r.writes \subseteq Rows
    /\ \A x \in Rows \ DOMAIN r.writes : t2[x] = t[x]
    /\ OrganizationsAfter(r, t, t2, ov)
    /\ UsersAfter(r, t, t2, ov)
    /\ InvitationsAfter(r, t, t2, ov)
    /\ SessionsAfter(r, t, t2)
    /\ KeysAfter(r, t, t2)
    /\ AgentsAfter(r, t, t2, ov)

\* The other tables have nothing to do with it.
LEMMA OneTable ==
    ASSUME NEW r, NEW t, NEW t2, NEW ov
    PROVE  /\ DOMAIN r.writes \cap Organizations = {} => OrganizationsAfter(r, t, t2, ov)
           /\ DOMAIN r.writes \cap Users = {} => UsersAfter(r, t, t2, ov)
           /\ DOMAIN r.writes \cap Invitations = {} => InvitationsAfter(r, t, t2, ov)
           /\ DOMAIN r.writes \cap Sessions = {} => SessionsAfter(r, t, t2)
           /\ DOMAIN r.writes \cap ApiKeys = {} => KeysAfter(r, t, t2)
           /\ DOMAIN r.writes \cap Agents = {} => AgentsAfter(r, t, t2, ov)
<1>1. DOMAIN r.writes \cap Organizations = {} => OrganizationsAfter(r, t, t2, ov)  BY DEF OrganizationsAfter
<1>2. DOMAIN r.writes \cap Users = {} => UsersAfter(r, t, t2, ov)  BY DEF UsersAfter
<1>3. DOMAIN r.writes \cap Invitations = {} => InvitationsAfter(r, t, t2, ov)  BY DEF InvitationsAfter
<1>4. DOMAIN r.writes \cap Sessions = {} => SessionsAfter(r, t, t2)  BY DEF SessionsAfter
<1>5. DOMAIN r.writes \cap ApiKeys = {} => KeysAfter(r, t, t2)  BY DEF KeysAfter
<1>6. DOMAIN r.writes \cap Agents = {} => AgentsAfter(r, t, t2, ov)  BY DEF AgentsAfter
<1> QED  BY <1>1, <1>2, <1>3, <1>4, <1>5, <1>6

LEMMA NewRows ==
    /\ \A environment : Merge(Absent, NewOrganization(environment)) = NewOrganization(environment)
    /\ \A o, e, role, via : Merge(Absent, NewUser(o, e, role, via)) = NewUser(o, e, role, via)
<1>1. ASSUME NEW environment PROVE Merge(Absent, NewOrganization(environment)) = NewOrganization(environment)
  BY Inserted DEF NewOrganization
<1>2. ASSUME NEW o, NEW e, NEW role, NEW via
      PROVE  Merge(Absent, NewUser(o, e, role, via)) = NewUser(o, e, role, via)
  BY Inserted DEF NewUser
<1> QED  BY <1>1, <1>2

LEMMA FoundingEffect ==
    ASSUME NEW r, NEW t, NEW ov, Typed(t), Founding(r, t, ov)
    PROVE  Effect(r, t, After(t, r.writes), ov)
<1> DEFINE t2 == After(t, r.writes)
<1>1. PICK o \in Organizations, u \in Users, e \in Emails, environment \in {"production", "sandbox"} :
        /\ r.writes = [x \in {o, u} |-> IF x = o THEN NewOrganization(environment)
                                        ELSE NewUser(o, e, "owner", "founder")]
        /\ ~Here(o, t) /\ ~Here(u, t)
        /\ environment = "sandbox" => e \in r.reads /\ (e \notin ov => Founded(e, t, ov) = {})
  BY DEF Founding
<1>2. o \in Rows /\ u \in Rows /\ o # u  BY Disjoint DEF Rows
<1>3. /\ DOMAIN r.writes = {o, u} /\ r.writes[o] = NewOrganization(environment)
      /\ r.writes[u] = NewUser(o, e, "owner", "founder")
  BY <1>1, <1>2
<1>4. t[o] = Absent /\ t[u] = Absent  BY <1>1, <1>2, Columns
<1>5. t2[o] = NewOrganization(environment) /\ t2[u] = NewUser(o, e, "owner", "founder")
  BY <1>2, <1>3, <1>4, NewRows DEF After
<1>6. \A x \in Rows \ {o, u} : t2[x] = t[x]  BY <1>3 DEF After
<1> HIDE DEF t2
<1>7. OrganizationsAfter(r, t, t2, ov)
  <2>1. Organizations \cap DOMAIN r.writes = {o}  BY <1>3, Disjoint
  <2> QED  BY <2>1, <1>1, <1>5 DEF OrganizationsAfter
<1>8. UsersAfter(r, t, t2, ov)
  <2>1. Users \cap DOMAIN r.writes = {u}  BY <1>3, Disjoint
  <2>2. Here(o, t2)  BY <1>5 DEF Here, NewOrganization
  <2>3. t2[o].environment = environment  BY <1>5 DEF NewOrganization
  <2>4. Joined(u, r, t, t2, ov)  BY <1>1, <1>3, <1>5, <2>2, <2>3 DEF Joined
  <2> QED  BY <2>1, <2>4, <1>1 DEF UsersAfter
<1>9. DOMAIN r.writes \subseteq Rows  BY <1>2, <1>3
<1>10. \A x \in Rows \ DOMAIN r.writes : t2[x] = t[x]  BY <1>3, <1>6
<1>11. /\ DOMAIN r.writes \cap Invitations = {} /\ DOMAIN r.writes \cap Sessions = {}
       /\ DOMAIN r.writes \cap ApiKeys = {} /\ DOMAIN r.writes \cap Agents = {}
  BY <1>3, Disjoint
<1> QED  BY <1>7, <1>8, <1>9, <1>10, <1>11, OneTable DEF Effect, t2

LEMMA OrganizationEffect ==
    ASSUME NEW r, NEW t, NEW ov, Typed(t), r # Idle,
           ChangingStatus(r, t, ov) \/ SavingSettings(r, t, ov) \/ Provisioning(r, t)
    PROVE  Effect(r, t, After(t, r.writes), ov)
<1> DEFINE t2 == After(t, r.writes)
<1> DEFINE OrganizationColumns == [status : {"active", "deactivated", "archived"}] \cup [settings : SUBSET Tabs]
                                  \cup [starter : Range(StarterStages)]
<1>1. PICK o \in Organizations, columns \in OrganizationColumns :
        /\ r.writes = Row(o, columns) /\ Here(o, t)
        /\ \/ \E step \in Transitions :
                 columns = [status |-> step[2]] /\ (o \notin ov => t[o].status = step[1])
           \/ \E tabs \in SUBSET Tabs :
                 columns = [settings |-> tabs] /\ (o \notin ov => t[o].settings \subseteq tabs)
           \/ /\ o \in Provides(r)
              /\ \E m \in 1..5 : columns = [starter |-> StarterStages[m]]
  <2>1. CASE ChangingStatus(r, t, ov)  BY <2>1 DEF ChangingStatus, Transitions
  <2>2. CASE SavingSettings(r, t, ov)  BY <2>2 DEF SavingSettings
  <2>3. CASE Provisioning(r, t)
    <3>1. PICK o \in Organizations, k \in ApiKeys, m \in 1..5 :
            /\ r.writes = Row(o, [starter |-> StarterStages[m]]) /\ Here(o, t)
            /\ r.op = "starter" /\ Remaining(r.script, m + 1, o, k)
      BY <2>3 DEF Provisioning
    <3>2. o \in Provides(r)
      <4>1. /\ r.script \in Seq(Calls) /\ Len(r.script) = 6 - m /\ m + 1 + (6 - m) - 1 = 6
            /\ \A j \in 1..(6 - m) : r.script[j] = Provision(m + 1 + j - 1, o, k)
        BY <3>1 DEF Remaining
      <4>2. 6 - m \in 1..(6 - m) /\ 6 - m \in DOMAIN r.script  BY <4>1
      <4>3. r.script[6 - m] = [op |-> "sandbox_key", organization |-> o, key |-> k]
        BY <4>1, <4>2 DEF Provision
      <4>4. r.script[6 - m] \in Range(r.script)  BY <4>2 DEF Range
      <4> QED  BY <4>3, <4>4 DEF Provides, KeyCalls
    <3> QED  BY <3>1, <3>2, Stages
  <2> QED  BY <2>1, <2>2, <2>3
<1> HIDE DEF OrganizationColumns
<1>2. o \in Rows  BY DEF Rows
<1>3. /\ DOMAIN r.writes = {o} /\ t2[o] = Merge(t[o], columns)
      /\ \A x \in Rows \ {o} : t2[x] = t[x]
  <2>1. r.writes = Row(o, columns)  BY <1>1
  <2>2. DOMAIN r.writes = {o} /\ r.writes[o] = columns  BY <2>1 DEF Row
  <2> QED  BY <1>2, <2>2 DEF After
<1> HIDE DEF t2
<1>4. t[o] \in OrganizationRow  BY <1>1, Columns
<1>5. OrganizationsAfter(r, t, t2, ov)
  <2>1. Organizations \cap DOMAIN r.writes = {o}  BY <1>3
  <2>2. CASE \E step \in Transitions :
               columns = [status |-> step[2]] /\ (o \notin ov => t[o].status = step[1])
    <3>1. \E step \in Transitions :
             t2[o] = [t[o] EXCEPT !.status = step[2]] /\ (o \notin ov => t[o].status = step[1])
      BY <1>3, <1>4, <2>2, OrganizationMerged
    <3> QED  BY <1>1, <2>1, <3>1 DEF OrganizationsAfter
  <2>3. CASE \E tabs \in SUBSET Tabs :
               columns = [settings |-> tabs] /\ (o \notin ov => t[o].settings \subseteq tabs)
    <3>0. PICK tabs \in SUBSET Tabs :
             columns = [settings |-> tabs] /\ (o \notin ov => t[o].settings \subseteq tabs)
      BY <2>3
    <3>1. t2[o] = [t[o] EXCEPT !.settings = tabs]  BY <1>3, <1>4, <3>0, OrganizationMerged
    <3>2. \E tab \in SUBSET Tabs :
             t2[o] = [t[o] EXCEPT !.settings = tab] /\ (o \notin ov => t[o].settings \subseteq tab)
      BY <3>0, <3>1
    <3> QED  BY <1>1, <2>1, <3>2 DEF OrganizationsAfter
  <2>4. CASE /\ o \in Provides(r)
             /\ \E m \in 1..5 : columns = [starter |-> StarterStages[m]]
    <3>1. \E m \in 1..5 : t2[o] = [t[o] EXCEPT !.starter = StarterStages[m]]
      BY <1>3, <1>4, <2>4, OrganizationMerged
    <3> QED  BY <1>1, <2>1, <2>4, <3>1 DEF OrganizationsAfter
  <2> QED  BY <1>1, <2>2, <2>3, <2>4
<1>6. DOMAIN r.writes \subseteq Rows /\ \A x \in Rows \ DOMAIN r.writes : t2[x] = t[x]  BY <1>2, <1>3
<1>7. /\ DOMAIN r.writes \cap Users = {} /\ DOMAIN r.writes \cap Invitations = {}
      /\ DOMAIN r.writes \cap Sessions = {} /\ DOMAIN r.writes \cap ApiKeys = {}
      /\ DOMAIN r.writes \cap Agents = {}
  BY <1>3, Disjoint
<1> QED  BY <1>5, <1>6, <1>7, OneTable DEF Effect, t2

LEMMA InvitationEffect ==
    ASSUME NEW r, NEW t, NEW ov, Typed(t), Inviting(r, t) \/ ClosingInvitation(r, t, ov), Reads(r, t, ov)
    PROVE  Effect(r, t, After(t, r.writes), ov)
<1> DEFINE t2 == After(t, r.writes)
           Invitation(o, e, role) == [status |-> "pending", organization_id |-> o, email |-> e,
                                      role |-> role, left |-> InvitationValidity]
<1>1. PICK i \in Invitations :
        /\ DOMAIN r.writes = {i}
        /\ \/ /\ ~Here(i, t)
              /\ \E o \in r.reads \cap Organizations, e \in Emails, role \in Role :
                    r.writes[i] = Invitation(o, e, role)
           \/ /\ Here(i, t) /\ (i \notin ov => t[i].status = "pending")
              /\ \E s \in {"revoked", "expired"} : r.writes[i] = [status |-> s]
  <2>1. CASE Inviting(r, t)
    <3>1. PICK i \in Invitations, o \in Organizations, e \in Emails, role \in Role :
            r.writes = Row(i, Invitation(o, e, role)) /\ ~Here(i, t) /\ o \in r.reads
      BY <2>1 DEF Inviting
    <3>2. DOMAIN r.writes = {i} /\ r.writes[i] = Invitation(o, e, role)
      <4> HIDE DEF Invitation
      <4> QED  BY <3>1 DEF Row
    <3> QED  BY <3>1, <3>2
  <2>2. CASE ClosingInvitation(r, t, ov)
    <3>1. PICK i \in Invitations, s \in {"revoked", "expired"} :
            /\ r.writes = Row(i, [status |-> s]) /\ Here(i, t)
            /\ i \notin ov => t[i].status = "pending"
      BY <2>2 DEF ClosingInvitation
    <3>2. DOMAIN r.writes = {i} /\ r.writes[i] = [status |-> s]  BY <3>1 DEF Row
    <3> QED  BY <3>1, <3>2
  <2> QED  BY <2>1, <2>2
<1>2. i \in Rows  BY DEF Rows
<1>3. t2[i] = Merge(t[i], r.writes[i]) /\ \A x \in Rows \ {i} : t2[x] = t[x]
  <2>1. DOMAIN r.writes = {i}  BY <1>1
  <2> QED  BY <1>2, <2>1 DEF After
<1> HIDE DEF t2
<1>4. InvitationsAfter(r, t, t2, ov)
  <2>1. Invitations \cap DOMAIN r.writes = {i}  BY <1>1
  <2>2. ASSUME ~Here(i, t), NEW o \in r.reads \cap Organizations, NEW e \in Emails, NEW role \in Role,
               r.writes[i] = Invitation(o, e, role)
        PROVE  t2[i] = Invitation(o, e, role)
    <3>1. t[i] = Absent  BY <1>2, <2>2, Columns
    <3>2. Merge(Absent, Invitation(o, e, role)) = Invitation(o, e, role)  BY Inserted
    <3> QED  BY <1>3, <2>2, <3>1, <3>2
  <2>3. ASSUME Here(i, t), NEW s, r.writes[i] = [status |-> s]
        PROVE  t2[i] = [t[i] EXCEPT !.status = s]
    <3>1. t[i] \in InvitationRow  BY <2>3, Columns
    <3> QED  BY <1>3, <2>3, <3>1, OtherMerged
  <2>4. CASE ~Here(i, t)
    <3>1. PICK o \in r.reads \cap Organizations, e \in Emails, role \in Role : r.writes[i] = Invitation(o, e, role)
      BY <1>1, <2>4
    <3>2. t2[i] = Invitation(o, e, role)  BY <2>2, <2>4, <3>1
    <3> QED  BY <2>1, <2>4, <3>2 DEF InvitationsAfter
  <2>5. CASE Here(i, t)
    <3>1. PICK s \in {"revoked", "expired"} : r.writes[i] = [status |-> s]  BY <1>1, <2>5
    <3>2. t2[i] = [t[i] EXCEPT !.status = s]  BY <2>3, <2>5, <3>1
    <3>3. i \notin ov => t[i].status = "pending"  BY <1>1, <2>5
    <3> QED  BY <2>1, <2>5, <3>2, <3>3 DEF InvitationsAfter
  <2> QED  BY <2>4, <2>5
<1>5. DOMAIN r.writes \subseteq Rows /\ \A x \in Rows \ DOMAIN r.writes : t2[x] = t[x]  BY <1>1, <1>2, <1>3
<1>6. /\ DOMAIN r.writes \cap Organizations = {} /\ DOMAIN r.writes \cap Users = {}
      /\ DOMAIN r.writes \cap Sessions = {} /\ DOMAIN r.writes \cap ApiKeys = {}
      /\ DOMAIN r.writes \cap Agents = {}
  BY <1>1, Disjoint
<1> QED  BY <1>4, <1>5, <1>6, OneTable DEF Effect, t2

LEMMA AcceptingEffect ==
    ASSUME NEW r, NEW t, NEW ov, Typed(t), Accepting(r, t, ov)
    PROVE  Effect(r, t, After(t, r.writes), ov)
<1> DEFINE t2 == After(t, r.writes)
<1>1. PICK i \in Invitations, u \in Users :
        /\ ~Here(u, t) /\ Here(i, t)
        /\ r.writes = [x \in {u, i} |-> IF x = i THEN [status |-> "accepted"]
                          ELSE NewUser(t[i].organization_id, t[i].email, t[i].role, i)]
        /\ i \notin ov => t[i].status = "pending"
  BY DEF Accepting
<1> DEFINE user == NewUser(t[i].organization_id, t[i].email, t[i].role, i)
<1>2. i \in Rows /\ u \in Rows /\ i # u  BY Disjoint DEF Rows
<1>3. DOMAIN r.writes = {u, i} /\ r.writes[i] = [status |-> "accepted"] /\ r.writes[u] = user
  <2> HIDE DEF user
  <2>1. r.writes = [x \in {u, i} |-> IF x = i THEN [status |-> "accepted"] ELSE user]  BY <1>1 DEF user
  <2> QED  BY <1>2, <2>1
<1>4. t[u] = Absent /\ t[i] \in InvitationRow  BY <1>1, <1>2, Columns
<1>5. t2[u] = user /\ t2[i] = [t[i] EXCEPT !.status = "accepted"] /\ \A x \in Rows \ {u, i} : t2[x] = t[x]
  <2> HIDE DEF user
  <2>1. t2[u] = Merge(t[u], user) /\ t2[i] = Merge(t[i], [status |-> "accepted"])
    BY <1>2, <1>3 DEF After
  <2>2. \A x \in Rows \ {u, i} : t2[x] = t[x]  BY <1>3 DEF After
  <2>3. Merge(Absent, user) = user  BY NewRows DEF user
  <2> QED  BY <1>4, <2>1, <2>2, <2>3, OtherMerged
<1> HIDE DEF t2
<1>6. UsersAfter(r, t, t2, ov)
  <2>1. Users \cap DOMAIN r.writes = {u} /\ i \in DOMAIN r.writes  BY <1>3, Disjoint
  <2>2. t2[i].status = "accepted"  BY <1>4, <1>5 DEF InvitationRow
  <2>3. Joined(u, r, t, t2, ov)  BY <1>1, <1>5, <2>1, <2>2 DEF Joined
  <2> QED  BY <1>1, <2>1, <2>3 DEF UsersAfter
<1>7. InvitationsAfter(r, t, t2, ov)
  <2>1. Invitations \cap DOMAIN r.writes = {i}  BY <1>3, Disjoint
  <2> QED  BY <1>1, <1>5, <2>1 DEF InvitationsAfter
<1>8. DOMAIN r.writes \subseteq Rows /\ \A x \in Rows \ DOMAIN r.writes : t2[x] = t[x]  BY <1>2, <1>3, <1>5
<1>9. /\ DOMAIN r.writes \cap Organizations = {} /\ DOMAIN r.writes \cap Sessions = {}
      /\ DOMAIN r.writes \cap ApiKeys = {} /\ DOMAIN r.writes \cap Agents = {}
  BY <1>3, Disjoint
<1> QED  BY <1>6, <1>7, <1>8, <1>9, OneTable DEF Effect, t2

LEMMA UserEffect ==
    ASSUME NEW r, NEW t, NEW ov, Typed(t), AddingUser(r, t) \/ EditingUser(r, t), Reads(r, t, ov)
    PROVE  Effect(r, t, After(t, r.writes), ov)
<1> DEFINE t2 == After(t, r.writes)
<1>1. PICK u \in Users :
        /\ DOMAIN r.writes = {u}
        /\ \/ /\ ~Here(u, t)
              /\ \E o \in r.reads \cap Organizations, e \in Emails, role \in Role :
                    r.writes[u] = NewUser(o, e, role, NONE)
           \/ Here(u, t) /\ r.writes[u] \in UserColumns
  <2>1. CASE AddingUser(r, t)
    <3>1. PICK u \in Users, o \in Organizations, e \in Emails, role \in Role :
            r.writes = Row(u, NewUser(o, e, role, NONE)) /\ ~Here(u, t) /\ o \in r.reads
      BY <2>1 DEF AddingUser
    <3>2. DOMAIN r.writes = {u} /\ r.writes[u] = NewUser(o, e, role, NONE)  BY <3>1 DEF Row
    <3> QED  BY <3>1, <3>2
  <2>2. CASE EditingUser(r, t)
    <3>1. PICK u \in Users, columns \in UserColumns : r.writes = Row(u, columns) /\ Here(u, t)
      BY <2>2 DEF EditingUser
    <3>2. DOMAIN r.writes = {u} /\ r.writes[u] = columns  BY <3>1 DEF Row
    <3> QED  BY <3>1, <3>2
  <2> QED  BY <2>1, <2>2
<1>2. u \in Rows  BY DEF Rows
<1>3. t2[u] = Merge(t[u], r.writes[u]) /\ \A x \in Rows \ {u} : t2[x] = t[x]
  <2>1. DOMAIN r.writes = {u}  BY <1>1
  <2> QED  BY <1>2, <2>1 DEF After
<1> HIDE DEF t2
<1>4. UsersAfter(r, t, t2, ov)
  <2>1. Users \cap DOMAIN r.writes = {u}  BY <1>1
  <2>2. CASE ~Here(u, t)
    <3>1. PICK o \in r.reads \cap Organizations, e \in Emails, role \in Role :
            r.writes[u] = NewUser(o, e, role, NONE)
      BY <1>1, <2>2
    <3>2. t[u] = Absent  BY <1>2, <2>2, Columns
    <3>3. t2[u] = NewUser(o, e, role, NONE)  BY <1>3, <3>1, <3>2, NewRows
    <3>4. Joined(u, r, t, t2, ov)  BY <3>3 DEF Joined
    <3> QED  BY <2>1, <2>2, <3>4 DEF UsersAfter
  <2>3. CASE Here(u, t)
    <3>1. t[u] \in UserRow /\ r.writes[u] \in UserColumns  BY <1>1, <2>3, Columns
    <3>2. CASE r.writes[u] \in {[status |-> s] : s \in {"active", "disabled"}}
      <4>1. PICK s \in {"active", "disabled"} : r.writes[u] = [status |-> s]  BY <3>2
      <4>2. Merge(t[u], [status |-> s]) = [t[u] EXCEPT !.status = s]  BY <3>1, UserMerged
      <4>3. t2[u] = [t[u] EXCEPT !.status = s]  BY <1>3, <4>1, <4>2
      <4> QED  BY <2>1, <2>3, <4>3 DEF UsersAfter
    <3>3. CASE r.writes[u] \in {[role |-> role, edited |-> TRUE] : role \in Role}
      <4>1. PICK role \in Role : r.writes[u] = [role |-> role, edited |-> TRUE]  BY <3>3
      <4>2. Merge(t[u], [role |-> role, edited |-> TRUE]) = [t[u] EXCEPT !.role = role, !.edited = TRUE]  BY <3>1, UserMerged
      <4>3. t2[u] = [t[u] EXCEPT !.role = role, !.edited = TRUE]  BY <1>3, <4>1, <4>2
      <4> QED  BY <2>1, <2>3, <4>3 DEF UsersAfter
    <3>4. CASE r.writes[u] \in {[email |-> e, edited |-> TRUE] : e \in Emails}
      <4>1. PICK e \in Emails : r.writes[u] = [email |-> e, edited |-> TRUE]  BY <3>4
      <4>2. Merge(t[u], [email |-> e, edited |-> TRUE]) = [t[u] EXCEPT !.email = e, !.edited = TRUE]  BY <3>1, UserMerged
      <4>3. t2[u] = [t[u] EXCEPT !.email = e, !.edited = TRUE]  BY <1>3, <4>1, <4>2
      <4> QED  BY <2>1, <2>3, <4>3 DEF UsersAfter
    <3> QED  BY <3>1, <3>2, <3>3, <3>4 DEF UserColumns
  <2> QED  BY <2>2, <2>3
<1>5. DOMAIN r.writes \subseteq Rows /\ \A x \in Rows \ DOMAIN r.writes : t2[x] = t[x]  BY <1>1, <1>2, <1>3
<1>6. /\ DOMAIN r.writes \cap Organizations = {} /\ DOMAIN r.writes \cap Invitations = {}
      /\ DOMAIN r.writes \cap Sessions = {} /\ DOMAIN r.writes \cap ApiKeys = {}
      /\ DOMAIN r.writes \cap Agents = {}
  BY <1>1, Disjoint
<1> QED  BY <1>4, <1>5, <1>6, OneTable DEF Effect, t2

LEMMA SessionEffect ==
    ASSUME NEW r, NEW t, NEW ov, Typed(t), LoggingIn(r, t) \/ LoggingOut(r, t)
    PROVE  Effect(r, t, After(t, r.writes), ov)
<1> DEFINE t2 == After(t, r.writes)
           Session(u) == [status |-> "open", user_id |-> u, left |-> SessionTimeout, age |-> 0]
<1>1. PICK s \in Sessions :
        /\ DOMAIN r.writes = {s}
        /\ \/ ~Here(s, t) /\ \E u \in Users : r.writes[s] = Session(u)
           \/ Here(s, t) /\ r.writes[s] = [status |-> "revoked"]
  <2>1. CASE LoggingIn(r, t)
    <3>1. PICK s \in Sessions, u \in Users : r.writes = Row(s, Session(u)) /\ ~Here(s, t)
      BY <2>1 DEF LoggingIn
    <3>2. DOMAIN r.writes = {s} /\ r.writes[s] = Session(u)
      <4> HIDE DEF Session
      <4> QED  BY <3>1 DEF Row
    <3> QED  BY <3>1, <3>2
  <2>2. CASE LoggingOut(r, t)
    <3>1. PICK s \in Sessions : r.writes = Row(s, [status |-> "revoked"]) /\ Here(s, t)
      BY <2>2 DEF LoggingOut
    <3>2. DOMAIN r.writes = {s} /\ r.writes[s] = [status |-> "revoked"]  BY <3>1 DEF Row
    <3> QED  BY <3>1, <3>2
  <2> QED  BY <2>1, <2>2
<1>2. s \in Rows  BY DEF Rows
<1>3. t2[s] = Merge(t[s], r.writes[s]) /\ \A x \in Rows \ {s} : t2[x] = t[x]
  <2>1. DOMAIN r.writes = {s}  BY <1>1
  <2> QED  BY <1>2, <2>1 DEF After
<1> HIDE DEF t2
<1>4. SessionsAfter(r, t, t2)
  <2>1. Sessions \cap DOMAIN r.writes = {s}  BY <1>1
  <2>2. CASE ~Here(s, t)
    <3>1. PICK u \in Users : r.writes[s] = Session(u)  BY <1>1, <2>2
    <3>2. t[s] = Absent  BY <1>2, <2>2, Columns
    <3>3. Merge(Absent, Session(u)) = Session(u)  BY Inserted
    <3>4. t2[s] = Session(u)  BY <1>3, <3>1, <3>2, <3>3
    <3> QED  BY <2>1, <2>2, <3>4 DEF SessionsAfter
  <2>3. CASE Here(s, t)
    <3>1. t[s] \in UserSession  BY <2>3, Columns
    <3>2. r.writes[s] = [status |-> "revoked"]  BY <1>1, <2>3
    <3>3. t2[s] = [t[s] EXCEPT !.status = "revoked"]  BY <1>3, <3>1, <3>2, OtherMerged
    <3> QED  BY <2>1, <2>3, <3>3 DEF SessionsAfter
  <2> QED  BY <2>2, <2>3
<1>5. DOMAIN r.writes \subseteq Rows /\ \A x \in Rows \ DOMAIN r.writes : t2[x] = t[x]  BY <1>1, <1>2, <1>3
<1>6. /\ DOMAIN r.writes \cap Organizations = {} /\ DOMAIN r.writes \cap Users = {}
      /\ DOMAIN r.writes \cap Invitations = {} /\ DOMAIN r.writes \cap ApiKeys = {}
      /\ DOMAIN r.writes \cap Agents = {}
  BY <1>1, Disjoint
<1> QED  BY <1>4, <1>5, <1>6, OneTable DEF Effect, t2

LEMMA KeyEffect ==
    ASSUME NEW r, NEW t, NEW ov, Typed(t), IssuingKey(r, t) \/ RevokingKey(r, t)
    PROVE  Effect(r, t, After(t, r.writes), ov)
<1> DEFINE t2 == After(t, r.writes)
           Key(o) == [status |-> "live", organization_id |-> o]
<1>1. PICK k \in ApiKeys :
        /\ DOMAIN r.writes = {k}
        /\ \/ ~Here(k, t) /\ \E o \in Organizations :
                 Here(o, t) /\ r.writes[k] = Key(o) /\ (r.op # "sandbox_key" => o \in r.reads)
           \/ Here(k, t) /\ r.writes[k] = [status |-> "revoked"]
  <2>1. CASE IssuingKey(r, t)
    <3>1. PICK k \in ApiKeys, o \in Organizations :
            /\ r.writes = Row(k, Key(o)) /\ ~Here(k, t) /\ Here(o, t)
            /\ r.op # "sandbox_key" => o \in r.reads
      BY <2>1 DEF IssuingKey
    <3>2. DOMAIN r.writes = {k} /\ r.writes[k] = Key(o)
      <4> HIDE DEF Key
      <4> QED  BY <3>1 DEF Row
    <3> QED  BY <3>1, <3>2
  <2>2. CASE RevokingKey(r, t)
    <3>1. PICK k \in ApiKeys : r.writes = Row(k, [status |-> "revoked"]) /\ Here(k, t)
      BY <2>2 DEF RevokingKey
    <3>2. DOMAIN r.writes = {k} /\ r.writes[k] = [status |-> "revoked"]  BY <3>1 DEF Row
    <3> QED  BY <3>1, <3>2
  <2> QED  BY <2>1, <2>2
<1>2. k \in Rows  BY DEF Rows
<1>3. t2[k] = Merge(t[k], r.writes[k]) /\ \A x \in Rows \ {k} : t2[x] = t[x]
  <2>1. DOMAIN r.writes = {k}  BY <1>1
  <2> QED  BY <1>2, <2>1 DEF After
<1> HIDE DEF t2
<1>4. KeysAfter(r, t, t2)
  <2>1. ApiKeys \cap DOMAIN r.writes = {k}  BY <1>1
  <2>2. CASE ~Here(k, t)
    <3>1. PICK o \in Organizations :
            Here(o, t) /\ r.writes[k] = Key(o) /\ (r.op # "sandbox_key" => o \in r.reads)
      BY <1>1, <2>2
    <3>2. t[k] = Absent  BY <1>2, <2>2, Columns
    <3>3. Merge(Absent, Key(o)) = Key(o)  BY Inserted
    <3>4. t2[k] = Key(o)  BY <1>3, <3>1, <3>2, <3>3
    <3> QED  BY <2>1, <2>2, <3>1, <3>4 DEF KeysAfter
  <2>3. CASE Here(k, t)
    <3>1. t[k] \in ApiKey  BY <2>3, Columns
    <3>2. r.writes[k] = [status |-> "revoked"]  BY <1>1, <2>3
    <3>3. t2[k] = [t[k] EXCEPT !.status = "revoked"]  BY <1>3, <3>1, <3>2, OtherMerged
    <3> QED  BY <2>1, <2>3, <3>3 DEF KeysAfter
  <2> QED  BY <2>2, <2>3
<1>5. DOMAIN r.writes \subseteq Rows /\ \A x \in Rows \ DOMAIN r.writes : t2[x] = t[x]  BY <1>1, <1>2, <1>3
<1>6. /\ DOMAIN r.writes \cap Organizations = {} /\ DOMAIN r.writes \cap Users = {}
      /\ DOMAIN r.writes \cap Invitations = {} /\ DOMAIN r.writes \cap Sessions = {}
      /\ DOMAIN r.writes \cap Agents = {}
  BY <1>1, Disjoint
<1> QED  BY <1>4, <1>5, <1>6, OneTable DEF Effect, t2

LEMMA AgentEffect ==
    ASSUME NEW r, NEW t, NEW ov, Typed(t), AddingAgent(r, t, ov)
    PROVE  Effect(r, t, After(t, r.writes), ov)
<1> DEFINE t2 == After(t, r.writes)
           Agent(o) == [status |-> "registered", organization_id |-> o]
<1>1. PICK a \in Agents, o \in Organizations :
        /\ r.writes = Row(a, Agent(o)) /\ ~Here(a, t) /\ o \in r.reads
        /\ Sandbox(o, t) /\ o \notin ov => Cardinality(Of(Agents, o, t)) < MAX_AGENTS_PER_SANDBOX
  BY DEF AddingAgent
<1>2. DOMAIN r.writes = {a} /\ r.writes[a] = Agent(o)
  <2> HIDE DEF Agent
  <2> QED  BY <1>1 DEF Row
<1>3. a \in Rows  BY DEF Rows
<1>4. t[a] = Absent  BY <1>1, <1>3, Columns
<1>5. t2[a] = Agent(o) /\ \A x \in Rows \ {a} : t2[x] = t[x]
  <2>1. Merge(Absent, Agent(o)) = Agent(o)  BY Inserted
  <2> HIDE DEF Agent
  <2> QED  BY <1>2, <1>3, <1>4, <2>1 DEF After
<1> HIDE DEF t2
<1>6. AgentsAfter(r, t, t2, ov)
  <2>1. Agents \cap DOMAIN r.writes = {a}  BY <1>2
  <2> QED  BY <1>1, <1>2, <1>5, <2>1 DEF AgentsAfter
<1>7. DOMAIN r.writes \subseteq Rows /\ \A x \in Rows \ DOMAIN r.writes : t2[x] = t[x]  BY <1>2, <1>3, <1>5
<1>8. /\ DOMAIN r.writes \cap Organizations = {} /\ DOMAIN r.writes \cap Users = {}
      /\ DOMAIN r.writes \cap Invitations = {} /\ DOMAIN r.writes \cap Sessions = {}
      /\ DOMAIN r.writes \cap ApiKeys = {}
  BY <1>2, Disjoint
<1> QED  BY <1>6, <1>7, <1>8, OneTable DEF Effect, t2

LEMMA JobEffect ==
    ASSUME NEW r, NEW t, NEW ov, Typed(t), r # Idle, Job(r, t, ov)
    PROVE  Effect(r, t, After(t, r.writes), ov)
  BY FoundingEffect, OrganizationEffect, InvitationEffect, AcceptingEffect, UserEffect, SessionEffect,
     KeyEffect, AgentEffect DEF Job

-----------------------------------------------------------------------------
(* What a commit leaves alone.  The other requests see t become t2 while   *)
(* somebody else works on T and provisions S.                              *)

KeptOrganizations(t, t2, T, S, ov) ==
    \A o \in Organizations : Here(o, t) =>
        /\ Here(o, t2)
        /\ t2[o].environment = t[o].environment
        /\ o \notin T => t2[o].status = t[o].status
        /\ o \notin T => t2[o].settings = t[o].settings
        /\ o \notin S => t2[o].starter = t[o].starter
        /\ t[o].status = "archived" /\ o \notin ov => t2[o].status = "archived"
        /\ o \notin ov => t[o].settings \subseteq t2[o].settings

KeptUsers(t, t2) ==
    \A u \in Users : Here(u, t) =>
        /\ Here(u, t2)
        /\ t2[u].organization_id = t[u].organization_id
        /\ t2[u].via = t[u].via
        /\ ~t2[u].edited => ~t[u].edited /\ t2[u].email = t[u].email /\ t2[u].role = t[u].role

KeptInvitations(t, t2, T) ==
    \A i \in Invitations : Here(i, t) =>
        /\ Here(i, t2)
        /\ t2[i].organization_id = t[i].organization_id
        /\ t2[i].email = t[i].email
        /\ t2[i].role = t[i].role
        /\ i \notin T => t2[i].status = t[i].status

KeptOthers(t, t2) ==
    /\ \A s \in Sessions : Here(s, t) => Here(s, t2)
    /\ \A k \in ApiKeys : Here(k, t) => Here(k, t2) /\ t2[k].organization_id = t[k].organization_id
    /\ \A a \in Agents : Here(a, t) => t2[a] = t[a]

\* What is new
Added(t, t2, T) ==
    /\ \A x \in Rows \ T : Here(x, t2) => Here(x, t)
    /\ \A a \in Agents : Here(a, t2) /\ ~Here(a, t) => t2[a].organization_id \in T
    /\ \A u \in Users : /\ Here(u, t2) /\ ~Here(u, t) /\ t2[u].via = "founder"
                        /\ t2[t2[u].organization_id].environment = "sandbox"
                        => t2[u].email \in T

Kept(t, t2, T, S, ov) ==
    /\ KeptOrganizations(t, t2, T, S, ov)
    /\ KeptUsers(t, t2)
    /\ KeptInvitations(t, t2, T)
    /\ KeptOthers(t, t2)
    /\ Added(t, t2, T)

LEMMA EffectTyped ==
    ASSUME NEW r, NEW t, NEW t2, NEW ov, Typed(t), Effect(r, t, t2, ov)
    PROVE  Typed(t2)
<1>0. /\ OrganizationsAfter(r, t, t2, ov) /\ UsersAfter(r, t, t2, ov) /\ InvitationsAfter(r, t, t2, ov)
      /\ SessionsAfter(r, t, t2) /\ KeysAfter(r, t, t2) /\ AgentsAfter(r, t, t2, ov)
  BY DEF Effect
<1>1. \A x \in Rows : x \notin DOMAIN r.writes => t2[x] = t[x]  BY DEF Effect
<1>2. ASSUME NEW o \in Organizations PROVE t2[o] = Absent \/ t2[o] \in OrganizationRow
  <2>1. CASE o \notin DOMAIN r.writes  BY <1>1, <2>1 DEF Rows, Typed
  <2>2. CASE \E environment \in {"production", "sandbox"} : t2[o] = NewOrganization(environment)
    BY <2>2 DEF NewOrganization, OrganizationRow
  <2>3. CASE /\ t[o] \in OrganizationRow
             /\ \/ \E step \in Transitions : t2[o] = [t[o] EXCEPT !.status = step[2]]
                \/ \E tabs \in SUBSET Tabs : t2[o] = [t[o] EXCEPT !.settings = tabs]
                \/ \E m \in 1..5 : t2[o] = [t[o] EXCEPT !.starter = StarterStages[m]]
    <3>1. \A step \in Transitions : step[2] \in {"active", "deactivated", "archived"}  BY DEF Transitions
    <3>2. \A m \in 1..5 : StarterStages[m] \in Range(StarterStages)  BY Stages
    <3> QED  BY <2>3, <3>1, <3>2 DEF OrganizationRow
  <2> QED  BY <1>0, <2>1, <2>2, <2>3, Columns DEF OrganizationsAfter
<1>3. ASSUME NEW u \in Users PROVE t2[u] = Absent \/ t2[u] \in UserRow
  <2>1. CASE u \notin DOMAIN r.writes  BY <1>1, <2>1 DEF Rows, Typed
  <2>2. CASE u \in DOMAIN r.writes /\ ~Here(u, t)
    <3>1. ASSUME NEW o \in Organizations, NEW e \in Emails, NEW role \in Role,
                 NEW via \in Invitations \cup {"founder", NONE}
          PROVE  NewUser(o, e, role, via) \in UserRow
      BY DEF NewUser, UserRow
    <3>2. \A i \in Invitations : Here(i, t) =>
             t[i].organization_id \in Organizations /\ t[i].email \in Emails /\ t[i].role \in Role
      BY Columns DEF InvitationRow
    <3>3. Joined(u, r, t, t2, ov) /\ "owner" \in Role  BY <1>0, <2>2 DEF UsersAfter, Role
    <3> QED  BY <3>1, <3>2, <3>3 DEF Joined
  <2>3. CASE u \in DOMAIN r.writes /\ Here(u, t)
    <3>1. t[u] \in UserRow  BY <2>3, Columns
    <3>2. \/ \E s \in {"active", "disabled"} : t2[u] = [t[u] EXCEPT !.status = s]
          \/ \E role \in Role : t2[u] = [t[u] EXCEPT !.role = role, !.edited = TRUE]
          \/ \E e \in Emails : t2[u] = [t[u] EXCEPT !.email = e, !.edited = TRUE]
      BY <1>0, <2>3 DEF UsersAfter
    <3>3. CASE \E s \in {"active", "disabled"} : t2[u] = [t[u] EXCEPT !.status = s]  BY <3>1, <3>3 DEF UserRow
    <3>4. ASSUME NEW yes \in BOOLEAN, NEW role \in Role, NEW e \in Emails
          PROVE  /\ [t[u] EXCEPT !.role = role, !.edited = yes] \in UserRow
                 /\ [t[u] EXCEPT !.email = e, !.edited = yes] \in UserRow
      BY <3>1 DEF UserRow
    <3>5. ASSUME NEW role \in Role PROVE [t[u] EXCEPT !.role = role, !.edited = TRUE] \in UserRow
      <4>1. t[u].email \in Emails /\ TRUE \in BOOLEAN  BY <3>1 DEF UserRow
      <4> QED  BY <3>4, <4>1
    <3>6. ASSUME NEW e \in Emails PROVE [t[u] EXCEPT !.email = e, !.edited = TRUE] \in UserRow
      <4>1. t[u].role \in Role /\ TRUE \in BOOLEAN  BY <3>1 DEF UserRow
      <4> QED  BY <3>4, <4>1
    <3> QED  BY <3>2, <3>3, <3>5, <3>6
  <2> QED  BY <2>1, <2>2, <2>3
<1>4. ASSUME NEW i \in Invitations PROVE t2[i] = Absent \/ t2[i] \in InvitationRow
  <2>1. CASE i \notin DOMAIN r.writes  BY <1>1, <2>1 DEF Rows, Typed
  <2>2. CASE i \in DOMAIN r.writes /\ ~Here(i, t)
    <3>1. PICK o \in r.reads \cap Organizations, e \in Emails, role \in Role :
             t2[i] = [status |-> "pending", organization_id |-> o, email |-> e,
                      role |-> role, left |-> InvitationValidity]
      BY <1>0, <2>2 DEF InvitationsAfter
    <3> QED  BY <3>1, ConstantsAssumption DEF InvitationRow
  <2>3. CASE i \in DOMAIN r.writes /\ Here(i, t)
    <3>1. t[i] \in InvitationRow  BY <2>3, Columns
    <3>2. PICK s \in {"accepted", "revoked", "expired"} : t2[i] = [t[i] EXCEPT !.status = s]
      BY <1>0, <2>3 DEF InvitationsAfter
    <3> QED  BY <3>1, <3>2 DEF InvitationRow
  <2> QED  BY <2>1, <2>2, <2>3
<1>5. ASSUME NEW s \in Sessions PROVE t2[s] = Absent \/ t2[s] \in UserSession
  <2>1. CASE s \notin DOMAIN r.writes  BY <1>1, <2>1 DEF Rows, Typed
  <2>2. CASE s \in DOMAIN r.writes /\ ~Here(s, t)
    <3>1. PICK u \in Users : t2[s] = [status |-> "open", user_id |-> u, left |-> SessionTimeout, age |-> 0]
      BY <1>0, <2>2 DEF SessionsAfter
    <3> QED  BY <3>1, ConstantsAssumption DEF UserSession
  <2>3. CASE s \in DOMAIN r.writes /\ Here(s, t)
    <3>1. t[s] \in UserSession  BY <2>3, Columns
    <3>2. t2[s] = [t[s] EXCEPT !.status = "revoked"]  BY <1>0, <2>3 DEF SessionsAfter
    <3> QED  BY <3>1, <3>2 DEF UserSession
  <2> QED  BY <2>1, <2>2, <2>3
<1>6. ASSUME NEW k \in ApiKeys PROVE t2[k] = Absent \/ t2[k] \in ApiKey
  <2>1. CASE k \notin DOMAIN r.writes  BY <1>1, <2>1 DEF Rows, Typed
  <2>2. CASE k \in DOMAIN r.writes /\ ~Here(k, t)
    <3>1. PICK o \in Organizations : t2[k] = [status |-> "live", organization_id |-> o]
      BY <1>0, <2>2 DEF KeysAfter
    <3> QED  BY <3>1 DEF ApiKey
  <2>3. CASE k \in DOMAIN r.writes /\ Here(k, t)
    <3>1. t[k] \in ApiKey  BY <2>3, Columns
    <3>2. t2[k] = [t[k] EXCEPT !.status = "revoked"]  BY <1>0, <2>3 DEF KeysAfter
    <3> QED  BY <3>1, <3>2 DEF ApiKey
  <2> QED  BY <2>1, <2>2, <2>3
<1>7. ASSUME NEW a \in Agents PROVE t2[a] = Absent \/ t2[a] \in AgentRow
  <2>1. CASE a \notin DOMAIN r.writes  BY <1>1, <2>1 DEF Rows, Typed
  <2>2. CASE a \in DOMAIN r.writes
    <3>1. PICK o \in Organizations : t2[a] = [status |-> "registered", organization_id |-> o]
      BY <1>0, <2>2 DEF AgentsAfter
    <3> QED  BY <3>1 DEF AgentRow
  <2> QED  BY <2>1, <2>2
<1> QED  BY <1>2, <1>3, <1>4, <1>5, <1>6, <1>7 DEF Typed

LEMMA EffectKept ==
    ASSUME NEW r, NEW t, NEW t2, NEW ov, Typed(t), Effect(r, t, t2, ov)
    PROVE  Kept(t, t2, DOMAIN r.writes \cup r.reads, Provides(r), ov)
<1> DEFINE T == DOMAIN r.writes \cup r.reads
           S == Provides(r)
<1>0. /\ OrganizationsAfter(r, t, t2, ov) /\ UsersAfter(r, t, t2, ov) /\ InvitationsAfter(r, t, t2, ov)
      /\ SessionsAfter(r, t, t2) /\ KeysAfter(r, t, t2) /\ AgentsAfter(r, t, t2, ov)
  BY DEF Effect
<1>1. \A x \in Rows : x \notin DOMAIN r.writes => t2[x] = t[x]  BY DEF Effect
<1>2. ASSUME NEW o \in Organizations, Here(o, t)
      PROVE  /\ Here(o, t2)
             /\ t2[o].environment = t[o].environment
             /\ o \notin T => t2[o].status = t[o].status
             /\ o \notin T => t2[o].settings = t[o].settings
             /\ o \notin S => t2[o].starter = t[o].starter
             /\ t[o].status = "archived" /\ o \notin ov => t2[o].status = "archived"
             /\ o \notin ov => t[o].settings \subseteq t2[o].settings
  <2>1. t[o] \in OrganizationRow  BY <1>2, Columns
  <2>2. CASE o \notin DOMAIN r.writes
    <3>1. t2[o] = t[o]  BY <1>1, <2>2 DEF Rows
    <3> QED  BY <1>2, <3>1 DEF Here
  <2>3. CASE o \in DOMAIN r.writes
    <3>1. \/ \E step \in Transitions :
                 t2[o] = [t[o] EXCEPT !.status = step[2]] /\ (o \notin ov => t[o].status = step[1])
          \/ \E tabs \in SUBSET Tabs :
                 t2[o] = [t[o] EXCEPT !.settings = tabs] /\ (o \notin ov => t[o].settings \subseteq tabs)
          \/ o \in S /\ \E m \in 1..5 : t2[o] = [t[o] EXCEPT !.starter = StarterStages[m]]
      BY <1>0, <1>2, <2>3 DEF OrganizationsAfter
    <3>2. ASSUME NEW step \in Transitions, t2[o] = [t[o] EXCEPT !.status = step[2]], o \notin ov => t[o].status = step[1]
          PROVE  /\ Here(o, t2)
                 /\ t2[o].environment = t[o].environment /\ t2[o].settings = t[o].settings
                 /\ t2[o].starter = t[o].starter
                 /\ t[o].status = "archived" /\ o \notin ov => t2[o].status = "archived"
      BY <2>1, <3>2 DEF OrganizationRow, Here, Transitions
    <3>3. ASSUME NEW tabs \in SUBSET Tabs, t2[o] = [t[o] EXCEPT !.settings = tabs], o \notin ov => t[o].settings \subseteq tabs
          PROVE  /\ Here(o, t2)
                 /\ t2[o].environment = t[o].environment /\ t2[o].status = t[o].status
                 /\ t2[o].starter = t[o].starter
                 /\ o \notin ov => t[o].settings \subseteq t2[o].settings
      BY <1>2, <2>1, <3>3 DEF OrganizationRow, Here
    <3>4. ASSUME NEW m \in 1..5, t2[o] = [t[o] EXCEPT !.starter = StarterStages[m]]
          PROVE  /\ Here(o, t2)
                 /\ t2[o].environment = t[o].environment /\ t2[o].status = t[o].status
                 /\ t2[o].settings = t[o].settings
      BY <1>2, <2>1, <3>4 DEF OrganizationRow, Here
    <3> QED  BY <2>3, <3>1, <3>2, <3>3, <3>4
  <2> QED  BY <2>2, <2>3
<1>3. ASSUME NEW u \in Users, Here(u, t)
      PROVE  /\ Here(u, t2)
             /\ t2[u].organization_id = t[u].organization_id
             /\ t2[u].via = t[u].via
             /\ ~t2[u].edited => ~t[u].edited /\ t2[u].email = t[u].email /\ t2[u].role = t[u].role
  <2>1. t[u] \in UserRow  BY <1>3, Columns
  <2>2. CASE u \notin DOMAIN r.writes
    <3>1. t2[u] = t[u]  BY <1>1, <2>2 DEF Rows
    <3> QED  BY <1>3, <3>1 DEF Here
  <2>3. CASE u \in DOMAIN r.writes
    <3>1. \/ \E s \in {"active", "disabled"} : t2[u] = [t[u] EXCEPT !.status = s]
          \/ \E role \in Role : t2[u] = [t[u] EXCEPT !.role = role, !.edited = TRUE]
          \/ \E e \in Emails : t2[u] = [t[u] EXCEPT !.email = e, !.edited = TRUE]
      BY <1>0, <1>3, <2>3 DEF UsersAfter
    <3>2. ASSUME NEW s \in {"active", "disabled"}, t2[u] = [t[u] EXCEPT !.status = s]
          PROVE  /\ Here(u, t2)
                 /\ t2[u].organization_id = t[u].organization_id /\ t2[u].via = t[u].via
                 /\ t2[u].edited = t[u].edited /\ t2[u].email = t[u].email /\ t2[u].role = t[u].role
      BY <2>1, <3>2 DEF UserRow, Here
    <3>3. ASSUME NEW role, NEW yes, t2[u] = [t[u] EXCEPT !.role = role, !.edited = yes]
          PROVE  /\ Here(u, t2)
                 /\ t2[u].organization_id = t[u].organization_id /\ t2[u].via = t[u].via
                 /\ t2[u].edited = yes
      BY <1>3, <2>1, <3>3 DEF UserRow, Here
    <3>4. ASSUME NEW e, NEW yes, t2[u] = [t[u] EXCEPT !.email = e, !.edited = yes]
          PROVE  /\ Here(u, t2)
                 /\ t2[u].organization_id = t[u].organization_id /\ t2[u].via = t[u].via
                 /\ t2[u].edited = yes
      BY <1>3, <2>1, <3>4 DEF UserRow, Here
    <3>5. CASE \E s \in {"active", "disabled"} : t2[u] = [t[u] EXCEPT !.status = s]  BY <3>2, <3>5
    <3>6. CASE \E role \in Role : t2[u] = [t[u] EXCEPT !.role = role, !.edited = TRUE]
      <4>1. PICK role \in Role : t2[u] = [t[u] EXCEPT !.role = role, !.edited = TRUE]  BY <3>6
      <4>2. /\ Here(u, t2) /\ t2[u].organization_id = t[u].organization_id /\ t2[u].via = t[u].via
            /\ t2[u].edited = TRUE
        BY <3>3, <4>1
      <4> QED  BY <4>2
    <3>7. CASE \E e \in Emails : t2[u] = [t[u] EXCEPT !.email = e, !.edited = TRUE]
      <4>1. PICK e \in Emails : t2[u] = [t[u] EXCEPT !.email = e, !.edited = TRUE]  BY <3>7
      <4>2. /\ Here(u, t2) /\ t2[u].organization_id = t[u].organization_id /\ t2[u].via = t[u].via
            /\ t2[u].edited = TRUE
        BY <3>4, <4>1
      <4> QED  BY <4>2
    <3> QED  BY <3>1, <3>5, <3>6, <3>7
  <2> QED  BY <2>2, <2>3
<1>4. ASSUME NEW i \in Invitations, Here(i, t)
      PROVE  /\ Here(i, t2)
             /\ t2[i].organization_id = t[i].organization_id
             /\ t2[i].email = t[i].email
             /\ t2[i].role = t[i].role
             /\ i \notin T => t2[i].status = t[i].status
  <2>1. t[i] \in InvitationRow  BY <1>4, Columns
  <2>2. CASE i \notin DOMAIN r.writes
    <3>1. t2[i] = t[i]  BY <1>1, <2>2 DEF Rows
    <3> QED  BY <1>4, <3>1 DEF Here
  <2>3. CASE i \in DOMAIN r.writes
    <3>1. PICK s \in {"accepted", "revoked", "expired"} : t2[i] = [t[i] EXCEPT !.status = s]
      BY <1>0, <1>4, <2>3 DEF InvitationsAfter
    <3> QED  BY <2>1, <2>3, <3>1 DEF InvitationRow, Here
  <2> QED  BY <2>2, <2>3
<1>5. ASSUME NEW s \in Sessions, Here(s, t) PROVE Here(s, t2)
  <2>1. CASE s \notin DOMAIN r.writes  BY <1>1, <1>5, <2>1 DEF Rows, Here
  <2>2. CASE s \in DOMAIN r.writes
    <3>1. t[s] \in UserSession  BY <1>5, Columns
    <3>2. t2[s] = [t[s] EXCEPT !.status = "revoked"]  BY <1>0, <1>5, <2>2 DEF SessionsAfter
    <3> QED  BY <3>1, <3>2 DEF UserSession, Here
  <2> QED  BY <2>1, <2>2
<1>6. ASSUME NEW k \in ApiKeys, Here(k, t)
      PROVE  Here(k, t2) /\ t2[k].organization_id = t[k].organization_id
  <2>1. CASE k \notin DOMAIN r.writes  BY <1>1, <1>6, <2>1 DEF Rows, Here
  <2>2. CASE k \in DOMAIN r.writes
    <3>1. t[k] \in ApiKey  BY <1>6, Columns
    <3>2. t2[k] = [t[k] EXCEPT !.status = "revoked"]  BY <1>0, <1>6, <2>2 DEF KeysAfter
    <3> QED  BY <3>1, <3>2 DEF ApiKey, Here
  <2> QED  BY <2>1, <2>2
<1>7. ASSUME NEW a \in Agents, Here(a, t) PROVE t2[a] = t[a]
  BY <1>0, <1>1, <1>7 DEF Rows, AgentsAfter
<1>8. ASSUME NEW x \in Rows \ T, Here(x, t2) PROVE Here(x, t)
  BY <1>1, <1>8 DEF Here
<1>9. ASSUME NEW a \in Agents, Here(a, t2), ~Here(a, t) PROVE t2[a].organization_id \in T
  <2>1. a \in DOMAIN r.writes  BY <1>8, <1>9, <1>1 DEF Rows, Here
  <2>2. PICK o \in r.reads : t2[a] = [status |-> "registered", organization_id |-> o]
    BY <1>0, <2>1 DEF AgentsAfter
  <2> QED  BY <2>2
<1>10. ASSUME NEW u \in Users, Here(u, t2), ~Here(u, t), t2[u].via = "founder",
              t2[t2[u].organization_id].environment = "sandbox"
       PROVE  t2[u].email \in T
  <2>1. u \in DOMAIN r.writes  BY <1>10, <1>1 DEF Rows, Here
  <2>2. Joined(u, r, t, t2, ov)  BY <1>0, <1>10, <2>1 DEF UsersAfter
  <2>3. ASSUME NEW o, NEW e, t2[u] = NewUser(o, e, "owner", "founder"),
               t2[o].environment = "sandbox" => e \in r.reads
        PROVE  t2[u].email \in T
    <3>1. t2[u].organization_id = o /\ t2[u].email = e  BY <2>3 DEF NewUser
    <3> QED  BY <1>10, <2>3, <3>1
  <2>4. ASSUME NEW o, NEW e, NEW role, NEW via, via # "founder", t2[u] = NewUser(o, e, role, via)
        PROVE  FALSE
    BY <1>10, <2>4 DEF NewUser
  <2>5. NONE # "founder" /\ "founder" \notin Invitations  BY ConstantsAssumption
  <2> QED  BY <2>2, <2>3, <2>4, <2>5 DEF Joined
<1> QED
  <2>1. KeptOrganizations(t, t2, T, S, ov)  BY <1>2 DEF KeptOrganizations
  <2>2. KeptUsers(t, t2)  BY <1>3 DEF KeptUsers
  <2>3. KeptInvitations(t, t2, T)  BY <1>4 DEF KeptInvitations
  <2>4. KeptOthers(t, t2)  BY <1>5, <1>6, <1>7 DEF KeptOthers
  <2>5. Added(t, t2, T)  BY <1>8, <1>9, <1>10 DEF Added
  <2> QED  BY <2>1, <2>2, <2>3, <2>4, <2>5 DEF Kept

\* Time changes expiry dates and ages and nothing else.
LEMMA Tick ==
    ASSUME Typed(db), TimePasses
    PROVE  /\ \A i \in Invitations : Here(i, db) => db'[i] = [db[i] EXCEPT !.left = Sooner(db[i].left)]
           /\ \A s \in Sessions : Here(s, db) =>
                 db'[s] = [db[s] EXCEPT !.left = Sooner(db[s].left),
                                        !.age = IF db[s].age < SessionTimeout THEN db[s].age + 1 ELSE db[s].age]
           /\ \A o \in Organizations : Here(o, db) => db'[o] \in {db[o], [db[o] EXCEPT !.stale = TRUE]}
           /\ \A x \in Users \cup ApiKeys \cup Agents : db'[x] = db[x]
           /\ \A x \in Rows : ~Here(x, db) => db'[x] = db[x]
<1>1. \A x \in Rows : db'[x] =
          CASE x \in Invitations /\ Exists(x) -> [db[x] EXCEPT !.left = Sooner(db[x].left)]
            [] x \in Sessions /\ Exists(x) ->
                 [db[x] EXCEPT !.left = Sooner(db[x].left),
                               !.age = IF db[x].age < SessionTimeout THEN db[x].age + 1 ELSE db[x].age]
            [] x \in Organizations /\ is_sandbox_organization(x) -> [db[x] EXCEPT !.stale = TRUE]
            [] OTHER -> db[x]
  <2>1. ASSUME NEW x \in Rows, x \in Sessions, Exists(x)
        PROVE  [db[x] EXCEPT !.left = Sooner(db[x].left), !.age = IF db[x].age < SessionTimeout THEN db[x].age + 1 ELSE @]
               = [db[x] EXCEPT !.left = Sooner(db[x].left),
                               !.age = IF db[x].age < SessionTimeout THEN db[x].age + 1 ELSE db[x].age]
    OBVIOUS
  <2> QED  BY <2>1 DEF TimePasses
<1>2. \A x : Exists(x) <=> Here(x, db)  BY DEF Exists, Here
<1>3. \A x : is_sandbox_organization(x) => Here(x, db)  BY <1>2 DEF is_sandbox_organization
<1>4. ASSUME NEW i \in Invitations, Here(i, db)
      PROVE  db'[i] = [db[i] EXCEPT !.left = Sooner(db[i].left)]
  <2>1. i \in Rows /\ i \notin Sessions /\ i \notin Organizations  BY Disjoint DEF Rows
  <2> QED  BY <1>1, <1>2, <1>4, <2>1
<1>5. ASSUME NEW s \in Sessions, Here(s, db)
      PROVE  db'[s] = [db[s] EXCEPT !.left = Sooner(db[s].left),
                                    !.age = IF db[s].age < SessionTimeout THEN db[s].age + 1 ELSE db[s].age]
  <2>1. s \in Rows /\ s \notin Invitations /\ s \notin Organizations  BY Disjoint DEF Rows
  <2> QED  BY <1>1, <1>2, <1>5, <2>1
<1>6. ASSUME NEW o \in Organizations, Here(o, db) PROVE db'[o] \in {db[o], [db[o] EXCEPT !.stale = TRUE]}
  <2>1. o \in Rows /\ o \notin Invitations /\ o \notin Sessions  BY Disjoint DEF Rows
  <2>2. ASSUME is_sandbox_organization(o) PROVE db'[o] = [db[o] EXCEPT !.stale = TRUE]  BY <1>1, <2>1, <2>2
  <2>3. ASSUME ~is_sandbox_organization(o) PROVE db'[o] = db[o]  BY <1>1, <2>1, <2>3
  <2> QED  BY <2>2, <2>3
<1>7. ASSUME NEW x \in Users \cup ApiKeys \cup Agents PROVE db'[x] = db[x]
  <2>1. x \in Rows /\ x \notin Invitations /\ x \notin Sessions /\ x \notin Organizations  BY Disjoint DEF Rows
  <2> QED  BY <1>1, <2>1
<1>8. ASSUME NEW x \in Rows, ~Here(x, db) PROVE db'[x] = db[x]
  <2>1. ~Exists(x) /\ ~is_sandbox_organization(x)  BY <1>2, <1>3, <1>8
  <2> QED  BY <1>1, <2>1
<1> QED  BY <1>4, <1>5, <1>6, <1>7, <1>8

LEMMA TickRows ==
    ASSUME Typed(db), TimePasses
    PROVE  /\ \A o \in Organizations : Here(o, db) =>
                 /\ db'[o] \in OrganizationRow
                 /\ db'[o].status = db[o].status /\ db'[o].environment = db[o].environment
                 /\ db'[o].settings = db[o].settings /\ db'[o].starter = db[o].starter
           /\ \A i \in Invitations : Here(i, db) =>
                 /\ db'[i] \in InvitationRow
                 /\ db'[i].status = db[i].status /\ db'[i].organization_id = db[i].organization_id
                 /\ db'[i].email = db[i].email /\ db'[i].role = db[i].role
           /\ \A s \in Sessions : Here(s, db) =>
                 /\ db'[s] \in UserSession
                 /\ Clocked(db) => db'[s].left \in Nat /\ db'[s].left + db'[s].age = SessionTimeout
           /\ \A x \in Users \cup ApiKeys \cup Agents : db'[x] = db[x]
           /\ \A x \in Rows : ~Here(x, db) => db'[x] = db[x]
<1>1. ASSUME NEW o \in Organizations, Here(o, db)
      PROVE  /\ db'[o] \in OrganizationRow
             /\ db'[o].status = db[o].status /\ db'[o].environment = db[o].environment
             /\ db'[o].settings = db[o].settings /\ db'[o].starter = db[o].starter
  <2>1. db[o] \in OrganizationRow  BY <1>1, Columns
  <2>2. \A yes \in BOOLEAN : LET row == [db[o] EXCEPT !.stale = yes] IN
            /\ row \in OrganizationRow
            /\ row.status = db[o].status /\ row.environment = db[o].environment
            /\ row.settings = db[o].settings /\ row.starter = db[o].starter
    BY <2>1 DEF OrganizationRow
  <2>3. LET row == [db[o] EXCEPT !.stale = TRUE] IN
            /\ row \in OrganizationRow
            /\ row.status = db[o].status /\ row.environment = db[o].environment
            /\ row.settings = db[o].settings /\ row.starter = db[o].starter
    BY <2>2
  <2>4. db'[o] = db[o] \/ db'[o] = [db[o] EXCEPT !.stale = TRUE]  BY <1>1, Tick
  <2> QED  BY <2>1, <2>3, <2>4
<1>2. ASSUME NEW i \in Invitations, Here(i, db)
      PROVE  /\ db'[i] \in InvitationRow
             /\ db'[i].status = db[i].status /\ db'[i].organization_id = db[i].organization_id
             /\ db'[i].email = db[i].email /\ db'[i].role = db[i].role
  <2>1. db[i] \in InvitationRow  BY <1>2, Columns
  <2>2. db'[i] = [db[i] EXCEPT !.left = Sooner(db[i].left)]  BY <1>2, Tick
  <2>3. Sooner(db[i].left) \in 0..InvitationValidity
    BY <2>1, ConstantsAssumption DEF Sooner, InvitationRow
  <2> QED  BY <2>1, <2>2, <2>3 DEF InvitationRow
<1>3. ASSUME NEW s \in Sessions, Here(s, db)
      PROVE  /\ db'[s] \in UserSession
             /\ Clocked(db) => db'[s].left \in Nat /\ db'[s].left + db'[s].age = SessionTimeout
  <2> DEFINE age == IF db[s].age < SessionTimeout THEN db[s].age + 1 ELSE db[s].age
             left == Sooner(db[s].left)
  <2>1. db[s] \in UserSession  BY <1>3, Columns
  <2>2. db'[s] = [db[s] EXCEPT !.left = left, !.age = age]  BY <1>3, Tick
  <2>3. db[s].left \in Int /\ db[s].age \in 0..SessionTimeout  BY <2>1 DEF UserSession
  <2>4. left \in Int /\ age \in 0..SessionTimeout
    BY <2>3, ConstantsAssumption DEF Sooner
  <2>5. Clocked(db) => left \in Nat /\ left + age = SessionTimeout
    <3>1. Clocked(db) => db[s].left \in Nat /\ db[s].left + db[s].age = SessionTimeout
      BY <1>3 DEF Clocked
    <3> QED  BY <2>3, <3>1, ConstantsAssumption DEF Sooner
  <2> HIDE DEF age, left
  <2>6. db'[s] \in UserSession /\ db'[s].left = left /\ db'[s].age = age
    BY <2>1, <2>2, <2>4 DEF UserSession
  <2> QED  BY <2>5, <2>6
<1> QED  BY <1>1, <1>2, <1>3, Tick

LEMMA TickKept ==
    ASSUME Typed(db), TimePasses
    PROVE  /\ Typed(db')
           /\ Kept(db, db', {}, {}, overlapped)
           /\ Clocked(db) => Clocked(db')
           /\ \A x \in Rows : Here(x, db') <=> Here(x, db)
<1>1. \A x \in Rows : ~Here(x, db) => db[x] = Absent  BY Columns
<1>2. Typed(db')
  <2>1. \A o \in Organizations : db'[o] = Absent \/ db'[o] \in OrganizationRow  BY <1>1, TickRows DEF Rows
  <2>2. \A u \in Users : db'[u] = Absent \/ db'[u] \in UserRow  BY TickRows DEF Typed
  <2>3. \A i \in Invitations : db'[i] = Absent \/ db'[i] \in InvitationRow  BY <1>1, TickRows DEF Rows
  <2>4. \A s \in Sessions : db'[s] = Absent \/ db'[s] \in UserSession  BY <1>1, TickRows DEF Rows
  <2>5. \A k \in ApiKeys : db'[k] = Absent \/ db'[k] \in ApiKey  BY TickRows DEF Typed
  <2>6. \A a \in Agents : db'[a] = Absent \/ db'[a] \in AgentRow  BY TickRows DEF Typed
  <2> QED  BY <2>1, <2>2, <2>3, <2>4, <2>5, <2>6 DEF Typed
<1>3. \A x \in Rows : Here(x, db') <=> Here(x, db)
  <2>1. ASSUME NEW x \in Rows, ~Here(x, db) PROVE ~Here(x, db')
    BY <2>1, TickRows DEF Here
  <2>2. ASSUME NEW x \in Users \cup ApiKeys \cup Agents, Here(x, db) PROVE Here(x, db')
    BY <2>2, TickRows DEF Here
  <2>3. ASSUME NEW x \in Organizations \cup Invitations, Here(x, db) PROVE Here(x, db')
    BY <2>3, TickRows DEF Here
  <2>4. ASSUME NEW x \in Sessions, Here(x, db) PROVE Here(x, db')
    BY <2>4, TickRows DEF Here, UserSession
  <2> QED  BY <2>1, <2>2, <2>3, <2>4 DEF Rows
<1>4. KeptOrganizations(db, db', {}, {}, overlapped)
  BY <1>3, TickRows DEF KeptOrganizations, Rows
<1>5. KeptUsers(db, db')  BY <1>3, TickRows DEF KeptUsers, Rows
<1>6. KeptInvitations(db, db', {})  BY <1>3, TickRows DEF KeptInvitations, Rows
<1>7. KeptOthers(db, db')  BY <1>3, TickRows DEF KeptOthers, Rows
<1>8. Added(db, db', {})  BY <1>3 DEF Added, Rows
<1>9. Clocked(db) => Clocked(db')  BY <1>3, TickRows DEF Clocked, Rows
<1> QED  BY <1>2, <1>3, <1>4, <1>5, <1>6, <1>7, <1>8, <1>9 DEF Kept

-----------------------------------------------------------------------------
(* What a request relies on survives what the others do.                   *)

\* r has nothing in common with somebody who works on T and provisions S, but
\* for rows that are there and that both are known to overlap on.
Apart(r, t, T, S, ov) ==
    /\ Touched(r) \cap T \subseteq ov
    /\ \A x \in Reserved(r) \cap T \cap Rows : Here(x, t)
    /\ Provides(r) \cap S = {}

\* The sandboxes of e, as far as nothing disturbed them, become no more.
LEMMA FoundedKept ==
    ASSUME NEW t, NEW t2, NEW T, NEW S, NEW ov, Rooted(t), Typed(t), Typed(t2), Kept(t, t2, T, S, ov), NEW e, e \notin T
    PROVE  Founded(e, t2, ov) \subseteq Founded(e, t, ov)
<1> SUFFICES ASSUME NEW o \in Founded(e, t2, ov) PROVE o \in Founded(e, t, ov)  OBVIOUS
<1>1. o \in Organizations \ ov /\ Sandbox(o, t2) /\ t2[o].status # "archived"  BY DEF Founded
<1>2. PICK u \in Users : /\ Here(u, t2) /\ t2[u].organization_id = o /\ t2[u].via = "founder"
                         /\ t2[u].email = e /\ t2[u].role = "owner" /\ ~t2[u].edited
  BY DEF Founded, Of
<1>3. t2[o].environment = "sandbox"  BY <1>1 DEF Sandbox
<1>4. Here(u, t)  BY <1>2, <1>3 DEF Kept, Added
<1>5. /\ t[u].organization_id = o /\ t[u].via = "founder" /\ t[u].email = e /\ t[u].role = "owner" /\ ~t[u].edited
  BY <1>2, <1>4 DEF Kept, KeptUsers
<1>6. Here(o, t)  BY <1>4, <1>5 DEF Rooted
<1>7. t[o].environment = "sandbox" /\ t[o].status # "archived"
  BY <1>1, <1>3, <1>6 DEF Kept, KeptOrganizations
<1> QED  BY <1>1, <1>4, <1>5, <1>6, <1>7 DEF Founded, Of, Sandbox

\* No agent joins an organisation nobody reads.
LEMMA AgentsKept ==
    ASSUME NEW t, NEW t2, NEW T, NEW S, NEW ov, Kept(t, t2, T, S, ov), NEW o, o \notin T
    PROVE  Of(Agents, o, t2) = Of(Agents, o, t)
<1>1. ASSUME NEW a \in Agents, Here(a, t) PROVE t2[a] = t[a]  BY <1>1 DEF Kept, KeptOthers
<1>2. ASSUME NEW a \in Agents, ~Here(a, t), Here(a, t2) PROVE t2[a].organization_id # o
  BY <1>2 DEF Kept, Added
<1> QED  BY <1>1, <1>2 DEF Of, Here

LEMMA ScriptKeys ==
    ASSUME NEW s, NEW m \in 1..6, NEW o, NEW k, Remaining(s, m, o, k)
    PROVE  [op |-> "sandbox_key", organization |-> o, key |-> k] \in {c \in Range(s) : c.op = "sandbox_key"}
<1> DEFINE c == [op |-> "sandbox_key", organization |-> o, key |-> k]
<1>1. /\ s \in Seq(Calls) /\ Len(s) = 7 - m
      /\ \A j \in 1..(7 - m) : s[j] = Provision(m + j - 1, o, k)
  BY DEF Remaining
<1>2. 7 - m \in 1..(7 - m) /\ 7 - m \in DOMAIN s /\ m + (7 - m) - 1 = 6  BY <1>1
<1>3. s[7 - m] = c  BY <1>1, <1>2 DEF Provision
<1>4. s[7 - m] \in Range(s)  BY <1>2 DEF Range
<1>5. c.op = "sandbox_key"  OBVIOUS
<1> HIDE DEF c
<1>6. c \in Range(s)  BY <1>3, <1>4
<1> QED  BY <1>5, <1>6 DEF c

LEMMA ScriptReserved ==
    ASSUME NEW r, r # Idle, NEW m \in 1..6, NEW o, NEW k, Remaining(r.script, m, o, k)
    PROVE  k \in Reserved(r) /\ o \in Provides(r)
<1> DEFINE c == [op |-> "sandbox_key", organization |-> o, key |-> k]
<1>1. c \in {x \in Range(r.script) : x.op = "sandbox_key"}  BY ScriptKeys
<1>2. c.key = k /\ c.organization = o  OBVIOUS
<1> HIDE DEF c
<1>3. k \in {x.key : x \in {x \in Range(r.script) : x.op = "sandbox_key"}}  BY <1>1, <1>2
<1>4. o \in {x.organization : x \in {x \in Range(r.script) : x.op = "sandbox_key"}}  BY <1>1, <1>2
<1> QED  BY <1>3, <1>4 DEF Reserved, Provides, KeyCalls

LEMMA KeptHere ==
    ASSUME NEW t, NEW t2, NEW T, NEW S, NEW ov, Kept(t, t2, T, S, ov)
    PROVE  /\ \A x \in Rows : Here(x, t) => Here(x, t2)
           /\ \A x \in Rows : ~Here(x, t) /\ x \notin T => ~Here(x, t2)
<1>1. \A x \in Agents : Here(x, t) => Here(x, t2)  BY DEF Kept, KeptOthers, Here
<1>2. \A x \in Sessions \cup ApiKeys : Here(x, t) => Here(x, t2)  BY DEF Kept, KeptOthers
<1>3. \A x \in Organizations : Here(x, t) => Here(x, t2)  BY DEF Kept, KeptOrganizations
<1>4. \A x \in Users : Here(x, t) => Here(x, t2)  BY DEF Kept, KeptUsers
<1>5. \A x \in Invitations : Here(x, t) => Here(x, t2)  BY DEF Kept, KeptInvitations
<1>6. \A x \in Rows : ~Here(x, t) /\ x \notin T => ~Here(x, t2)  BY DEF Kept, Added
<1> QED  BY <1>1, <1>2, <1>3, <1>4, <1>5, <1>6 DEF Rows

LEMMA JobKept ==
    ASSUME NEW r, NEW t, NEW t2, NEW T, NEW S, NEW ov, Typed(t), Typed(t2), Rooted(t),
           Kept(t, t2, T, S, ov), Apart(r, t, T, S, ov), r # Idle, r.stage = "loaded", Job(r, t, ov)
    PROVE  Job(r, t2, ov)
<1>1. \A x \in Rows : Here(x, t) => Here(x, t2)  BY KeptHere
<1>2. DOMAIN r.writes \cup r.reads \subseteq Reserved(r)  BY DEF Reserved, Touched
<1>3. \A x \in Rows : x \in Reserved(r) /\ ~Here(x, t) => ~Here(x, t2)
  BY KeptHere DEF Apart
<1>4. \A x \in DOMAIN r.writes \cup r.reads : x \notin ov => x \notin T  BY DEF Apart, Touched
<1>5. Organizations \subseteq Rows /\ Users \subseteq Rows /\ Invitations \subseteq Rows
      /\ Sessions \subseteq Rows /\ ApiKeys \subseteq Rows /\ Agents \subseteq Rows
  BY DEF Rows
<1>6. \A o \in Organizations : Here(o, t) =>
        /\ o \notin T => t2[o].status = t[o].status /\ t2[o].settings = t[o].settings
        /\ o \notin S => t2[o].starter = t[o].starter
        /\ t2[o].environment = t[o].environment
  BY DEF Kept, KeptOrganizations
<1>7. \A i \in Invitations : Here(i, t) =>
        /\ t2[i].organization_id = t[i].organization_id /\ t2[i].email = t[i].email
        /\ t2[i].role = t[i].role /\ (i \notin T => t2[i].status = t[i].status)
  BY DEF Kept, KeptInvitations
<1>8. Reads(r, t2, ov)  BY <1>1, <1>4, <1>5, <1>6 DEF Job, Reads
<1>9. ASSUME Founding(r, t, ov) PROVE Founding(r, t2, ov)
  <2>1. PICK o \in Organizations, u \in Users, e \in Emails, environment \in {"production", "sandbox"} :
        /\ r.writes = [x \in {o, u} |-> IF x = o THEN NewOrganization(environment)
                                        ELSE NewUser(o, e, "owner", "founder")]
        /\ ~Here(o, t) /\ ~Here(u, t)
        /\ environment = "production" => Simple(r)
        /\ environment = "sandbox" =>
              /\ r.op = "sandbox" /\ e \in r.reads
              /\ \E k \in ApiKeys : Remaining(r.script, 1, o, k) /\ ~Here(k, t)
              /\ e \notin ov => Founded(e, t, ov) = {}
    BY <1>9 DEF Founding
  <2>2. DOMAIN r.writes = {o, u}  BY <2>1
  <2>3. ~Here(o, t2) /\ ~Here(u, t2)  BY <1>2, <1>3, <1>5, <2>1, <2>2
  <2>4. ASSUME NEW k \in ApiKeys, Remaining(r.script, 1, o, k), ~Here(k, t) PROVE ~Here(k, t2)
    <3>1. k \in Reserved(r)  BY <2>4, ScriptReserved
    <3> QED  BY <1>3, <1>5, <2>4, <3>1
  <2>5. ASSUME environment = "sandbox", e \notin ov PROVE Founded(e, t2, ov) = {}
    <3>1. e \notin T  BY <1>4, <2>1, <2>5
    <3> QED  BY <2>1, <2>5, <3>1, FoundedKept
  <2> QED  BY <2>1, <2>3, <2>4, <2>5 DEF Founding
<1>10. ASSUME ChangingStatus(r, t, ov) PROVE ChangingStatus(r, t2, ov)
  <2>1. PICK o \in Organizations, step \in Transitions :
        /\ r.writes = Row(o, [status |-> step[2]]) /\ Here(o, t)
        /\ r.op # "sandbox_key" /\ r.script \in {<< >>, ArchiveScript(o)}
        /\ o \notin ov => t[o].status = step[1]
    BY <1>10 DEF ChangingStatus
  <2>2. o \in DOMAIN r.writes  BY <2>1 DEF Row
  <2>3. Here(o, t2) /\ (o \notin ov => t2[o].status = step[1])  BY <1>1, <1>4, <1>5, <1>6, <2>1, <2>2
  <2> QED  BY <2>1, <2>3 DEF ChangingStatus
<1>11. ASSUME SavingSettings(r, t, ov) PROVE SavingSettings(r, t2, ov)
  <2>1. PICK o \in Organizations, tabs \in SUBSET Tabs :
        /\ r.writes = Row(o, [settings |-> tabs]) /\ Here(o, t) /\ Simple(r)
        /\ o \notin ov => t[o].settings \subseteq tabs
    BY <1>11 DEF SavingSettings
  <2>2. o \in DOMAIN r.writes  BY <2>1 DEF Row
  <2>3. Here(o, t2) /\ (o \notin ov => t2[o].settings \subseteq tabs)  BY <1>1, <1>4, <1>5, <1>6, <2>1, <2>2
  <2> QED  BY <2>1, <2>3 DEF SavingSettings
<1>12. ASSUME Provisioning(r, t) PROVE Provisioning(r, t2)
  <2>1. PICK o \in Organizations, k \in ApiKeys, m \in 1..5 :
        /\ r.writes = Row(o, [starter |-> StarterStages[m]]) /\ Here(o, t)
        /\ r.op = "starter" /\ t[o].starter = Stage(m)
        /\ Remaining(r.script, m + 1, o, k) /\ ~Here(k, t)
    BY <1>12 DEF Provisioning
  <2>2. k \in Reserved(r) /\ o \in Provides(r)
    <3>1. m + 1 \in 1..6  OBVIOUS
    <3> QED  BY <2>1, <3>1, ScriptReserved
  <2>3. o \notin S  BY <2>2 DEF Apart
  <2>4. Here(o, t2) /\ t2[o].starter = Stage(m) /\ ~Here(k, t2)  BY <1>1, <1>3, <1>5, <1>6, <2>1, <2>2, <2>3
  <2> QED  BY <2>1, <2>4 DEF Provisioning
<1>13. ASSUME Inviting(r, t) PROVE Inviting(r, t2)
  <2>1. PICK i \in Invitations, o \in Organizations, e \in Emails, role \in Role :
        /\ r.writes = Row(i, [status |-> "pending", organization_id |-> o, email |-> e,
                              role |-> role, left |-> InvitationValidity])
        /\ ~Here(i, t) /\ o \in r.reads /\ Simple(r)
    BY <1>13 DEF Inviting
  <2>2. i \in DOMAIN r.writes  BY <2>1 DEF Row
  <2>3. ~Here(i, t2)  BY <1>2, <1>3, <1>5, <2>1, <2>2
  <2> QED  BY <2>1, <2>3 DEF Inviting
<1>14. ASSUME ClosingInvitation(r, t, ov) PROVE ClosingInvitation(r, t2, ov)
  <2>1. PICK i \in Invitations, status \in {"revoked", "expired"} :
        /\ r.writes = Row(i, [status |-> status]) /\ Here(i, t) /\ Simple(r)
        /\ i \notin ov => t[i].status = "pending"
    BY <1>14 DEF ClosingInvitation
  <2>2. i \in DOMAIN r.writes  BY <2>1 DEF Row
  <2>3. Here(i, t2) /\ (i \notin ov => t2[i].status = "pending")  BY <1>1, <1>4, <1>5, <1>7, <2>1, <2>2
  <2> QED  BY <2>1, <2>3 DEF ClosingInvitation
<1>15. ASSUME Accepting(r, t, ov) PROVE Accepting(r, t2, ov)
  <2>1. PICK i \in Invitations, u \in Users :
        /\ ~Here(u, t) /\ Here(i, t) /\ Simple(r)
        /\ r.writes = [x \in {u, i} |-> IF x = i THEN [status |-> "accepted"]
                          ELSE NewUser(t[i].organization_id, t[i].email, t[i].role, i)]
        /\ i \notin ov => t[i].status = "pending"
    BY <1>15 DEF Accepting
  <2>2. DOMAIN r.writes = {u, i}  BY <2>1
  <2>3. Here(i, t2) /\ ~Here(u, t2) /\ (i \notin ov => t2[i].status = "pending")
    BY <1>1, <1>2, <1>3, <1>4, <1>5, <1>7, <2>1, <2>2
  <2>4. NewUser(t[i].organization_id, t[i].email, t[i].role, i)
          = NewUser(t2[i].organization_id, t2[i].email, t2[i].role, i)
    BY <1>7, <2>1
  <2> QED  BY <2>1, <2>3, <2>4 DEF Accepting
<1>16. ASSUME AddingUser(r, t) PROVE AddingUser(r, t2)
  <2>1. PICK u \in Users, o \in Organizations, e \in Emails, role \in Role :
        /\ r.writes = Row(u, NewUser(o, e, role, NONE))
        /\ ~Here(u, t) /\ o \in r.reads /\ Simple(r)
    BY <1>16 DEF AddingUser
  <2>2. u \in DOMAIN r.writes  BY <2>1 DEF Row
  <2>3. ~Here(u, t2)  BY <1>2, <1>3, <1>5, <2>1, <2>2
  <2> QED  BY <2>1, <2>3 DEF AddingUser
<1>17. ASSUME EditingUser(r, t) PROVE EditingUser(r, t2)
  BY <1>1, <1>5, <1>17 DEF EditingUser
<1>18. ASSUME LoggingIn(r, t) PROVE LoggingIn(r, t2)
  <2>1. PICK s \in Sessions, u \in Users :
        /\ r.writes = Row(s, [status |-> "open", user_id |-> u, left |-> SessionTimeout, age |-> 0])
        /\ ~Here(s, t) /\ Simple(r)
    BY <1>18 DEF LoggingIn
  <2>2. s \in DOMAIN r.writes  BY <2>1 DEF Row
  <2>3. ~Here(s, t2)  BY <1>2, <1>3, <1>5, <2>1, <2>2
  <2> QED  BY <2>1, <2>3 DEF LoggingIn
<1>19. ASSUME LoggingOut(r, t) PROVE LoggingOut(r, t2)
  BY <1>1, <1>5, <1>19 DEF LoggingOut
<1>20. ASSUME IssuingKey(r, t) PROVE IssuingKey(r, t2)
  <2>1. PICK k \in ApiKeys, o \in Organizations :
        /\ r.writes = Row(k, [status |-> "live", organization_id |-> o])
        /\ ~Here(k, t) /\ Here(o, t) /\ r.script = << >>
        /\ r.op = "sandbox_key" => t[o].starter = "active"
        /\ r.op # "sandbox_key" => o \in r.reads
    BY <1>20 DEF IssuingKey
  <2>2. k \in DOMAIN r.writes /\ r.writes[k].organization_id = o  BY <2>1 DEF Row
  <2>3. ~Here(k, t2) /\ Here(o, t2)  BY <1>1, <1>2, <1>3, <1>5, <2>1, <2>2
  <2>4. ASSUME r.op = "sandbox_key" PROVE t2[o].starter = "active"
    <3>1. o \in Provides(r)  BY <2>2, <2>4 DEF Provides
    <3>2. o \notin S  BY <3>1 DEF Apart
    <3> QED  BY <1>6, <2>1, <2>4, <3>2
  <2> QED  BY <2>1, <2>3, <2>4 DEF IssuingKey
<1>21. ASSUME RevokingKey(r, t) PROVE RevokingKey(r, t2)
  BY <1>1, <1>5, <1>21 DEF RevokingKey
<1>22. ASSUME AddingAgent(r, t, ov) PROVE AddingAgent(r, t2, ov)
  <2>1. PICK a \in Agents, o \in Organizations :
        /\ r.writes = Row(a, [status |-> "registered", organization_id |-> o])
        /\ ~Here(a, t) /\ o \in r.reads /\ Simple(r)
        /\ Sandbox(o, t) /\ o \notin ov => Cardinality(Of(Agents, o, t)) < MAX_AGENTS_PER_SANDBOX
    BY <1>22 DEF AddingAgent
  <2>2. a \in DOMAIN r.writes  BY <2>1 DEF Row
  <2>3. ~Here(a, t2)  BY <1>2, <1>3, <1>5, <2>1, <2>2
  <2>4. ASSUME Sandbox(o, t2), o \notin ov PROVE Cardinality(Of(Agents, o, t2)) < MAX_AGENTS_PER_SANDBOX
    <3>1. o \notin T  BY <1>4, <2>1, <2>4
    <3>2. Here(o, t)  BY <2>1 DEF Job, Reads
    <3>3. Sandbox(o, t)  BY <1>6, <2>4, <3>2 DEF Sandbox
    <3>4. Of(Agents, o, t2) = Of(Agents, o, t)  BY <3>1, AgentsKept
    <3> QED  BY <2>1, <2>4, <3>3, <3>4
  <2> QED  BY <2>1, <2>3, <2>4 DEF AddingAgent
<1> QED
  BY <1>8, <1>9, <1>10, <1>11, <1>12, <1>13, <1>14, <1>15, <1>16, <1>17, <1>18, <1>19, <1>20, <1>21, <1>22 DEF Job

LEMMA FineKept ==
    ASSUME NEW r, NEW t, NEW t2, NEW T, NEW S, NEW ov, Typed(t), Typed(t2), Rooted(t),
           Kept(t, t2, T, S, ov), Apart(r, t, T, S, ov), Fine(r, t, ov)
    PROVE  Fine(r, t2, ov)
<1>1. CASE r = Idle  BY <1>1 DEF Fine
<1>2. CASE r # Idle /\ r.stage = "loaded" /\ Job(r, t, ov) /\ DOMAIN r = {"stage", "op", "writes", "reads", "script"}
  BY <1>2, JobKept DEF Fine
<1>3. CASE r # Idle /\ r.stage = "next" /\ Between(r, t) /\ DOMAIN r = {"stage", "script"}
  <2>1. ASSUME NEW o \in Organizations, NEW k \in ApiKeys, NEW m \in 1..6, Remaining(r.script, m, o, k),
               ~Here(k, t), Here(o, t), t[o].starter = Stage(m)
        PROVE  ~Here(k, t2) /\ Here(o, t2) /\ t2[o].starter = Stage(m)
    <3>1. k \in Reserved(r) /\ o \in Provides(r)  BY <1>3, <2>1, ScriptReserved
    <3>2. k \in Rows /\ o \in Rows  BY DEF Rows
    <3>3. k \notin T /\ o \notin S  BY <2>1, <3>1, <3>2 DEF Apart
    <3>4. ~Here(k, t2) /\ Here(o, t2)  BY <2>1, <3>2, <3>3, KeptHere
    <3>5. t2[o].starter = t[o].starter  BY <2>1, <3>3 DEF Kept, KeptOrganizations
    <3> QED  BY <2>1, <3>4, <3>5
  <2>2. Between(r, t2)
    <3>1. CASE \E o \in Organizations : r.script = ArchiveScript(o)  BY <3>1 DEF Between
    <3>2. CASE \E o \in Organizations, k \in ApiKeys, m \in 1..6 :
                 Remaining(r.script, m, o, k) /\ ~Here(k, t) /\ Here(o, t) /\ t[o].starter = Stage(m)
      BY <2>1, <3>2 DEF Between
    <3> QED  BY <1>3, <3>1, <3>2 DEF Between
  <2> QED  BY <1>3, <2>2 DEF Fine
<1> QED  BY <1>1, <1>2, <1>3 DEF Fine

\* The more requests have overlapped, the less is claimed.
LEMMA FoundedLess ==
    ASSUME NEW e, NEW t, NEW ov, NEW ov2, ov \subseteq ov2
    PROVE  Founded(e, t, ov2) \subseteq Founded(e, t, ov)
  BY DEF Founded

LEMMA FineLess ==
    ASSUME NEW r, NEW t, NEW ov, NEW ov2, ov \subseteq ov2, Fine(r, t, ov)
    PROVE  Fine(r, t, ov2)
<1>1. CASE Job(r, t, ov)
  <2>1. Reads(r, t, ov2)  BY <1>1 DEF Job, Reads
  <2>2. Founding(r, t, ov) => Founding(r, t, ov2)
    <3>1. \A e : e \notin ov2 /\ (e \notin ov => Founded(e, t, ov) = {}) => Founded(e, t, ov2) = {}
      BY FoundedLess
    <3> QED  BY <3>1 DEF Founding
  <2>3. ChangingStatus(r, t, ov) => ChangingStatus(r, t, ov2)  BY DEF ChangingStatus
  <2>4. SavingSettings(r, t, ov) => SavingSettings(r, t, ov2)  BY DEF SavingSettings
  <2>5. ClosingInvitation(r, t, ov) => ClosingInvitation(r, t, ov2)  BY DEF ClosingInvitation
  <2>6. Accepting(r, t, ov) => Accepting(r, t, ov2)  BY DEF Accepting
  <2>7. AddingAgent(r, t, ov) => AddingAgent(r, t, ov2)  BY DEF AddingAgent
  <2>8. Job(r, t, ov2)  BY <1>1, <2>1, <2>2, <2>3, <2>4, <2>5, <2>6, <2>7 DEF Job
  <2> QED  BY <2>8 DEF Fine
<1> QED  BY <1>1 DEF Fine

LEMMA TablesLess ==
    ASSUME NEW t, NEW ov, NEW ov2, ov \subseteq ov2
    PROVE  /\ Admitted(t, ov) => Admitted(t, ov2)
           /\ OneSandbox(t, ov) => OneSandbox(t, ov2)
           /\ \A reqs : Capped(reqs, t, ov) => Capped(reqs, t, ov2)
<1>1. Admitted(t, ov) => Admitted(t, ov2)  BY DEF Admitted
<1>2. OneSandbox(t, ov) => OneSandbox(t, ov2)
  <2>1. \A e : Founded(e, t, ov2) \subseteq Founded(e, t, ov)  BY FoundedLess
  <2> QED  BY <2>1 DEF OneSandbox
<1>3. \A reqs : Capped(reqs, t, ov) => Capped(reqs, t, ov2)  BY DEF Capped
<1> QED  BY <1>1, <1>2, <1>3

-----------------------------------------------------------------------------
(* What a commit preserves of the tables.                                  *)

LEMMA CommitRooted ==
    ASSUME NEW r, NEW t, NEW t2, NEW ov, Typed(t), Rooted(t), Reads(r, t, ov), Effect(r, t, t2, ov)
    PROVE  Rooted(t2)
<1>0. /\ UsersAfter(r, t, t2, ov) /\ InvitationsAfter(r, t, t2, ov)
      /\ KeysAfter(r, t, t2) /\ AgentsAfter(r, t, t2, ov)
  BY DEF Effect
<1>1. Kept(t, t2, DOMAIN r.writes \cup r.reads, Provides(r), ov)  BY EffectKept
<1>2. \A o \in Organizations : Here(o, t) => Here(o, t2)  BY <1>1, KeptHere DEF Rows
<1>3. \A x \in Rows : Here(x, t2) /\ ~Here(x, t) => x \in DOMAIN r.writes  BY DEF Effect, Here
<1>4. \A o \in r.reads \cap Organizations : Here(o, t2)  BY <1>2 DEF Reads
<1>5. ASSUME NEW u \in Users, Here(u, t2) PROVE Here(t2[u].organization_id, t2)
  <2>1. CASE Here(u, t)
    <3>1. t2[u].organization_id = t[u].organization_id  BY <1>1, <2>1 DEF Kept, KeptUsers
    <3>2. t[u].organization_id \in Organizations  BY <2>1, Columns DEF UserRow
    <3> QED  BY <1>2, <2>1, <3>1, <3>2 DEF Rooted
  <2>2. CASE ~Here(u, t)
    <3>1. Joined(u, r, t, t2, ov)  BY <1>0, <1>3, <1>5, <2>2 DEF UsersAfter, Rows
    <3>2. \A o, e, role, via : t2[u] = NewUser(o, e, role, via) => t2[u].organization_id = o  BY DEF NewUser
    <3>3. \A i \in Invitations : Here(i, t) => Here(t[i].organization_id, t2)
      BY <1>2, Columns DEF Rooted, InvitationRow
    <3> QED  BY <1>4, <3>1, <3>2, <3>3 DEF Joined
  <2> QED  BY <2>1, <2>2
<1>6. ASSUME NEW i \in Invitations, Here(i, t2) PROVE Here(t2[i].organization_id, t2)
  <2>1. CASE Here(i, t)
    <3>1. t2[i].organization_id = t[i].organization_id  BY <1>1, <2>1 DEF Kept, KeptInvitations
    <3>2. t[i].organization_id \in Organizations  BY <2>1, Columns DEF InvitationRow
    <3> QED  BY <1>2, <2>1, <3>1, <3>2 DEF Rooted
  <2>2. CASE ~Here(i, t)
    <3>1. i \in DOMAIN r.writes  BY <1>3, <1>6, <2>2 DEF Rows
    <3>2. PICK o \in r.reads \cap Organizations, e \in Emails, role \in Role :
             t2[i] = [status |-> "pending", organization_id |-> o, email |-> e,
                      role |-> role, left |-> InvitationValidity]
      BY <1>0, <2>2, <3>1 DEF InvitationsAfter
    <3>3. t2[i].organization_id = o  BY <3>2
    <3> QED  BY <1>4, <3>3
  <2> QED  BY <2>1, <2>2
<1>7. ASSUME NEW k \in ApiKeys, Here(k, t2) PROVE Here(t2[k].organization_id, t2)
  <2>1. CASE Here(k, t)
    <3>1. t2[k].organization_id = t[k].organization_id  BY <1>1, <2>1 DEF Kept, KeptOthers
    <3>2. t[k].organization_id \in Organizations  BY <2>1, Columns DEF ApiKey
    <3> QED  BY <1>2, <2>1, <3>1, <3>2 DEF Rooted
  <2>2. CASE ~Here(k, t)
    <3>1. k \in DOMAIN r.writes  BY <1>3, <1>7, <2>2 DEF Rows
    <3>2. PICK o \in Organizations : Here(o, t) /\ t2[k] = [status |-> "live", organization_id |-> o]
      BY <1>0, <2>2, <3>1 DEF KeysAfter
    <3>3. t2[k].organization_id = o  BY <3>2
    <3> QED  BY <1>2, <3>2, <3>3
  <2> QED  BY <2>1, <2>2
<1>8. ASSUME NEW a \in Agents, Here(a, t2) PROVE Here(t2[a].organization_id, t2)
  <2>1. CASE Here(a, t)
    <3>1. t2[a] = t[a]  BY <1>1, <2>1 DEF Kept, KeptOthers
    <3>2. t[a].organization_id \in Organizations  BY <2>1, Columns DEF AgentRow
    <3> QED  BY <1>2, <2>1, <3>1, <3>2 DEF Rooted
  <2>2. CASE ~Here(a, t)
    <3>1. a \in DOMAIN r.writes  BY <1>3, <1>8, <2>2 DEF Rows
    <3>2. PICK o \in r.reads \cap Organizations : t2[a] = [status |-> "registered", organization_id |-> o]
      BY <1>0, <3>1 DEF AgentsAfter
    <3>3. t2[a].organization_id = o  BY <3>2
    <3> QED  BY <1>4, <3>3
  <2> QED  BY <2>1, <2>2
<1> QED  BY <1>5, <1>6, <1>7, <1>8 DEF Rooted

LEMMA CommitClocked ==
    ASSUME NEW r, NEW t, NEW t2, NEW ov, Typed(t), Clocked(t), Effect(r, t, t2, ov)
    PROVE  Clocked(t2)
<1> SUFFICES ASSUME NEW s \in Sessions, Here(s, t2)
             PROVE  t2[s].left \in Nat /\ t2[s].left + t2[s].age = SessionTimeout
  BY DEF Clocked
<1>1. CASE s \notin DOMAIN r.writes
  <2>1. t2[s] = t[s]  BY <1>1 DEF Effect, Rows
  <2> QED  BY <2>1 DEF Clocked, Here
<1>2. CASE s \in DOMAIN r.writes /\ ~Here(s, t)
  <2>1. PICK u \in Users : t2[s] = [status |-> "open", user_id |-> u, left |-> SessionTimeout, age |-> 0]
    BY <1>2 DEF Effect, SessionsAfter
  <2> QED  BY <2>1, ConstantsAssumption
<1>3. CASE s \in DOMAIN r.writes /\ Here(s, t)
  <2>1. t2[s] = [t[s] EXCEPT !.status = "revoked"]  BY <1>3 DEF Effect, SessionsAfter
  <2>2. t[s] \in UserSession  BY <1>3, Columns
  <2>3. t2[s].left = t[s].left /\ t2[s].age = t[s].age  BY <2>1, <2>2 DEF UserSession
  <2> QED  BY <1>3, <2>3 DEF Clocked
<1> QED  BY <1>1, <1>2, <1>3

LEMMA CommitAdmitted ==
    ASSUME NEW r, NEW t, NEW t2, NEW ov, Typed(t), Admitted(t, ov), Effect(r, t, t2, ov)
    PROVE  Admitted(t2, ov)
<1>0. UsersAfter(r, t, t2, ov) /\ InvitationsAfter(r, t, t2, ov)  BY DEF Effect
<1>1. Kept(t, t2, DOMAIN r.writes \cup r.reads, Provides(r), ov)  BY EffectKept
<1>2. \A x \in Rows : x \notin DOMAIN r.writes => t2[x] = t[x]  BY DEF Effect
<1>3. \A u \in Users : Here(u, t2) /\ ~Here(u, t) => u \in DOMAIN r.writes  BY <1>2 DEF Rows, Here
<1>4. \A u \in Users : Here(u, t) => t2[u].via = t[u].via /\ t2[u].organization_id = t[u].organization_id
  BY <1>1 DEF Kept, KeptUsers
<1>5. \A i \in Invitations : Here(i, t) => Here(i, t2) /\ t2[i].organization_id = t[i].organization_id
  BY <1>1 DEF Kept, KeptInvitations
\* A newcomer by invitation
<1>6. ASSUME NEW u \in Users, Here(u, t2), ~Here(u, t), t2[u].via \in Invitations
      PROVE  LET i == t2[u].via
             IN  /\ Here(i, t) /\ t2[i].status = "accepted" /\ (i \notin ov => t[i].status = "pending")
                 /\ t2[u].organization_id = t[i].organization_id
  <2>1. Joined(u, r, t, t2, ov)  BY <1>0, <1>3, <1>6 DEF UsersAfter
  <2>2. \A o, e, role, via : t2[u] = NewUser(o, e, role, via) => t2[u].organization_id = o /\ t2[u].via = via
    BY DEF NewUser
  <2>3. NONE \notin Invitations /\ "founder" \notin Invitations  BY ConstantsAssumption
  <2> QED  BY <1>6, <2>1, <2>2, <2>3 DEF Joined
<1>7. ASSUME NEW u \in Users, Here(u, t), t[u].via \in Invitations
      PROVE  LET i == t[u].via
             IN  /\ Here(i, t) /\ t[u].organization_id = t[i].organization_id
                 /\ i \notin ov => /\ t[i].status = "accepted"
                                   /\ \A v \in Users : Here(v, t) /\ t[v].via = i => v = u
  BY <1>7 DEF Admitted
<1>8. ASSUME NEW i \in Invitations, Here(i, t), i \notin ov, t[i].status = "accepted"
      PROVE  t2[i].status = "accepted"
  <2>1. i \notin DOMAIN r.writes  BY <1>0, <1>8 DEF InvitationsAfter
  <2> QED  BY <1>2, <1>8, <2>1 DEF Rows
<1> SUFFICES ASSUME NEW u \in Users, Here(u, t2), NEW i \in Invitations, t2[u].via = i
             PROVE  /\ Here(i, t2) /\ t2[u].organization_id = t2[i].organization_id
                    /\ i \notin ov => /\ t2[i].status = "accepted"
                                      /\ \A v \in Users : Here(v, t2) /\ t2[v].via = i => v = u
  BY DEF Admitted
<1>9. Here(i, t) /\ t2[u].organization_id = t[i].organization_id
  BY <1>4, <1>6, <1>7
<1>10. ASSUME i \notin ov PROVE t2[i].status = "accepted"
  BY <1>4, <1>6, <1>7, <1>8, <1>10
<1>11. ASSUME i \notin ov, NEW v \in Users, Here(v, t2), t2[v].via = i PROVE v = u
  <2>1. CASE Here(u, t) /\ Here(v, t)  BY <1>4, <1>7, <1>11, <2>1
  <2>2. CASE Here(u, t) /\ ~Here(v, t)
    <3>1. t[i].status = "accepted"  BY <1>4, <1>7, <1>11, <2>2
    <3>2. t[i].status = "pending"  BY <1>6, <1>11, <2>2
    <3> QED  BY <3>1, <3>2
  <2>3. CASE ~Here(u, t) /\ Here(v, t)
    <3>1. t[i].status = "accepted"  BY <1>4, <1>7, <1>11, <2>3
    <3>2. t[i].status = "pending"  BY <1>6, <1>11, <2>3
    <3> QED  BY <3>1, <3>2
  <2>4. CASE ~Here(u, t) /\ ~Here(v, t)  BY <1>0, <1>3, <1>11, <2>4 DEF UsersAfter
  <2> QED  BY <2>1, <2>2, <2>3, <2>4
<1> QED  BY <1>5, <1>9, <1>10, <1>11

LEMMA CommitOneSandbox ==
    ASSUME NEW r, NEW t, NEW t2, NEW ov, Typed(t), Typed(t2), Rooted(t), OneSandbox(t, ov), Effect(r, t, t2, ov)
    PROVE  OneSandbox(t2, ov)
<1>0. UsersAfter(r, t, t2, ov)  BY DEF Effect
<1>1. Kept(t, t2, DOMAIN r.writes \cup r.reads, Provides(r), ov)  BY EffectKept
<1>2. \A u \in Users : Here(u, t2) /\ ~Here(u, t) => u \in DOMAIN r.writes  BY DEF Effect, Rows, Here
<1> SUFFICES ASSUME NEW e \in Emails \ ov, NEW o \in Founded(e, t2, ov), NEW p \in Founded(e, t2, ov)
             PROVE  o = p
  BY DEF OneSandbox
\* Either the sandbox is new, or it counted before.
<1>3. ASSUME NEW q \in Founded(e, t2, ov), q \notin Founded(e, t, ov)
      PROVE  /\ Founded(e, t, ov) = {}
             /\ \E u \in Users \cap DOMAIN r.writes : t2[u].organization_id = q
  <2>1. q \in Organizations \ ov /\ Sandbox(q, t2) /\ t2[q].status # "archived"  BY <1>3 DEF Founded
  <2>2. PICK u \in Users : /\ Here(u, t2) /\ t2[u].organization_id = q /\ t2[u].via = "founder"
                           /\ t2[u].email = e /\ t2[u].role = "owner" /\ ~t2[u].edited
    BY <1>3 DEF Founded, Of
  <2>3. ~Here(u, t)
    <3>1. SUFFICES ASSUME Here(u, t) PROVE FALSE  OBVIOUS
    <3>2. /\ t[u].organization_id = q /\ t[u].via = "founder" /\ t[u].email = e /\ t[u].role = "owner" /\ ~t[u].edited
      BY <1>1, <2>2, <3>1 DEF Kept, KeptUsers
    <3>3. Here(q, t)  BY <3>1, <3>2 DEF Rooted
    <3>4. t[q].environment = "sandbox" /\ t[q].status # "archived"
      BY <1>1, <2>1, <3>3 DEF Kept, KeptOrganizations, Sandbox
    <3> QED  BY <1>3, <2>1, <3>1, <3>2, <3>3, <3>4 DEF Founded, Of, Sandbox
  <2>4. u \in DOMAIN r.writes /\ Joined(u, r, t, t2, ov)  BY <1>0, <1>2, <2>2, <2>3 DEF UsersAfter
  <2>5. \A c, f, role, via : t2[u] = NewUser(c, f, role, via) =>
            t2[u].organization_id = c /\ t2[u].email = f /\ t2[u].via = via
    BY DEF NewUser
  <2>6. NONE # "founder" /\ "founder" \notin Invitations  BY ConstantsAssumption
  <2>7. t2[q].environment = "sandbox"  BY <2>1 DEF Sandbox
  <2>8. Founded(e, t, ov) = {}  BY <2>2, <2>4, <2>5, <2>6, <2>7 DEF Joined
  <2> QED  BY <2>2, <2>4, <2>8
<1>4. CASE o \in Founded(e, t, ov) /\ p \in Founded(e, t, ov)  BY <1>4 DEF OneSandbox
<1>5. CASE o \notin Founded(e, t, ov) /\ p \notin Founded(e, t, ov)
  <2>1. PICK u \in Users \cap DOMAIN r.writes : t2[u].organization_id = o  BY <1>3, <1>5
  <2>2. PICK v \in Users \cap DOMAIN r.writes : t2[v].organization_id = p  BY <1>3, <1>5
  <2>3. u = v  BY <1>0 DEF UsersAfter
  <2> QED  BY <2>1, <2>2, <2>3
<1> QED  BY <1>3, <1>4, <1>5

-----------------------------------------------------------------------------
(* The cap on agents.                                                      *)

LEMMA PendingReads ==
    ASSUME NEW reqs, NEW t, NEW ov, NEW o, NEW w \in Pending(o, reqs), Typed(t), Fine(reqs[w], t, ov)
    PROVE  o \in reqs[w].reads \cap Organizations /\ Here(o, t)
<1> DEFINE r == reqs[w]
<1>1. r.stage = "loaded"  BY DEF Pending
<1>2. PICK a \in Agents \cap DOMAIN r.writes : r.writes[a].organization_id = o  BY DEF Pending
<1>3. r # Idle /\ Job(r, t, ov)  BY <1>1 DEF Fine, Idle
<1>4. AgentsAfter(r, t, After(t, r.writes), ov)  BY <1>3, JobEffect DEF Effect
<1>5. PICK p \in r.reads \cap Organizations : r.writes[a] = [status |-> "registered", organization_id |-> p]
  BY <1>2, <1>4 DEF AgentsAfter
<1>6. p = o  BY <1>2, <1>5
<1> QED  BY <1>3, <1>5, <1>6 DEF Job, Reads

LEMMA FinitePending ==
    ASSUME NEW o, NEW reqs
    PROVE  /\ IsFiniteSet(Pending(o, reqs))
           /\ Cardinality(Pending(o, reqs)) \in Nat
           /\ Cardinality(Workers) \in Nat
           /\ Cardinality(Pending(o, reqs)) <= Cardinality(Workers)
<1>1. Pending(o, reqs) \subseteq Workers /\ IsFiniteSet(Workers)  BY ConstantsAssumption DEF Pending
<1>2. IsFiniteSet(Pending(o, reqs)) /\ Cardinality(Pending(o, reqs)) <= Cardinality(Workers)
  BY <1>1, FS_Subset
<1> QED  BY <1>1, <1>2, FS_CardinalityType

LEMMA CommitCapped ==
    ASSUME NEW reqs, DOMAIN reqs = Workers, NEW w \in Workers, NEW t, NEW t2, NEW ov, NEW r2,
           Typed(t), Rooted(t), \A v \in Workers : Fine(reqs[v], t, ov), reqs[w].stage = "loaded",
           Effect(reqs[w], t, t2, ov), Reads(reqs[w], t, ov), Capped(reqs, t, ov), r2.stage # "loaded"
    PROVE  Capped([reqs EXCEPT ![w] = r2], t2, ov)
<1> DEFINE r == reqs[w]
           reqs2 == [reqs EXCEPT ![w] = r2]
<1>1. AgentsAfter(r, t, t2, ov) /\ \A x \in Rows : x \notin DOMAIN r.writes => t2[x] = t[x]  BY DEF Effect
<1>2. Kept(t, t2, DOMAIN r.writes \cup r.reads, Provides(r), ov)  BY EffectKept
<1>3. reqs2[w] = r2 /\ \A v \in Workers \ {w} : reqs2[v] = reqs[v]  OBVIOUS
<1> HIDE DEF reqs2
<1>4. \A o : Pending(o, reqs2) = Pending(o, reqs) \ {w}  BY <1>3 DEF Pending
<1>5. \A a \in Agents : Here(a, t) => t2[a] = t[a]  BY <1>2 DEF Kept, KeptOthers
<1>6. \A a \in Agents : Here(a, t2) /\ ~Here(a, t) => a \in DOMAIN r.writes  BY <1>1 DEF Rows, Here
<1> SUFFICES ASSUME NEW o \in Organizations
             PROVE  /\ IsFiniteSet(Of(Agents, o, t2))
                    /\ Sandbox(o, t2) =>
                          /\ Cardinality(Of(Agents, o, t2)) + Cardinality(Pending(o, reqs2))
                                < MAX_AGENTS_PER_SANDBOX + Cardinality(Workers)
                          /\ o \notin ov => Cardinality(Of(Agents, o, t2)) <= MAX_AGENTS_PER_SANDBOX
  BY DEF Capped, reqs2
<1> DEFINE held == Of(Agents, o, t)
           cap == Cardinality(held) + Cardinality(Pending(o, reqs)) < MAX_AGENTS_PER_SANDBOX + Cardinality(Workers)
<1>7. /\ IsFiniteSet(held) /\ Cardinality(held) \in Nat
      /\ Sandbox(o, t) => cap /\ (o \notin ov => Cardinality(held) <= MAX_AGENTS_PER_SANDBOX)
  BY FS_CardinalityType DEF Capped
<1>8. /\ Cardinality(Pending(o, reqs)) \in Nat /\ Cardinality(Pending(o, reqs2)) \in Nat
      /\ Cardinality(Workers) \in Nat /\ IsFiniteSet(Pending(o, reqs)) /\ MAX_AGENTS_PER_SANDBOX \in Nat
  BY FinitePending, ConstantsAssumption
<1>9. Cardinality(Pending(o, reqs2)) <= Cardinality(Pending(o, reqs))
  <2>1. Pending(o, reqs2) \subseteq Pending(o, reqs)  BY <1>4
  <2> QED  BY <1>8, <2>1, FS_Subset
<1>10. CASE \E a \in Agents \cap DOMAIN r.writes : t2[a].organization_id = o
  <2>1. PICK a \in Agents \cap DOMAIN r.writes : t2[a].organization_id = o  BY <1>10
  <2>2. ~Here(a, t) /\ \A b \in Agents \cap DOMAIN r.writes : b = a  BY <1>1, <2>1 DEF AgentsAfter
  <2>3. PICK p \in r.reads \cap Organizations :
              /\ t2[a] = [status |-> "registered", organization_id |-> p] /\ r.writes[a] = t2[a]
              /\ Sandbox(p, t) /\ p \notin ov => Cardinality(Of(Agents, p, t)) < MAX_AGENTS_PER_SANDBOX
    BY <1>1, <2>1 DEF AgentsAfter
  <2>4. p = o  BY <2>1, <2>3
  <2>5. Here(a, t2)  BY <2>3 DEF Here
  <2>6. Of(Agents, o, t2) = held \cup {a}
    BY <1>5, <1>6, <2>1, <2>2, <2>5 DEF Of, Here
  <2>7. a \notin held  BY <2>2 DEF Of
  <2>8. IsFiniteSet(Of(Agents, o, t2)) /\ Cardinality(Of(Agents, o, t2)) = Cardinality(held) + 1
    BY <1>7, <2>6, <2>7, FS_AddElement
  <2>9. Here(o, t)  BY <2>3, <2>4 DEF Reads
  <2>10. Sandbox(o, t2) => Sandbox(o, t)
    BY <1>2, <2>9 DEF Sandbox, Kept, KeptOrganizations
  <2>11. w \in Pending(o, reqs)  BY <2>1, <2>3 DEF Pending
  <2>12. Cardinality(Pending(o, reqs2)) = Cardinality(Pending(o, reqs)) - 1
    BY <1>4, <1>8, <2>11, FS_RemoveElement
  <2> HIDE DEF held
  <2> QED  BY <1>7, <1>8, <2>3, <2>4, <2>8, <2>10, <2>12 DEF held
<1>11. CASE ~\E a \in Agents \cap DOMAIN r.writes : t2[a].organization_id = o
  <2>1. Of(Agents, o, t2) = held  BY <1>5, <1>6, <1>11 DEF Of, Here
  <2>2. CASE Here(o, t)
    <3>1. Sandbox(o, t2) => Sandbox(o, t)
      BY <1>2, <2>2 DEF Sandbox, Kept, KeptOrganizations
    <3> HIDE DEF held
    <3> QED  BY <1>7, <1>8, <1>9, <2>1, <3>1
  <2>3. CASE ~Here(o, t)
    <3>1. held = {}  BY <2>3 DEF Of, Rooted
    <3>2. Pending(o, reqs2) = {}
      <4>1. \A v \in Pending(o, reqs) : v \in Workers  BY DEF Pending
      <4>2. Pending(o, reqs) = {}  BY <2>3, <4>1, PendingReads
      <4> QED  BY <1>4, <4>2
    <3>3. Cardinality(Of(Agents, o, t2)) = 0 /\ Cardinality(Pending(o, reqs2)) = 0
      BY <2>1, <3>1, <3>2, FS_EmptySet
    <3>4. Cardinality(Workers) > 0
      <4>1. Cardinality(Workers) # 0  BY FS_EmptySet, ConstantsAssumption
      <4> QED  BY <1>8, <4>1
    <3>5. IsFiniteSet(Of(Agents, o, t2))  BY <1>7, <2>1
    <3> QED  BY <1>8, <3>3, <3>4, <3>5
  <2> QED  BY <2>2, <2>3
<1> QED  BY <1>10, <1>11

-----------------------------------------------------------------------------
(* The requests after one of them has gone on.                             *)

Rest(r) == IF r.script = << >> THEN Idle ELSE [stage |-> "next", script |-> r.script]

\* The rest of a script holds on to nothing that it did not hold on to before.
LEMMA NextHolds ==
    ASSUME NEW r, r # Idle
    PROVE  /\ Touched(Rest(r)) = {} /\ Rest(r).stage # "loaded"
           /\ Reserved(Rest(r)) \subseteq Reserved(r)
           /\ Provides(Rest(r)) \subseteq Provides(r)
           /\ Touched(Idle) = {} /\ Reserved(Idle) = {} /\ Provides(Idle) = {} /\ Idle.stage # "loaded"
<1>1. Touched(Idle) = {} /\ Reserved(Idle) = {} /\ Provides(Idle) = {} /\ Idle.stage # "loaded"
  BY DEF Touched, Reserved, Provides, Idle
<1>2. CASE r.script = << >>  BY <1>1, <1>2 DEF Rest
<1>3. CASE r.script # << >>
  <2> DEFINE n == [stage |-> "next", script |-> r.script]
  <2>1. Rest(r) = n  BY <1>3 DEF Rest
  <2>2. n # Idle /\ n.stage = "next" /\ n.script = r.script  BY DEF Idle
  <2> HIDE DEF n
  <2>3. Touched(n) = {}  BY <2>2 DEF Touched
  <2>4. Reserved(n) \subseteq Reserved(r)  BY <2>2, <2>3 DEF Reserved
  <2>5. Provides(n) \subseteq Provides(r)  BY <2>2 DEF Provides, KeyCalls
  <2> QED  BY <1>1, <2>1, <2>2, <2>3, <2>4, <2>5
<1> QED  BY <1>2, <1>3

LEMMA HoldsLess ==
    ASSUME NEW reqs, DOMAIN reqs = Workers, NEW w \in Workers, NEW r2, NEW t, NEW t2, NEW ov,
           \A x \in Rows : Here(x, t) => Here(x, t2),
           Touched(r2) = {}, Reserved(r2) \subseteq Reserved(reqs[w]), Provides(r2) \subseteq Provides(reqs[w]),
           Alone(reqs, t), Exclusive(reqs, ov), Sole(reqs)
    PROVE  LET reqs2 == [reqs EXCEPT ![w] = r2]
           IN  DOMAIN reqs2 = Workers /\ Alone(reqs2, t2) /\ Exclusive(reqs2, ov) /\ Sole(reqs2)
<1> DEFINE reqs2 == [reqs EXCEPT ![w] = r2]
<1>1. DOMAIN reqs2 = Workers /\ reqs2[w] = r2 /\ \A v \in Workers \ {w} : reqs2[v] = reqs[v]  OBVIOUS
<1> HIDE DEF reqs2
<1>2. \A v \in Workers : /\ Reserved(reqs2[v]) \subseteq Reserved(reqs[v])
                         /\ Touched(reqs2[v]) \subseteq Touched(reqs[v])
                         /\ Provides(reqs2[v]) \subseteq Provides(reqs[v])
  BY <1>1
<1>3. Alone(reqs2, t2)  BY <1>2 DEF Alone
<1>4. Exclusive(reqs2, ov)
  <2>1. \A v, u \in Workers : v # u => Touched(reqs[v]) \cap Touched(reqs[u]) \subseteq ov  BY DEF Exclusive
  <2> HIDE DEF Exclusive
  <2>2. SUFFICES ASSUME NEW v \in Workers, NEW u \in Workers, v # u
                 PROVE Touched(reqs2[v]) \cap Touched(reqs2[u]) \subseteq ov
    BY DEF Exclusive
  <2> QED  BY <1>2, <2>1, <2>2
<1>5. Sole(reqs2)
  <2>1. \A v, u \in Workers : v # u => Provides(reqs[v]) \cap Provides(reqs[u]) = {}  BY DEF Sole
  <2>2. SUFFICES ASSUME NEW v \in Workers, NEW u \in Workers, v # u
                 PROVE Provides(reqs2[v]) \cap Provides(reqs2[u]) = {}
    BY DEF Sole
  <2> QED  BY <1>2, <2>1, <2>2
<1> QED  BY <1>1, <1>3, <1>4, <1>5 DEF reqs2

\* A committed call leaves its script ready to go on.
LEMMA CommitNext ==
    ASSUME NEW r, NEW t, NEW ov, Typed(t), r # Idle, Job(r, t, ov)
    PROVE  Fine(Rest(r), After(t, r.writes), ov)
<1> DEFINE t2 == After(t, r.writes)
           n == [stage |-> "next", script |-> r.script]
<1>1. CASE r.script = << >>  BY <1>1 DEF Rest, Fine
<1>2. ASSUME r.script # << >>, Between(n, t2) PROVE Fine(Rest(r), t2, ov)
  <2>1. Rest(r) = n  BY <1>2 DEF Rest
  <2>2. DOMAIN n = {"stage", "script"} /\ n.stage = "next"  OBVIOUS
  <2> HIDE DEF n
  <2> QED  BY <1>2, <2>1, <2>2 DEF Fine
<1>3. n.script = r.script  OBVIOUS
<1> HIDE DEF n
<1>4. CASE r.script # << >> /\ Founding(r, t, ov)
  <2>1. PICK o \in Organizations, u \in Users, e \in Emails, environment \in {"production", "sandbox"} :
        /\ r.writes = [x \in {o, u} |-> IF x = o THEN NewOrganization(environment)
                                        ELSE NewUser(o, e, "owner", "founder")]
        /\ ~Here(o, t)
        /\ environment = "production" => Simple(r)
        /\ environment = "sandbox" => \E k \in ApiKeys : Remaining(r.script, 1, o, k) /\ ~Here(k, t)
    BY <1>4 DEF Founding
  <2>2. environment = "sandbox"  BY <1>4, <2>1 DEF Simple
  <2>3. PICK k \in ApiKeys : Remaining(r.script, 1, o, k) /\ ~Here(k, t)  BY <2>1, <2>2
  <2>4. o \in Rows /\ k \in Rows /\ k # o /\ k # u  BY Disjoint DEF Rows
  <2>5. DOMAIN r.writes = {o, u} /\ r.writes[o] = NewOrganization(environment)  BY <2>1
  <2>6. t[o] = Absent  BY <2>1, <2>4, Columns
  <2>7. t2[o] = NewOrganization(environment)  BY <2>4, <2>5, <2>6, NewRows DEF After
  <2>8. t2[k] = t[k]  BY <2>4, <2>5 DEF After
  <2> HIDE DEF t2
  <2>9. Here(o, t2) /\ t2[o].starter = Stage(1)  BY <2>7 DEF NewOrganization, Here, Stage
  <2>10. ~Here(k, t2)  BY <2>3, <2>8 DEF Here
  <2>11. 1 \in 1..6  OBVIOUS
  <2>12. Between(n, t2)  BY <1>3, <2>3, <2>9, <2>10, <2>11 DEF Between
  <2> QED  BY <1>2, <1>4, <2>12 DEF t2
<1>5. CASE r.script # << >> /\ ChangingStatus(r, t, ov)
  <2>1. Between(n, t2)  BY <1>3, <1>5 DEF ChangingStatus, Between
  <2> QED  BY <1>2, <1>5, <2>1
<1>6. CASE r.script # << >> /\ Provisioning(r, t)
  <2>1. PICK o \in Organizations, k \in ApiKeys, m \in 1..5 :
        /\ r.writes = Row(o, [starter |-> StarterStages[m]]) /\ Here(o, t)
        /\ Remaining(r.script, m + 1, o, k) /\ ~Here(k, t)
    BY <1>6 DEF Provisioning
  <2>2. o \in Rows /\ k \in Rows /\ k # o  BY Disjoint DEF Rows
  <2>3. DOMAIN r.writes = {o} /\ r.writes[o] = [starter |-> StarterStages[m]]  BY <2>1 DEF Row
  <2>4. t[o] \in OrganizationRow  BY <2>1, Columns
  <2>5. t2[o] = [t[o] EXCEPT !.starter = StarterStages[m]]
    <3>1. t2[o] = Merge(t[o], [starter |-> StarterStages[m]])  BY <2>2, <2>3 DEF After
    <3> QED  BY <2>4, <3>1, OrganizationMerged
  <2>6. t2[k] = t[k]  BY <2>2, <2>3 DEF After
  <2> HIDE DEF t2
  <2>7. t2[o].status = t[o].status /\ t2[o].starter = StarterStages[m]  BY <2>4, <2>5 DEF OrganizationRow
  <2>8. Here(o, t2) /\ t2[o].starter = Stage(m + 1)  BY <2>1, <2>7, Stages DEF Here
  <2>9. ~Here(k, t2) /\ m + 1 \in 1..6  BY <2>1, <2>6 DEF Here
  <2>10. Between(n, t2)  BY <1>3, <2>1, <2>8, <2>9 DEF Between
  <2> QED  BY <1>2, <1>6, <2>10 DEF t2
<1>7. CASE \/ SavingSettings(r, t, ov) \/ Inviting(r, t) \/ ClosingInvitation(r, t, ov) \/ Accepting(r, t, ov)
           \/ AddingUser(r, t) \/ EditingUser(r, t) \/ LoggingIn(r, t) \/ LoggingOut(r, t)
           \/ IssuingKey(r, t) \/ RevokingKey(r, t) \/ AddingAgent(r, t, ov)
  <2>1. r.script = << >>
    BY <1>7 DEF SavingSettings, Inviting, ClosingInvitation, Accepting, AddingUser, EditingUser, LoggingIn,
                LoggingOut, IssuingKey, RevokingKey, AddingAgent, Simple
  <2> QED  BY <1>1, <2>1
<1> QED  BY <1>1, <1>4, <1>5, <1>6, <1>7 DEF Job

LEMMA OthersApart ==
    ASSUME NEW reqs, NEW t, NEW ov, Alone(reqs, t), Exclusive(reqs, ov), Sole(reqs),
           NEW v \in Workers, NEW w \in Workers, v # w, reqs[w] # Idle
    PROVE  Apart(reqs[v], t, Touched(reqs[w]), Provides(reqs[w]), ov)
<1>1. Touched(reqs[w]) \subseteq Reserved(reqs[w])  BY DEF Reserved
<1>2. Touched(reqs[v]) \cap Touched(reqs[w]) \subseteq ov  BY DEF Exclusive
<1>3. Provides(reqs[v]) \cap Provides(reqs[w]) = {}  BY DEF Sole
<1>4. \A x \in Rows : x \in Reserved(reqs[v]) /\ x \in Reserved(reqs[w]) => Here(x, t)  BY DEF Alone
<1> QED  BY <1>1, <1>2, <1>3, <1>4 DEF Apart

LEMMA ApartFromNothing ==
    ASSUME NEW r, NEW t, NEW ov
    PROVE  Apart(r, t, {}, {}, ov)
  BY DEF Apart

\* A request that ends takes nothing away.
LEMMA EndInv ==
    ASSUME Inv, NEW w \in Workers, Answer(w), UNCHANGED <<db, overlapped>>
    PROVE  Inv'
<1>1. /\ Typed(db) /\ DOMAIN request = Workers /\ \A v \in Workers : Fine(request[v], db, overlapped)
      /\ Alone(request, db) /\ Exclusive(request, overlapped) /\ Sole(request)
      /\ Rooted(db) /\ Clocked(db) /\ Admitted(db, overlapped) /\ OneSandbox(db, overlapped)
      /\ Capped(request, db, overlapped) /\ UniqueEmail(db) /\ overlapped \subseteq Rows \cup Emails
  BY DEF Inv
<1>2. request' = [request EXCEPT ![w] = Idle] /\ db' = db /\ overlapped' = overlapped  BY DEF Answer
<1>3. Touched(Idle) = {} /\ Reserved(Idle) = {} /\ Provides(Idle) = {} /\ Idle.stage # "loaded"
  BY DEF Touched, Reserved, Provides, Idle
<1>4. DOMAIN request' = Workers /\ Alone(request', db) /\ Exclusive(request', overlapped) /\ Sole(request')
  BY <1>1, <1>2, <1>3, HoldsLess
<1>5. \A v \in Workers : Fine(request'[v], db, overlapped)  BY <1>1, <1>2 DEF Fine
<1>6. Capped(request', db, overlapped)
  <2>1. \A o : Pending(o, request') \subseteq Pending(o, request)  BY <1>1, <1>2, <1>3 DEF Pending
  <2>2. \A o : Cardinality(Pending(o, request')) <= Cardinality(Pending(o, request))
    BY <2>1, FinitePending, FS_Subset
  <2>3. \A o : Cardinality(Pending(o, request')) \in Nat /\ Cardinality(Pending(o, request)) \in Nat /\ Cardinality(Workers) \in Nat
    BY FinitePending
  <2>4. \A o \in Organizations : Cardinality(Of(Agents, o, db)) \in Nat  BY <1>1, FS_CardinalityType DEF Capped
  <2> QED  BY <1>1, <2>2, <2>3, <2>4, ConstantsAssumption DEF Capped
<1> QED  BY <1>1, <1>2, <1>4, <1>5, <1>6 DEF Inv

LEMMA CommitInv ==
    ASSUME Inv, NEW w \in Workers, Commit(w)
    PROVE  Inv'
<1> DEFINE r == request[w]
           t2 == After(db, r.writes)
<1>1. r.stage = "loaded" /\ overlapped' = overlapped  BY DEF Commit
<1>2. r # Idle /\ Job(r, db, overlapped)  BY <1>1 DEF Inv, Fine, Idle
<1>3. /\ Typed(db) /\ DOMAIN request = Workers /\ \A v \in Workers : Fine(request[v], db, overlapped)
      /\ Alone(request, db) /\ Exclusive(request, overlapped) /\ Sole(request)
      /\ Rooted(db) /\ Clocked(db) /\ Admitted(db, overlapped) /\ OneSandbox(db, overlapped)
      /\ Capped(request, db, overlapped) /\ UniqueEmail(db) /\ overlapped \subseteq Rows \cup Emails
  BY DEF Inv
<1>4. \/ db' = t2 /\ UniqueEmail(t2) /\ request' = [request EXCEPT ![w] = Rest(r)]
      \/ db' = db /\ request' = [request EXCEPT ![w] = Idle]
  BY DEF Commit, After, Rest, Answer
<1>5. CASE db' = t2 /\ UniqueEmail(t2) /\ request' = [request EXCEPT ![w] = Rest(r)]
  <2>1. Effect(r, db, t2, overlapped)  BY <1>2, <1>3, JobEffect
  <2>2. Fine(Rest(r), t2, overlapped)  BY <1>2, <1>3, CommitNext
  <2>3. /\ Touched(Rest(r)) = {} /\ Rest(r).stage # "loaded"
        /\ Reserved(Rest(r)) \subseteq Reserved(r) /\ Provides(Rest(r)) \subseteq Provides(r)
    BY <1>2, NextHolds
  <2>4. Reads(r, db, overlapped)  BY <1>2 DEF Job
  <2> HIDE DEF t2
  <2>5. Typed(t2)  BY <1>3, <2>1, EffectTyped
  <2>6. Kept(db, t2, DOMAIN r.writes \cup r.reads, Provides(r), overlapped)  BY <1>3, <2>1, EffectKept
  <2>7. Touched(r) = DOMAIN r.writes \cup r.reads  BY <1>1 DEF Touched
  <2>8. ASSUME NEW v \in Workers, v # w PROVE Fine(request[v], t2, overlapped)
    <3>1. Apart(request[v], db, DOMAIN r.writes \cup r.reads, Provides(r), overlapped)
      BY <1>2, <1>3, <2>7, <2>8, OthersApart
    <3> QED  BY <1>3, <2>5, <2>6, <3>1, FineKept
  <2>9. \A v \in Workers : Fine(request'[v], t2, overlapped)  BY <1>3, <1>5, <2>2, <2>8
  <2>10. \A x \in Rows : Here(x, db) => Here(x, t2)  BY <2>6, KeptHere
  <2>11. DOMAIN request' = Workers /\ Alone(request', t2) /\ Exclusive(request', overlapped) /\ Sole(request')
    BY <1>3, <1>5, <2>3, <2>10, HoldsLess
  <2>12. Rooted(t2)  BY <1>3, <2>1, <2>4, CommitRooted
  <2>13. Clocked(t2)  BY <1>3, <2>1, CommitClocked
  <2>14. Admitted(t2, overlapped)  BY <1>3, <2>1, CommitAdmitted
  <2>15. OneSandbox(t2, overlapped)  BY <1>3, <2>1, <2>5, CommitOneSandbox
  <2>16. Capped(request', t2, overlapped)  BY <1>1, <1>3, <1>5, <2>1, <2>3, <2>4, CommitCapped
  <2> QED  BY <1>1, <1>3, <1>5, <2>5, <2>9, <2>11, <2>12, <2>13, <2>14, <2>15, <2>16 DEF Inv
<1>6. CASE db' = db /\ request' = [request EXCEPT ![w] = Idle]  BY <1>1, <1>6, EndInv DEF Answer
<1> QED  BY <1>4, <1>5, <1>6

LEMMA TimeInv ==
    ASSUME Inv, TimePasses
    PROVE  Inv'
<1>1. /\ Typed(db) /\ DOMAIN request = Workers /\ \A v \in Workers : Fine(request[v], db, overlapped)
      /\ Alone(request, db) /\ Exclusive(request, overlapped) /\ Sole(request)
      /\ Rooted(db) /\ Clocked(db) /\ Admitted(db, overlapped) /\ OneSandbox(db, overlapped)
      /\ Capped(request, db, overlapped) /\ UniqueEmail(db) /\ overlapped \subseteq Rows \cup Emails
  BY DEF Inv
<1>2. request' = request /\ overlapped' = overlapped  BY DEF TimePasses
<1>3. /\ Typed(db') /\ Kept(db, db', {}, {}, overlapped) /\ Clocked(db')
      /\ \A x \in Rows : Here(x, db') <=> Here(x, db)
  BY <1>1, TickKept
<1>4. \A v \in Workers : Fine(request[v], db', overlapped)
  BY <1>1, <1>3, ApartFromNothing, FineKept
<1>5. Alone(request, db')  BY <1>1, <1>3 DEF Alone
<1>6. /\ \A u \in Users \cup ApiKeys \cup Agents : db'[u] = db[u]
      /\ \A i \in Invitations : Here(i, db) => /\ db'[i].organization_id = db[i].organization_id
                                               /\ db'[i].status = db[i].status
  BY <1>1, TickRows
<1>7. UniqueEmail(db')  BY <1>1, <1>6 DEF UniqueEmail
<1>8. Rooted(db')
  <2>1. ASSUME NEW x \in Users \cup Invitations \cup ApiKeys \cup Agents, Here(x, db')
        PROVE  Here(db'[x].organization_id, db')
    <3>1. Here(x, db)  BY <1>3, <2>1 DEF Rows
    <3>2. db'[x].organization_id = db[x].organization_id  BY <1>6, <3>1
    <3>3. db[x].organization_id \in Organizations
      BY <1>1, <3>1, Columns DEF UserRow, InvitationRow, ApiKey, AgentRow
    <3>4. Here(db[x].organization_id, db)  BY <1>1, <3>1 DEF Rooted
    <3> QED  BY <1>3, <3>2, <3>3, <3>4 DEF Rows
  <2> QED  BY <2>1 DEF Rooted
<1>9. Admitted(db', overlapped)
  <2>1. \A u \in Users : (Here(u, db') <=> Here(u, db)) /\ db'[u] = db[u]  BY <1>3, <1>6 DEF Rows
  <2>2. \A i \in Invitations : Here(i, db) => /\ Here(i, db') /\ db'[i].organization_id = db[i].organization_id
                                              /\ db'[i].status = db[i].status
    BY <1>3, <1>6 DEF Rows
  <2> QED  BY <1>1, <2>1, <2>2 DEF Admitted
<1>10. OneSandbox(db', overlapped)
  <2>1. \A e : Founded(e, db', overlapped) \subseteq Founded(e, db, overlapped)  BY <1>1, <1>3, FoundedKept
  <2> QED  BY <1>1, <2>1 DEF OneSandbox
<1>11. Capped(request, db', overlapped)
  <2>1. \A o \in Organizations : Of(Agents, o, db') = Of(Agents, o, db)  BY <1>3, AgentsKept
  <2>2. \A o \in Organizations : Sandbox(o, db') => Sandbox(o, db)
    BY <1>3 DEF Sandbox, Rows, Kept, KeptOrganizations
  <2> QED  BY <1>1, <2>1, <2>2 DEF Capped
<1> QED  BY <1>1, <1>2, <1>3, <1>4, <1>5, <1>7, <1>8, <1>9, <1>10, <1>11 DEF Inv

\* A call that has read: r is its worker's request from now on.
Loaded(r, w, t, reqs) ==
    /\ DOMAIN r = {"stage", "op", "writes", "reads", "script"} /\ r.stage = "loaded" /\ Job(r, t, {})
    /\ \A v \in Workers \ {w} :
          /\ \A x \in Rows : x \in Reserved(r) /\ x \in Reserved(reqs[v]) => Here(x, t)
          /\ Provides(r) \cap Provides(reqs[v]) = {}
    /\ \A a \in Agents \cap DOMAIN r.writes :
          LET o == r.writes[a].organization_id
          IN  Sandbox(o, t) => Cardinality(Of(Agents, o, t)) < MAX_AGENTS_PER_SANDBOX

LEMMA LoadedInv ==
    ASSUME Inv, NEW w \in Workers, NEW r, Loaded(r, w, db, request),
           request' = [request EXCEPT ![w] = r], db' = db,
           overlapped' = overlapped \cup UNION {Touched(request[v]) \cap Touched(r) : v \in Workers \ {w}}
    PROVE  Inv'
<1>1. /\ Typed(db) /\ DOMAIN request = Workers /\ \A v \in Workers : Fine(request[v], db, overlapped)
      /\ Alone(request, db) /\ Exclusive(request, overlapped) /\ Sole(request)
      /\ Rooted(db) /\ Clocked(db) /\ Admitted(db, overlapped) /\ OneSandbox(db, overlapped)
      /\ Capped(request, db, overlapped) /\ UniqueEmail(db) /\ overlapped \subseteq Rows \cup Emails
  BY DEF Inv
<1>2. /\ DOMAIN r = {"stage", "op", "writes", "reads", "script"} /\ r.stage = "loaded" /\ Job(r, db, {})
      /\ r # Idle
  BY DEF Loaded, Idle
<1>3. request'[w] = r /\ DOMAIN request' = Workers /\ \A v \in Workers \ {w} : request'[v] = request[v]
  BY <1>1
<1>4. Touched(r) \subseteq Rows \cup Emails
  <2>1. DOMAIN r.writes \subseteq Rows  BY <1>1, <1>2, JobEffect DEF Effect
  <2>2. r.reads \subseteq Rows \cup Emails  BY <1>2 DEF Job, Reads, Rows
  <2> QED  BY <1>2, <2>1, <2>2 DEF Touched
<1>5. overlapped \subseteq overlapped' /\ overlapped' \subseteq Rows \cup Emails  BY <1>1, <1>4
<1>6. \A v \in Workers : Fine(request'[v], db, overlapped')
  <2>1. Fine(r, db, {})  BY <1>2 DEF Fine
  <2>2. Fine(r, db, overlapped')  BY <2>1, FineLess
  <2>3. \A v \in Workers : Fine(request[v], db, overlapped')  BY <1>1, <1>5, FineLess
  <2> QED  BY <1>3, <2>2, <2>3
<1>7. Alone(request', db)
  <2>1. \A v \in Workers \ {w} : \A x \in Rows : x \in Reserved(r) /\ x \in Reserved(request[v]) => Here(x, db)
    BY DEF Loaded
  <2> QED  BY <1>1, <1>3, <2>1 DEF Alone
<1>8. Exclusive(request', overlapped')
  <2>1. \A v \in Workers \ {w} : Touched(request[v]) \cap Touched(r) \subseteq overlapped'  OBVIOUS
  <2>2. \A v, u \in Workers : v # u => Touched(request[v]) \cap Touched(request[u]) \subseteq overlapped'
    BY <1>1, <1>5 DEF Exclusive
  <2>3. SUFFICES ASSUME NEW v \in Workers, NEW u \in Workers, v # u
                 PROVE  Touched(request'[v]) \cap Touched(request'[u]) \subseteq overlapped'
    BY DEF Exclusive
  <2> QED  BY <1>3, <2>1, <2>2, <2>3
<1>9. Sole(request')
  <2>1. \A v \in Workers \ {w} : Provides(r) \cap Provides(request[v]) = {}  BY DEF Loaded
  <2>2. \A v, u \in Workers : v # u => Provides(request[v]) \cap Provides(request[u]) = {}  BY <1>1 DEF Sole
  <2>3. SUFFICES ASSUME NEW v \in Workers, NEW u \in Workers, v # u
                 PROVE  Provides(request'[v]) \cap Provides(request'[u]) = {}
    BY DEF Sole
  <2> QED  BY <1>3, <2>1, <2>2, <2>3
<1>10. Admitted(db, overlapped') /\ OneSandbox(db, overlapped') /\ Capped(request, db, overlapped')
  BY <1>1, <1>5, TablesLess
<1>11. Capped(request', db, overlapped')
  <2> SUFFICES ASSUME NEW o \in Organizations, Sandbox(o, db)
               PROVE  Cardinality(Of(Agents, o, db)) + Cardinality(Pending(o, request'))
                        < MAX_AGENTS_PER_SANDBOX + Cardinality(Workers)
    BY <1>10 DEF Capped
  <2> DEFINE held == Cardinality(Of(Agents, o, db))
             before == Cardinality(Pending(o, request))
             after == Cardinality(Pending(o, request'))
             all == Cardinality(Workers)
  <2>1. held \in Nat /\ MAX_AGENTS_PER_SANDBOX \in Nat /\ held + before < MAX_AGENTS_PER_SANDBOX + all
    BY <1>1, FS_CardinalityType, ConstantsAssumption DEF Capped
  <2>2. before \in Nat /\ after \in Nat /\ all \in Nat /\ after <= all  BY FinitePending
  <2>3. CASE w \in Pending(o, request')
    <3>1. held < MAX_AGENTS_PER_SANDBOX
      <4>1. PICK a \in Agents \cap DOMAIN r.writes : r.writes[a].organization_id = o  BY <1>3, <2>3 DEF Pending
      <4> QED  BY <4>1 DEF Loaded
    <3> HIDE DEF held, before, after, all
    <3>2. held + after < MAX_AGENTS_PER_SANDBOX + all  BY <2>1, <2>2, <3>1
    <3> QED  BY <3>2 DEF held, after, all
  <2>4. CASE w \notin Pending(o, request')
    <3>1. Pending(o, request') \subseteq Pending(o, request)  BY <1>3, <2>4 DEF Pending
    <3>2. after <= before  BY <3>1, FinitePending, FS_Subset
    <3> HIDE DEF held, before, after, all
    <3>3. held + after < MAX_AGENTS_PER_SANDBOX + all  BY <2>1, <2>2, <3>2
    <3> QED  BY <3>3 DEF held, after, all
  <2> QED  BY <2>3, <2>4
<1> QED  BY <1>1, <1>3, <1>5, <1>6, <1>7, <1>8, <1>9, <1>10, <1>11 DEF Inv

-----------------------------------------------------------------------------
(* The calls, one by one.                                                  *)

LoadedRequest(op, out, script) ==
    [stage |-> "loaded", op |-> op, writes |-> out.writes, reads |-> out.reads, script |-> script]

Good(out) == out.error \in {"ok", "expired"}

LEMMA LoadInv ==
    ASSUME Inv, NEW w \in Workers, NEW script, Load(w, script),
           LET out == Call(Head(script))
               rest == IF out.error = "ok" THEN Tail(script) ELSE << >>
           IN  Good(out) => Loaded(LoadedRequest(Head(script).op, out, rest), w, db, request)
    PROVE  Inv'
<1> DEFINE out == Call(Head(script))
           rest == IF out.error = "ok" THEN Tail(script) ELSE << >>
           op == Head(script).op
           r == LoadedRequest(op, out, rest)
<1>1. CASE ~Good(out)
  <2>1. Answer(w) /\ UNCHANGED <<db, overlapped>>  BY <1>1 DEF Load, Good
  <2> QED  BY <2>1, EndInv
<1>2. CASE Good(out)
  <2>1. Loaded(r, w, db, request)  BY <1>2
  <2>2. request' = [request EXCEPT ![w] = r] /\ db' = db  BY <1>2 DEF Load, Good, LoadedRequest
  <2>3. overlapped' = overlapped \cup UNION {Touched(request[v]) \cap (DOMAIN out.writes \cup out.reads) : v \in Workers \ {w}}
    BY <1>2 DEF Load, Good
  <2>4. Touched(r) = DOMAIN out.writes \cup out.reads
    <3> HIDE DEF out, rest, op
    <3> QED  BY DEF Touched, LoadedRequest
  <2> HIDE DEF r, out
  <2>5. overlapped' = overlapped \cup UNION {Touched(request[v]) \cap Touched(r) : v \in Workers \ {w}}
    BY <2>3, <2>4
  <2> QED  BY <2>1, <2>2, <2>5, LoadedInv
<1> QED  BY <1>1, <1>2

\* A row that nothing has used
Free(x) == ~Here(x, db) /\ \A v \in Workers : x \notin Reserved(request[v])

LEMMA UnusedFree ==
    ASSUME NEW table, NEW x \in Unused(table)
    PROVE  x \in table /\ Free(x)
<1> DEFINE free == {y \in table : ~Exists(y) /\ \A v \in Workers : y \notin Reserved(request[v])}
<1>1. Unused(table) = IF free = {} THEN {} ELSE {CHOOSE y \in free : TRUE}  BY DEF Unused
<1> HIDE DEF free
<1>2. x \in free  BY <1>1
<1> QED  BY <1>2 DEF free, Free, Here, Exists

LEMMA Outcomes ==
    /\ \A writes, reads : /\ Write(writes, reads).error = "ok" /\ Write(writes, reads).writes = writes
                          /\ Write(writes, reads).reads = reads
                          /\ DOMAIN Write(writes, reads) = {"error", "writes", "reads"}
    /\ \A error : Raise(error).error = error /\ DOMAIN Raise(error) = {"error", "writes", "reads"}
  BY DEF Write, Raise

\* The organisation's requests are served while it is active.
LEMMA Served ==
    ASSUME NEW o, NEW out, DOMAIN out = {"error", "writes", "reads"}, Good(ensure_active_or_403(o, out))
    PROVE  /\ Here(o, db) /\ db[o].status = "active"
           /\ Good(out)
           /\ ensure_active_or_403(o, out).error = out.error
           /\ ensure_active_or_403(o, out).writes = out.writes
           /\ ensure_active_or_403(o, out).reads = out.reads \cup {o}
<1>1. get_current_organization(o)  BY Outcomes DEF ensure_active_or_403, Good
<1>2. ensure_active_or_403(o, out) = [out EXCEPT !.reads = out.reads \cup {o}]  BY <1>1 DEF ensure_active_or_403
<1> HIDE DEF ensure_active_or_403
<1> QED  BY <1>1, <1>2 DEF get_current_organization, Exists, Here, Good

\* The last call of a script, unless it hands out the key of a sandbox
LEMMA SimpleLoad ==
    ASSUME Inv, NEW w \in Workers, NEW script, Load(w, script), Tail(script) = << >>,
           NEW c, Head(script) = c, NEW op, c.op = op, op # "sandbox_key",
           NEW out, Call(c) = out, NEW r, r = LoadedRequest(op, out, << >>),
           Good(out) =>
               /\ Job(r, db, {})
               /\ \A x \in Rows \cap (DOMAIN out.writes \cup out.reads) :
                     Here(x, db) \/ \A v \in Workers : x \notin Reserved(request[v])
               /\ \A a \in Agents \cap DOMAIN out.writes :
                     LET o == out.writes[a].organization_id
                     IN  Sandbox(o, db) => Cardinality(Of(Agents, o, db)) < MAX_AGENTS_PER_SANDBOX
    PROVE  Inv'
<1>1. /\ DOMAIN r = {"stage", "op", "writes", "reads", "script"} /\ r.stage = "loaded" /\ r.op = op
      /\ r.writes = out.writes /\ r.reads = out.reads /\ r.script = << >>
  BY DEF LoadedRequest
<1>2. r # Idle  BY <1>1 DEF Idle
<1>3. Range(r.script) = {}  BY <1>1 DEF Range
<1>4. Reserved(r) = DOMAIN out.writes \cup out.reads /\ Provides(r) = {}
  BY <1>1, <1>2, <1>3 DEF Reserved, Touched, Provides, KeyCalls
<1>5. Good(out) => Loaded(r, w, db, request)  BY <1>1, <1>4 DEF Loaded
<1>6. (IF out.error = "ok" THEN Tail(script) ELSE << >>) = << >>  OBVIOUS
<1> QED  BY <1>5, <1>6, LoadInv

LEMMA CreateLoad ==
    ASSUME Inv, NEW w \in Workers, NEW o \in Unused(Organizations), NEW u \in Unused(Users), NEW e \in Emails,
           NEW op \in {"bootstrap", "create"},
           Load(w, <<[op |-> op, organization |-> o, user |-> u, email |-> e]>>)
    PROVE  Inv'
<1> DEFINE c == [op |-> op, organization |-> o, user |-> u, email |-> e]
           out == Call(c)
           r == LoadedRequest(op, out, << >>)
           writes == [x \in {o, u} |-> IF x = o THEN NewOrganization("production")
                                       ELSE NewUser(o, e, "owner", "founder")]
<1>1. c.op = op /\ c.organization = o /\ c.user = u /\ c.email = e  OBVIOUS
<1>2. Head(<<c>>) = c /\ Tail(<<c>>) = << >>  OBVIOUS
<1>3. o \in Organizations /\ Free(o) /\ u \in Users /\ Free(u)  BY UnusedFree
<1>4. ASSUME Good(out) PROVE out.writes = writes /\ out.reads = {}
  <2>1. CASE op = "bootstrap"
    <3>1. out = ensure_owner_bootstrapped(o, u, e)  BY <2>1 DEF Call
    <3>2. out = create_organization(o, u, e, "production")
      BY <1>4, <3>1, Outcomes DEF ensure_owner_bootstrapped, Good
    <3> QED  BY <3>2, Outcomes DEF create_organization
  <2>2. CASE op = "create"
    <3>1. out = create_organization(o, u, e, "production")  BY <2>2 DEF Call
    <3> QED  BY <3>1, Outcomes DEF create_organization
  <2> QED  BY <2>1, <2>2
<1> HIDE DEF c, out
<1>5. r.op = op /\ r.script = << >> /\ r.writes = out.writes /\ r.reads = out.reads  BY DEF LoadedRequest
<1> HIDE DEF r
<1>6. ASSUME Good(out) PROVE Job(r, db, {})
  <2>1. Founding(r, db, {})  BY <1>3, <1>4, <1>5, <1>6 DEF Founding, Simple, Free
  <2>2. Reads(r, db, {})  BY <1>4, <1>5, <1>6 DEF Reads
  <2> QED  BY <2>1, <2>2 DEF Job
<1>7. ASSUME Good(out)
      PROVE  /\ \A x \in Rows \cap (DOMAIN out.writes \cup out.reads) :
                   Here(x, db) \/ \A v \in Workers : x \notin Reserved(request[v])
             /\ Agents \cap DOMAIN out.writes = {}
  <2>1. DOMAIN out.writes \cup out.reads = {o, u}  BY <1>4, <1>7
  <2> QED  BY <1>3, <2>1, Disjoint DEF Free
<1> QED  BY <1>1, <1>2, <1>6, <1>7, SimpleLoad DEF r, out, c

LEMMA StatusLoad ==
    ASSUME Inv, NEW w \in Workers, NEW o \in Organizations, NEW op \in {"deactivate", "reactivate", "archive"},
           NEW script, Load(w, script), Head(script) = [op |-> op, organization |-> o],
           Tail(script) \in {<< >>, ArchiveScript(o)}
    PROVE  Inv'
<1> DEFINE c == [op |-> op, organization |-> o]
           out == Call(c)
           r == LoadedRequest(op, out, Tail(script))
<1>1. c.op = op /\ c.organization = o  OBVIOUS
<1>2. ASSUME Good(out)
      PROVE  /\ out.error = "ok" /\ out.reads = {} /\ Here(o, db)
             /\ \E step \in Transitions : out.writes = Row(o, [status |-> step[2]]) /\ db[o].status = step[1]
  <2>1. \E step \in Transitions : out = StatusChange(o, step[1], step[2])
    <3>1. CASE op = "deactivate"
      <4>1. out = StatusChange(o, "active", "deactivated")  BY <3>1 DEF Call, deactivate_organization
      <4> QED  BY <4>1 DEF Transitions
    <3>2. CASE op = "reactivate"
      <4>1. out = StatusChange(o, "deactivated", "active")  BY <3>2 DEF Call, reactivate_organization
      <4> QED  BY <4>1 DEF Transitions
    <3>3. CASE op = "archive"
      <4>1. out = StatusChange(o, "deactivated", "archived")  BY <3>3 DEF Call, archive_organization
      <4> QED  BY <4>1 DEF Transitions
    <3> QED  BY <3>1, <3>2, <3>3
  <2> HIDE DEF out
  <2>2. PICK step \in Transitions : out = StatusChange(o, step[1], step[2])  BY <2>1
  <2>3. Exists(o) /\ db[o].status = step[1] /\ out = Write(Row(o, [status |-> step[2]]), {})
    BY <1>2, <2>2, Outcomes DEF StatusChange, Good
  <2> QED  BY <2>3, Outcomes DEF Exists, Here
<1> HIDE DEF c, out
<1>3. /\ DOMAIN r = {"stage", "op", "writes", "reads", "script"} /\ r.stage = "loaded" /\ r.op = op
      /\ r.script = Tail(script) /\ r.writes = out.writes /\ r.reads = out.reads
  BY DEF LoadedRequest
<1> HIDE DEF r
<1>4. ASSUME Good(out) PROVE Loaded(r, w, db, request)
  <2>1. Job(r, db, {})
    <3>1. ChangingStatus(r, db, {})
      <4>1. PICK step \in Transitions : out.writes = Row(o, [status |-> step[2]]) /\ db[o].status = step[1]
        BY <1>2, <1>4
      <4>2. r.op # "sandbox_key"  BY <1>3
      <4>3. Here(o, db)  BY <1>2, <1>4
      <4> QED  BY <1>3, <4>1, <4>2, <4>3 DEF ChangingStatus
    <3>2. Reads(r, db, {})  BY <1>2, <1>3, <1>4 DEF Reads
    <3> QED  BY <3>1, <3>2 DEF Job
  <2>2. DOMAIN r.writes = {o} /\ r.reads = {}  BY <1>2, <1>3, <1>4 DEF Row
  <2>3. {x \in Range(r.script) : x.op = "sandbox_key"} = {}
    <3>1. CASE r.script = << >>  BY <3>1 DEF Range
    <3>2. CASE r.script = ArchiveScript(o)
      <4>1. Range(r.script) = {[op |-> "archive", organization |-> o]}  BY <3>2 DEF Range, ArchiveScript
      <4> QED  BY <4>1
    <3> QED  BY <1>3, <3>1, <3>2
  <2>4. Reserved(r) \subseteq {o} /\ Provides(r) = {}
    BY <1>3, <2>2, <2>3 DEF Reserved, Touched, Provides, KeyCalls
  <2>5. Agents \cap DOMAIN r.writes = {}  BY <2>2, Disjoint
  <2> QED  BY <1>2, <1>3, <1>4, <2>1, <2>4, <2>5 DEF Loaded
<1>5. Good(out) => (IF out.error = "ok" THEN Tail(script) ELSE << >>) = Tail(script)  BY <1>2
<1> QED  BY <1>1, <1>4, <1>5, LoadInv DEF r, out, c

LEMMA SettingsLoad ==
    ASSUME Inv, NEW w \in Workers, NEW o \in Organizations, NEW tab \in Tabs,
           NEW op \in {"settings", "platform_settings"},
           Load(w, <<[op |-> op, organization |-> o, tab |-> tab]>>)
    PROVE  Inv'
<1> DEFINE c == [op |-> op, organization |-> o, tab |-> tab]
           out == Call(c)
           r == LoadedRequest(op, out, << >>)
           tabs == db[o].settings \cup {tab}
<1>1. c.op = op /\ c.organization = o /\ c.tab = tab  OBVIOUS
<1>2. Head(<<c>>) = c /\ Tail(<<c>>) = << >>  OBVIOUS
<1>3. update_settings(o, tab) = Write(Row(o, [settings |-> tabs]), {})  BY DEF update_settings
<1>4. ASSUME Good(out)
      PROVE  /\ out.writes = Row(o, [settings |-> tabs]) /\ out.reads \subseteq {o} /\ Here(o, db)
             /\ o \in out.reads => db[o].status = "active"
  <2>1. CASE op = "settings"
    <3>1. out = ensure_active_or_403(o, update_settings(o, tab))  BY <2>1 DEF Call
    <3> HIDE DEF out
    <3>2. DOMAIN update_settings(o, tab) = {"error", "writes", "reads"}  BY <1>3, Outcomes
    <3>3. /\ Here(o, db) /\ db[o].status = "active" /\ out.writes = update_settings(o, tab).writes
          /\ out.reads = update_settings(o, tab).reads \cup {o}
      BY <1>4, <3>1, <3>2, Served
    <3>4. update_settings(o, tab).writes = Row(o, [settings |-> tabs]) /\ update_settings(o, tab).reads = {}
      BY <1>3, Outcomes
    <3> QED  BY <3>3, <3>4
  <2>2. CASE op = "platform_settings"
    <3>1. out = IF Exists(o) THEN update_settings(o, tab) ELSE Raise("not_found")  BY <2>2 DEF Call
    <3> HIDE DEF out
    <3>2. Exists(o) /\ out = update_settings(o, tab)  BY <1>4, <3>1, Outcomes DEF Good
    <3>3. out.writes = Row(o, [settings |-> tabs]) /\ out.reads = {}  BY <1>3, <3>2, Outcomes
    <3> QED  BY <3>2, <3>3 DEF Exists, Here
  <2> QED  BY <2>1, <2>2
<1> HIDE DEF c, out
<1>5. r.op = op /\ r.script = << >> /\ r.writes = out.writes /\ r.reads = out.reads  BY DEF LoadedRequest
<1> HIDE DEF r
<1>6. ASSUME Good(out) PROVE Job(r, db, {})
  <2>1. Here(o, db) /\ r.writes = Row(o, [settings |-> tabs])  BY <1>4, <1>5, <1>6
  <2>2. tabs \in SUBSET Tabs /\ db[o].settings \subseteq tabs
    <3>1. db[o] \in OrganizationRow  BY <2>1, Columns DEF Inv
    <3> QED  BY <3>1 DEF OrganizationRow
  <2>3. Simple(r)  BY <1>5 DEF Simple
  <2> HIDE DEF tabs
  <2>4. SavingSettings(r, db, {})  BY <2>1, <2>2, <2>3 DEF SavingSettings
  <2>5. Reads(r, db, {})  BY <1>4, <1>5, <1>6 DEF Reads
  <2> QED  BY <2>4, <2>5 DEF Job
<1>7. ASSUME Good(out)
      PROVE  /\ \A x \in Rows \cap (DOMAIN out.writes \cup out.reads) :
                   Here(x, db) \/ \A v \in Workers : x \notin Reserved(request[v])
             /\ Agents \cap DOMAIN out.writes = {}
  <2>1. DOMAIN out.writes = {o} /\ out.reads \subseteq {o} /\ Here(o, db)  BY <1>4, <1>7 DEF Row
  <2> QED  BY <2>1, Disjoint
<1> QED  BY <1>1, <1>2, <1>6, <1>7, SimpleLoad DEF r, out, c

LEMMA AgentLoad ==
    ASSUME Inv, NEW w \in Workers, NEW o \in Organizations, NEW a \in Unused(Agents),
           Load(w, <<[op |-> "agent", organization |-> o, agent |-> a]>>)
    PROVE  Inv'
<1> DEFINE c == [op |-> "agent", organization |-> o, agent |-> a]
           out == Call(c)
           r == LoadedRequest("agent", out, << >>)
           columns == [status |-> "registered", organization_id |-> o]
           small == Sandbox(o, db) => Cardinality(Of(Agents, o, db)) < MAX_AGENTS_PER_SANDBOX
<1>1. c.op = "agent" /\ c.organization = o /\ c.agent = a  OBVIOUS
<1>2. Head(<<c>>) = c /\ Tail(<<c>>) = << >>  OBVIOUS
<1>3. a \in Agents /\ Free(a)  BY UnusedFree
<1>4. ASSUME Good(out)
      PROVE  /\ out.writes = Row(a, columns) /\ out.reads = {o} /\ Here(o, db) /\ db[o].status = "active"
             /\ small
  <2>1. out = ensure_active_or_403(o, register_agent(a, o))  BY DEF Call
  <2> HIDE DEF out, columns
  <2>2. DOMAIN register_agent(a, o) = {"error", "writes", "reads"}  BY Outcomes DEF register_agent
  <2>3. /\ Here(o, db) /\ db[o].status = "active" /\ Good(register_agent(a, o))
        /\ out.writes = register_agent(a, o).writes /\ out.reads = register_agent(a, o).reads \cup {o}
    BY <1>4, <2>1, <2>2, Served
  <2>4. /\ ~(is_sandbox_organization(o) /\ Cardinality(In(Agents, o)) >= MAX_AGENTS_PER_SANDBOX)
        /\ register_agent(a, o) = Write(Row(a, columns), {})
    BY <2>3, Outcomes DEF register_agent, Good, columns
  <2>5. In(Agents, o) = Of(Agents, o, db)  BY DEF In, Of, Exists, Here
  <2>6. is_sandbox_organization(o) <=> Sandbox(o, db)  BY DEF is_sandbox_organization, Sandbox, Exists, Here
  <2>7. Cardinality(Of(Agents, o, db)) \in Nat  BY FS_CardinalityType DEF Inv, Capped
  <2>8. small  BY <2>4, <2>5, <2>6, <2>7, ConstantsAssumption
  <2> QED  BY <2>3, <2>4, <2>8, Outcomes
<1> HIDE DEF c, out
<1>5. r.op = "agent" /\ r.script = << >> /\ r.writes = out.writes /\ r.reads = out.reads  BY DEF LoadedRequest
<1> HIDE DEF r
<1>6. ASSUME Good(out) PROVE Job(r, db, {})
  <2>1. r.writes = Row(a, columns) /\ o \in r.reads /\ small  BY <1>4, <1>5, <1>6
  <2>2. Simple(r) /\ ~Here(a, db)  BY <1>3, <1>5 DEF Simple, Free
  <2>3. AddingAgent(r, db, {})  BY <1>3, <2>1, <2>2 DEF AddingAgent
  <2>4. Reads(r, db, {})  BY <1>4, <1>5, <1>6 DEF Reads
  <2> QED  BY <2>3, <2>4 DEF Job
<1>7. ASSUME Good(out)
      PROVE  /\ \A x \in Rows \cap (DOMAIN out.writes \cup out.reads) :
                   Here(x, db) \/ \A v \in Workers : x \notin Reserved(request[v])
             /\ \A b \in Agents \cap DOMAIN out.writes :
                   LET p == out.writes[b].organization_id
                   IN  Sandbox(p, db) => Cardinality(Of(Agents, p, db)) < MAX_AGENTS_PER_SANDBOX
  <2>1. DOMAIN out.writes = {a} /\ out.writes[a] = columns /\ out.reads = {o} /\ Here(o, db) /\ small
    <3> HIDE DEF columns
    <3> QED  BY <1>4, <1>7 DEF Row
  <2> QED  BY <1>3, <2>1 DEF Free
<1> QED  BY <1>1, <1>2, <1>6, <1>7, SimpleLoad DEF r, out, c

LEMMA InviteLoad ==
    ASSUME Inv, NEW w \in Workers, NEW o \in Organizations, NEW i \in Unused(Invitations), NEW e \in Emails,
           NEW role \in Role,
           Load(w, <<[op |-> "invite", organization |-> o, invitation |-> i, email |-> e, role |-> role]>>)
    PROVE  Inv'
<1> DEFINE c == [op |-> "invite", organization |-> o, invitation |-> i, email |-> e, role |-> role]
           out == Call(c)
           r == LoadedRequest("invite", out, << >>)
           columns == [status |-> "pending", organization_id |-> o, email |-> e,
                       role |-> role, left |-> InvitationValidity]
<1>1. c.op = "invite"  OBVIOUS
<1>2. Head(<<c>>) = c /\ Tail(<<c>>) = << >>  OBVIOUS
<1>3. i \in Invitations /\ Free(i)  BY UnusedFree
<1>4. ASSUME Good(out)
      PROVE  out.writes = Row(i, columns) /\ out.reads = {e, o} /\ Here(o, db) /\ db[o].status = "active"
  <2> DEFINE call == invite_member(i, o, e, role)
  <2>1. out = ensure_active_or_403(o, call)  BY DEF Call
  <2>2. call = IF Registered(o, e) THEN Raise("email_already_exists") ELSE Write(Row(i, columns), {e})
    BY DEF invite_member
  <2> HIDE DEF out, columns, call
  <2>3. DOMAIN call = {"error", "writes", "reads"}  BY <2>2, Outcomes
  <2>4. /\ Here(o, db) /\ db[o].status = "active" /\ Good(call)
        /\ out.writes = call.writes /\ out.reads = call.reads \cup {o}
    BY <1>4, <2>1, <2>3, Served
  <2>5. call = Write(Row(i, columns), {e})  BY <2>2, <2>4, Outcomes DEF Good
  <2> QED  BY <2>4, <2>5, Outcomes
<1> HIDE DEF c, out
<1>5. r.op = "invite" /\ r.script = << >> /\ r.writes = out.writes /\ r.reads = out.reads  BY DEF LoadedRequest
<1> HIDE DEF r
<1>6. ASSUME Good(out) PROVE Job(r, db, {})
  <2>1. r.writes = Row(i, columns) /\ o \in r.reads  BY <1>4, <1>5, <1>6
  <2>2. Simple(r) /\ ~Here(i, db)  BY <1>3, <1>5 DEF Simple, Free
  <2>3. Inviting(r, db)  BY <1>3, <2>1, <2>2 DEF Inviting
  <2>4. Reads(r, db, {})  BY <1>4, <1>5, <1>6, Disjoint DEF Reads
  <2> QED  BY <2>3, <2>4 DEF Job
<1>7. ASSUME Good(out)
      PROVE  /\ \A x \in Rows \cap (DOMAIN out.writes \cup out.reads) :
                   Here(x, db) \/ \A v \in Workers : x \notin Reserved(request[v])
             /\ Agents \cap DOMAIN out.writes = {}
  <2>1. DOMAIN out.writes = {i} /\ out.reads = {e, o} /\ Here(o, db)
    <3> HIDE DEF columns
    <3> QED  BY <1>4, <1>7 DEF Row
  <2>2. e \notin Rows  BY Disjoint DEF Rows
  <2> QED  BY <1>3, <2>1, <2>2, Disjoint DEF Free
<1> QED  BY <1>1, <1>2, <1>6, <1>7, SimpleLoad DEF r, out, c

LEMMA CreateUserLoad ==
    ASSUME Inv, NEW w \in Workers, NEW o \in Organizations, NEW u \in Unused(Users), NEW e \in Emails,
           NEW role \in Role,
           Load(w, <<[op |-> "create_user", organization |-> o, user |-> u, email |-> e, role |-> role]>>)
    PROVE  Inv'
<1> DEFINE c == [op |-> "create_user", organization |-> o, user |-> u, email |-> e, role |-> role]
           out == Call(c)
           r == LoadedRequest("create_user", out, << >>)
<1>1. c.op = "create_user"  OBVIOUS
<1>2. Head(<<c>>) = c /\ Tail(<<c>>) = << >>  OBVIOUS
<1>3. u \in Users /\ Free(u)  BY UnusedFree
<1>4. ASSUME Good(out)
      PROVE  /\ out.writes = Row(u, NewUser(o, e, role, NONE)) /\ out.reads = {e, o}
             /\ Here(o, db) /\ db[o].status = "active"
  <2> DEFINE call == create_user(o, u, e, role)
  <2>1. out = ensure_active_or_403(o, call)  BY DEF Call
  <2>2. call = IF Registered(o, e) THEN Raise("email_already_exists")
               ELSE Write(Row(u, NewUser(o, e, role, NONE)), {e})
    BY DEF create_user
  <2> HIDE DEF out, call
  <2>3. DOMAIN call = {"error", "writes", "reads"}  BY <2>2, Outcomes
  <2>4. /\ Here(o, db) /\ db[o].status = "active" /\ Good(call)
        /\ out.writes = call.writes /\ out.reads = call.reads \cup {o}
    BY <1>4, <2>1, <2>3, Served
  <2>5. call = Write(Row(u, NewUser(o, e, role, NONE)), {e})  BY <2>2, <2>4, Outcomes DEF Good
  <2> QED  BY <2>4, <2>5, Outcomes
<1> HIDE DEF c, out
<1>5. r.op = "create_user" /\ r.script = << >> /\ r.writes = out.writes /\ r.reads = out.reads  BY DEF LoadedRequest
<1> HIDE DEF r
<1>6. ASSUME Good(out) PROVE Job(r, db, {})
  <2>1. r.writes = Row(u, NewUser(o, e, role, NONE)) /\ o \in r.reads  BY <1>4, <1>5, <1>6
  <2>2. Simple(r) /\ ~Here(u, db)  BY <1>3, <1>5 DEF Simple, Free
  <2>3. AddingUser(r, db)  BY <1>3, <2>1, <2>2 DEF AddingUser
  <2>4. Reads(r, db, {})  BY <1>4, <1>5, <1>6, Disjoint DEF Reads
  <2> QED  BY <2>3, <2>4 DEF Job
<1>7. ASSUME Good(out)
      PROVE  /\ \A x \in Rows \cap (DOMAIN out.writes \cup out.reads) :
                   Here(x, db) \/ \A v \in Workers : x \notin Reserved(request[v])
             /\ Agents \cap DOMAIN out.writes = {}
  <2>1. DOMAIN out.writes = {u} /\ out.reads = {e, o} /\ Here(o, db)  BY <1>4, <1>7 DEF Row
  <2>2. e \notin Rows  BY Disjoint DEF Rows
  <2> QED  BY <1>3, <2>1, <2>2, Disjoint DEF Free
<1> QED  BY <1>1, <1>2, <1>6, <1>7, SimpleLoad DEF r, out, c

LEMMA UninviteLoad ==
    ASSUME Inv, NEW w \in Workers, NEW o \in Organizations, NEW i \in Invitations,
           Load(w, <<[op |-> "uninvite", organization |-> o, invitation |-> i]>>)
    PROVE  Inv'
<1> DEFINE c == [op |-> "uninvite", organization |-> o, invitation |-> i]
           out == Call(c)
           r == LoadedRequest("uninvite", out, << >>)
<1>1. c.op = "uninvite"  OBVIOUS
<1>2. Head(<<c>>) = c /\ Tail(<<c>>) = << >>  OBVIOUS
<1>4. ASSUME Good(out)
      PROVE  /\ out.writes = Row(i, [status |-> "revoked"]) /\ out.reads = {o}
             /\ Here(o, db) /\ db[o].status = "active" /\ Here(i, db) /\ db[i].status = "pending"
  <2> DEFINE call == revoke_invitation(i, o)
  <2>1. out = ensure_active_or_403(o, call)  BY DEF Call
  <2>2. call = IF ~Exists(i) \/ db[i].organization_id # o THEN Raise("invitation_not_found")
               ELSE IF db[i].status # "pending" THEN Raise("not_pending")
               ELSE Write(Row(i, [status |-> "revoked"]), {})
    BY DEF revoke_invitation
  <2> HIDE DEF out, call
  <2>3. DOMAIN call = {"error", "writes", "reads"}  BY <2>2, Outcomes
  <2>4. /\ Here(o, db) /\ db[o].status = "active" /\ Good(call)
        /\ out.writes = call.writes /\ out.reads = call.reads \cup {o}
    BY <1>4, <2>1, <2>3, Served
  <2>5. Exists(i) /\ db[i].status = "pending" /\ call = Write(Row(i, [status |-> "revoked"]), {})
    BY <2>2, <2>4, Outcomes DEF Good
  <2> QED  BY <2>4, <2>5, Outcomes DEF Exists, Here
<1> HIDE DEF c, out
<1>5. r.op = "uninvite" /\ r.script = << >> /\ r.writes = out.writes /\ r.reads = out.reads  BY DEF LoadedRequest
<1> HIDE DEF r
<1>6. ASSUME Good(out) PROVE Job(r, db, {})
  <2>1. r.writes = Row(i, [status |-> "revoked"]) /\ Here(i, db) /\ db[i].status = "pending"  BY <1>4, <1>5, <1>6
  <2>2. Simple(r)  BY <1>5 DEF Simple
  <2>3. ClosingInvitation(r, db, {})  BY <2>1, <2>2 DEF ClosingInvitation
  <2>4. Reads(r, db, {})  BY <1>4, <1>5, <1>6 DEF Reads
  <2> QED  BY <2>3, <2>4 DEF Job
<1>7. ASSUME Good(out)
      PROVE  /\ \A x \in Rows \cap (DOMAIN out.writes \cup out.reads) :
                   Here(x, db) \/ \A v \in Workers : x \notin Reserved(request[v])
             /\ Agents \cap DOMAIN out.writes = {}
  <2>1. DOMAIN out.writes = {i} /\ out.reads = {o} /\ Here(o, db) /\ Here(i, db)  BY <1>4, <1>7 DEF Row
  <2> QED  BY <2>1, Disjoint
<1> QED  BY <1>1, <1>2, <1>6, <1>7, SimpleLoad DEF r, out, c

LEMMA AcceptLoad ==
    ASSUME Inv, NEW w \in Workers, NEW i \in Invitations, NEW u \in Unused(Users),
           Load(w, <<[op |-> "accept", invitation |-> i, user |-> u]>>)
    PROVE  Inv'
<1> DEFINE c == [op |-> "accept", invitation |-> i, user |-> u]
           out == Call(c)
           r == LoadedRequest("accept", out, << >>)
           writes == [x \in {u, i} |-> IF x = i THEN [status |-> "accepted"]
                          ELSE NewUser(db[i].organization_id, db[i].email, db[i].role, i)]
<1>1. c.op = "accept"  OBVIOUS
<1>2. Head(<<c>>) = c /\ Tail(<<c>>) = << >>  OBVIOUS
<1>3. u \in Users /\ Free(u)  BY UnusedFree
<1>4. ASSUME Good(out)
      PROVE  /\ Here(i, db) /\ db[i].status = "pending"
             /\ \/ out.writes = Row(i, [status |-> "expired"]) /\ out.reads = {}
                \/ out.writes = writes /\ out.reads = {db[i].email}
  <2>1. out = accept_invitation(i, u)  BY DEF Call
  <2> DEFINE expired == [error |-> "expired", writes |-> Row(i, [status |-> "expired"]), reads |-> {}]
  <2>2. out = IF ~Exists(i) THEN Raise("invitation_not_found")
              ELSE IF db[i].status # "pending" THEN Raise("not_pending")
              ELSE IF db[i].left = 0 THEN expired
              ELSE IF Registered(db[i].organization_id, db[i].email) THEN Raise("email_already_exists")
              ELSE Write(writes, {db[i].email})
    BY <2>1 DEF accept_invitation
  <2>3. expired.writes = Row(i, [status |-> "expired"]) /\ expired.reads = {}  OBVIOUS
  <2> HIDE DEF out, expired, writes
  <2>4. /\ Exists(i) /\ db[i].status = "pending"
        /\ out = expired \/ out = Write(writes, {db[i].email})
    BY <1>4, <2>2, Outcomes DEF Good
  <2> QED  BY <2>3, <2>4, Outcomes DEF Exists, Here
<1> HIDE DEF c, out
<1>5. r.op = "accept" /\ r.script = << >> /\ r.writes = out.writes /\ r.reads = out.reads  BY DEF LoadedRequest
<1> HIDE DEF r
<1>8. Here(i, db) => db[i].email \in Emails  BY Columns DEF Inv, InvitationRow
<1>6. ASSUME Good(out) PROVE Job(r, db, {})
  <2>1. Simple(r) /\ ~Here(u, db)  BY <1>3, <1>5 DEF Simple, Free
  <2>2. Here(i, db) /\ db[i].status = "pending"  BY <1>4, <1>6
  <2>3. CASE r.writes = Row(i, [status |-> "expired"])
    <3>1. ClosingInvitation(r, db, {})  BY <2>1, <2>2, <2>3 DEF ClosingInvitation
    <3>2. Reads(r, db, {})  BY <1>4, <1>5, <1>6, <1>8, Disjoint DEF Reads
    <3> QED  BY <3>1, <3>2 DEF Job
  <2>4. CASE r.writes = writes
    <3>1. Accepting(r, db, {})  BY <1>3, <2>1, <2>2, <2>4 DEF Accepting
    <3>2. Reads(r, db, {})  BY <1>4, <1>5, <1>6, <1>8, Disjoint DEF Reads
    <3> QED  BY <3>1, <3>2 DEF Job
  <2> HIDE DEF writes
  <2> QED  BY <1>4, <1>5, <1>6, <2>3, <2>4
<1>7. ASSUME Good(out)
      PROVE  /\ \A x \in Rows \cap (DOMAIN out.writes \cup out.reads) :
                   Here(x, db) \/ \A v \in Workers : x \notin Reserved(request[v])
             /\ Agents \cap DOMAIN out.writes = {}
  <2>1. DOMAIN Row(i, [status |-> "expired"]) = {i} /\ DOMAIN writes = {u, i}  BY DEF Row
  <2> HIDE DEF writes
  <2>2. DOMAIN out.writes \subseteq {u, i} /\ out.reads \subseteq {db[i].email} /\ Here(i, db)  BY <1>4, <1>7, <2>1
  <2>3. db[i].email \notin Rows  BY <1>8, <2>2, Disjoint DEF Rows
  <2> QED  BY <1>3, <2>2, <2>3, Disjoint DEF Free
<1> QED  BY <1>1, <1>2, <1>6, <1>7, SimpleLoad DEF r, out, c

\* update_user_role, update_user_status, setup_owner
LEMMA EditLoad ==
    ASSUME Inv, NEW w \in Workers, NEW o \in Organizations, NEW u \in Users, NEW script, Load(w, script),
           Tail(script) = << >>, NEW c, Head(script) = c, NEW op, c.op = op, op # "sandbox_key",
           NEW call, Call(c) = ensure_active_or_403(o, call), DOMAIN call = {"error", "writes", "reads"},
           Good(call) => /\ Here(u, db) /\ \E columns \in UserColumns : call.writes = Row(u, columns)
                         /\ call.reads \subseteq Emails
    PROVE  Inv'
<1> DEFINE out == Call(c)
           r == LoadedRequest(op, out, << >>)
<1>1. ASSUME Good(out)
      PROVE  /\ Here(o, db) /\ db[o].status = "active" /\ Here(u, db)
             /\ \E columns \in UserColumns : out.writes = Row(u, columns)
             /\ out.reads \subseteq Emails \cup {o}
  <2>1. Good(ensure_active_or_403(o, call))  BY <1>1
  <2>2. /\ Here(o, db) /\ db[o].status = "active" /\ Good(call)
        /\ ensure_active_or_403(o, call).writes = call.writes
        /\ ensure_active_or_403(o, call).reads = call.reads \cup {o}
    BY <2>1, Served
  <2>3. out.writes = call.writes /\ out.reads = call.reads \cup {o}  BY <2>2
  <2> HIDE DEF out
  <2> QED  BY <2>2, <2>3
<1> HIDE DEF out
<1>2. r.op = op /\ r.script = << >> /\ r.writes = out.writes /\ r.reads = out.reads  BY DEF LoadedRequest
<1> HIDE DEF r
<1>3. ASSUME Good(out) PROVE Job(r, db, {})
  <2>1. Simple(r)  BY <1>2 DEF Simple
  <2>2. EditingUser(r, db)  BY <1>1, <1>2, <1>3, <2>1 DEF EditingUser
  <2>3. Reads(r, db, {})  BY <1>1, <1>2, <1>3, Disjoint DEF Reads
  <2> QED  BY <2>2, <2>3 DEF Job
<1>4. ASSUME Good(out)
      PROVE  /\ \A x \in Rows \cap (DOMAIN out.writes \cup out.reads) :
                   Here(x, db) \/ \A v \in Workers : x \notin Reserved(request[v])
             /\ Agents \cap DOMAIN out.writes = {}
  <2>1. DOMAIN out.writes = {u} /\ out.reads \subseteq Emails \cup {o} /\ Here(o, db) /\ Here(u, db)
    BY <1>1, <1>4 DEF Row
  <2>2. Emails \cap Rows = {}  BY Disjoint DEF Rows
  <2> QED  BY <2>1, <2>2, Disjoint
<1> QED  BY <1>3, <1>4, SimpleLoad DEF r, out

LEMMA RoleLoad ==
    ASSUME Inv, NEW w \in Workers, NEW o \in Organizations, NEW u \in Users, NEW role \in Role,
           Load(w, <<[op |-> "role", organization |-> o, user |-> u, role |-> role]>>)
    PROVE  Inv'
<1> DEFINE c == [op |-> "role", organization |-> o, user |-> u, role |-> role]
           columns == [role |-> role, edited |-> TRUE]
           call == update_user_role(o, u, role)
<1>1. Head(<<c>>) = c /\ Tail(<<c>>) = << >> /\ c.op = "role"  OBVIOUS
<1>2. Call(c) = ensure_active_or_403(o, call)  BY DEF Call
<1>3. columns \in UserColumns  BY DEF UserColumns
<1>4. call = IF ~GetOrgUser(o, u) THEN Raise("user_not_found") ELSE Write(Row(u, columns), {})
  BY DEF update_user_role
<1> HIDE DEF c, columns, call
<1>5. DOMAIN call = {"error", "writes", "reads"}  BY <1>4, Outcomes
<1>6. ASSUME Good(call) PROVE Here(u, db) /\ call.writes = Row(u, columns) /\ call.reads = {}
  <2>1. GetOrgUser(o, u) /\ call = Write(Row(u, columns), {})  BY <1>4, <1>6, Outcomes DEF Good
  <2> QED  BY <2>1, Outcomes DEF GetOrgUser, In, Exists, Here
<1> QED  BY <1>1, <1>2, <1>3, <1>5, <1>6, EditLoad DEF c

LEMMA UserStatusLoad ==
    ASSUME Inv, NEW w \in Workers, NEW o \in Organizations, NEW u \in Users, NEW status \in {"active", "disabled"},
           Load(w, <<[op |-> "user_status", organization |-> o, user |-> u, status |-> status]>>)
    PROVE  Inv'
<1> DEFINE c == [op |-> "user_status", organization |-> o, user |-> u, status |-> status]
           columns == [status |-> status]
           call == update_user_status(o, u, status)
<1>1. Head(<<c>>) = c /\ Tail(<<c>>) = << >> /\ c.op = "user_status"  OBVIOUS
<1>2. Call(c) = ensure_active_or_403(o, call)  BY DEF Call
<1>3. columns \in UserColumns  BY DEF UserColumns
<1>4. call = IF ~GetOrgUser(o, u) THEN Raise("user_not_found") ELSE Write(Row(u, columns), {})
  BY DEF update_user_status
<1> HIDE DEF c, columns, call
<1>5. DOMAIN call = {"error", "writes", "reads"}  BY <1>4, Outcomes
<1>6. ASSUME Good(call) PROVE Here(u, db) /\ call.writes = Row(u, columns) /\ call.reads = {}
  <2>1. GetOrgUser(o, u) /\ call = Write(Row(u, columns), {})  BY <1>4, <1>6, Outcomes DEF Good
  <2> QED  BY <2>1, Outcomes DEF GetOrgUser, In, Exists, Here
<1> QED  BY <1>1, <1>2, <1>3, <1>5, <1>6, EditLoad DEF c

LEMMA SetupOwnerLoad ==
    ASSUME Inv, NEW w \in Workers, NEW o \in Organizations, NEW u \in Users, NEW e \in Emails,
           Load(w, <<[op |-> "setup_owner", organization |-> o, user |-> u, email |-> e]>>)
    PROVE  Inv'
<1> DEFINE c == [op |-> "setup_owner", organization |-> o, user |-> u, email |-> e]
           columns == [email |-> e, edited |-> TRUE]
           call == setup_owner(o, u, e)
<1>1. Head(<<c>>) = c /\ Tail(<<c>>) = << >> /\ c.op = "setup_owner"  OBVIOUS
<1>2. Call(c) = ensure_active_or_403(o, call)  BY DEF Call
<1>3. columns \in UserColumns  BY DEF UserColumns
<1>4. call = IF ~GetOrgUser(o, u) \/ db[u].role # "owner" THEN Raise("owner_not_found")
             ELSE IF \E v \in In(Users, o) : v # u /\ db[v].email = e THEN Raise("email_already_exists")
             ELSE Write(Row(u, columns), {db[u].email, e})
  BY DEF setup_owner
<1> HIDE DEF c, columns, call
<1>5. DOMAIN call = {"error", "writes", "reads"}  BY <1>4, Outcomes
<1>6. ASSUME Good(call) PROVE Here(u, db) /\ call.writes = Row(u, columns) /\ call.reads \subseteq Emails
  <2>1. GetOrgUser(o, u) /\ call = Write(Row(u, columns), {db[u].email, e})  BY <1>4, <1>6, Outcomes DEF Good
  <2>2. Here(u, db)  BY <2>1 DEF GetOrgUser, In, Exists, Here
  <2>3. db[u].email \in Emails  BY <2>2, Columns DEF Inv, UserRow
  <2> QED  BY <2>1, <2>2, <2>3, Outcomes
<1> QED  BY <1>1, <1>2, <1>3, <1>5, <1>6, EditLoad DEF c

LEMMA LoginLoad ==
    ASSUME Inv, NEW w \in Workers, NEW s \in Unused(Sessions), NEW u \in Users, NEW e \in Emails,
           Load(w, <<[op |-> "login", session |-> s, user |-> u, email |-> e]>>)
    PROVE  Inv'
<1> DEFINE c == [op |-> "login", session |-> s, user |-> u, email |-> e]
           out == Call(c)
           r == LoadedRequest("login", out, << >>)
           columns == [status |-> "open", user_id |-> u, left |-> SessionTimeout, age |-> 0]
<1>1. Head(<<c>>) = c /\ Tail(<<c>>) = << >> /\ c.op = "login"  OBVIOUS
<1>2. s \in Sessions /\ Free(s)  BY UnusedFree
<1>3. ASSUME Good(out) PROVE out.writes = Row(s, columns) /\ out.reads = {}
  <2>1. out = login(s, e, u)  BY DEF Call
  <2>2. create_session(s, u) = Write(Row(s, columns), {})  BY DEF create_session
  <2> HIDE DEF out, columns
  <2>3. out = Write(Row(s, columns), {})  BY <1>3, <2>1, <2>2, Outcomes DEF login, Good
  <2> QED  BY <2>3, Outcomes
<1> HIDE DEF c, out
<1>4. r.op = "login" /\ r.script = << >> /\ r.writes = out.writes /\ r.reads = out.reads  BY DEF LoadedRequest
<1> HIDE DEF r
<1>5. ASSUME Good(out) PROVE Job(r, db, {})
  <2>1. r.writes = Row(s, columns) /\ r.reads = {}  BY <1>3, <1>4, <1>5
  <2>2. Simple(r) /\ ~Here(s, db)  BY <1>2, <1>4 DEF Simple, Free
  <2>3. LoggingIn(r, db)  BY <1>2, <2>1, <2>2 DEF LoggingIn
  <2>4. Reads(r, db, {})  BY <2>1 DEF Reads
  <2> QED  BY <2>3, <2>4 DEF Job
<1>6. ASSUME Good(out)
      PROVE  /\ \A x \in Rows \cap (DOMAIN out.writes \cup out.reads) :
                   Here(x, db) \/ \A v \in Workers : x \notin Reserved(request[v])
             /\ Agents \cap DOMAIN out.writes = {}
  <2> HIDE DEF columns
  <2>1. DOMAIN out.writes = {s} /\ out.reads = {}  BY <1>3, <1>6 DEF Row
  <2> QED  BY <1>2, <2>1, Disjoint DEF Free
<1> QED  BY <1>1, <1>5, <1>6, SimpleLoad DEF r, out, c

LEMMA LogoutLoad ==
    ASSUME Inv, NEW w \in Workers, NEW s \in Sessions,
           Load(w, <<[op |-> "logout", session |-> s]>>)
    PROVE  Inv'
<1> DEFINE c == [op |-> "logout", session |-> s]
           out == Call(c)
           r == LoadedRequest("logout", out, << >>)
<1>1. Head(<<c>>) = c /\ Tail(<<c>>) = << >> /\ c.op = "logout"  OBVIOUS
<1>2. ASSUME Good(out) PROVE out.writes = Row(s, [status |-> "revoked"]) /\ out.reads = {} /\ Here(s, db)
  <2>1. out = revoke_session(s)  BY DEF Call
  <2> HIDE DEF out
  <2>2. Exists(s) /\ out = Write(Row(s, [status |-> "revoked"]), {})
    BY <1>2, <2>1, Outcomes DEF revoke_session, Good
  <2> QED  BY <2>2, Outcomes DEF Exists, Here
<1> HIDE DEF c, out
<1>3. r.op = "logout" /\ r.script = << >> /\ r.writes = out.writes /\ r.reads = out.reads  BY DEF LoadedRequest
<1> HIDE DEF r
<1>4. ASSUME Good(out) PROVE Job(r, db, {})
  <2>1. Simple(r)  BY <1>3 DEF Simple
  <2>2. LoggingOut(r, db) /\ Reads(r, db, {})  BY <1>2, <1>3, <1>4, <2>1 DEF LoggingOut, Reads
  <2> QED  BY <2>2 DEF Job
<1>5. ASSUME Good(out)
      PROVE  /\ \A x \in Rows \cap (DOMAIN out.writes \cup out.reads) :
                   Here(x, db) \/ \A v \in Workers : x \notin Reserved(request[v])
             /\ Agents \cap DOMAIN out.writes = {}
  <2>1. DOMAIN out.writes = {s} /\ out.reads = {} /\ Here(s, db)  BY <1>2, <1>5 DEF Row
  <2> QED  BY <2>1, Disjoint
<1> QED  BY <1>1, <1>4, <1>5, SimpleLoad DEF r, out, c

LEMMA ApiKeyLoad ==
    ASSUME Inv, NEW w \in Workers, NEW o \in Organizations, NEW k \in Unused(ApiKeys),
           Load(w, <<[op |-> "api_key", organization |-> o, key |-> k]>>)
    PROVE  Inv'
<1> DEFINE c == [op |-> "api_key", organization |-> o, key |-> k]
           out == Call(c)
           r == LoadedRequest("api_key", out, << >>)
           columns == [status |-> "live", organization_id |-> o]
           call == create_api_key(k, o)
<1>1. Head(<<c>>) = c /\ Tail(<<c>>) = << >> /\ c.op = "api_key"  OBVIOUS
<1>2. k \in ApiKeys /\ Free(k)  BY UnusedFree
<1>3. ASSUME Good(out)
      PROVE  out.writes = Row(k, columns) /\ out.reads = {o} /\ Here(o, db) /\ db[o].status = "active"
  <2>1. out = ensure_active_or_403(o, call)  BY DEF Call
  <2>2. call = Write(Row(k, columns), {})  BY DEF create_api_key
  <2> HIDE DEF out, columns, call
  <2>3. DOMAIN call = {"error", "writes", "reads"}  BY <2>2, Outcomes
  <2>4. /\ Here(o, db) /\ db[o].status = "active"
        /\ out.writes = call.writes /\ out.reads = call.reads \cup {o}
    BY <1>3, <2>1, <2>3, Served
  <2> QED  BY <2>2, <2>4, Outcomes
<1> HIDE DEF c, out
<1>4. r.op = "api_key" /\ r.script = << >> /\ r.writes = out.writes /\ r.reads = out.reads  BY DEF LoadedRequest
<1> HIDE DEF r
<1>5. ASSUME Good(out) PROVE Job(r, db, {})
  <2>1. r.writes = Row(k, columns) /\ Here(o, db) /\ o \in r.reads  BY <1>3, <1>4, <1>5
  <2>2. ~Here(k, db)  BY <1>2 DEF Free
  <2>3. IssuingKey(r, db)  BY <1>2, <1>4, <2>1, <2>2 DEF IssuingKey
  <2>4. Reads(r, db, {})  BY <1>3, <1>4, <1>5 DEF Reads
  <2> QED  BY <2>3, <2>4 DEF Job
<1>6. ASSUME Good(out)
      PROVE  /\ \A x \in Rows \cap (DOMAIN out.writes \cup out.reads) :
                   Here(x, db) \/ \A v \in Workers : x \notin Reserved(request[v])
             /\ Agents \cap DOMAIN out.writes = {}
  <2> HIDE DEF columns
  <2>1. DOMAIN out.writes = {k} /\ out.reads = {o} /\ Here(o, db)  BY <1>3, <1>6 DEF Row
  <2> QED  BY <1>2, <2>1, Disjoint DEF Free
<1> QED  BY <1>1, <1>5, <1>6, SimpleLoad DEF r, out, c

LEMMA RevokeKeyLoad ==
    ASSUME Inv, NEW w \in Workers, NEW o \in Organizations, NEW k \in ApiKeys,
           Load(w, <<[op |-> "revoke_key", organization |-> o, key |-> k]>>)
    PROVE  Inv'
<1> DEFINE c == [op |-> "revoke_key", organization |-> o, key |-> k]
           out == Call(c)
           r == LoadedRequest("revoke_key", out, << >>)
           call == revoke_api_key(k, o)
<1>1. Head(<<c>>) = c /\ Tail(<<c>>) = << >> /\ c.op = "revoke_key"  OBVIOUS
<1>2. ASSUME Good(out)
      PROVE  /\ out.writes = Row(k, [status |-> "revoked"]) /\ out.reads = {o} /\ Here(k, db)
             /\ Here(o, db) /\ db[o].status = "active"
  <2>1. out = ensure_active_or_403(o, call)  BY DEF Call
  <2>2. call = IF k \notin In(ApiKeys, o) THEN Raise("api_key_not_found")
               ELSE IF db[k].status = "revoked" THEN Raise("nothing_to_do")
               ELSE Write(Row(k, [status |-> "revoked"]), {})
    BY DEF revoke_api_key
  <2> HIDE DEF out, call
  <2>3. DOMAIN call = {"error", "writes", "reads"}  BY <2>2, Outcomes
  <2>4. /\ Here(o, db) /\ db[o].status = "active" /\ Good(call)
        /\ out.writes = call.writes /\ out.reads = call.reads \cup {o}
    BY <1>2, <2>1, <2>3, Served
  <2>5. k \in In(ApiKeys, o) /\ call = Write(Row(k, [status |-> "revoked"]), {})  BY <2>2, <2>4, Outcomes DEF Good
  <2> QED  BY <2>4, <2>5, Outcomes DEF In, Exists, Here
<1> HIDE DEF c, out
<1>3. r.op = "revoke_key" /\ r.script = << >> /\ r.writes = out.writes /\ r.reads = out.reads  BY DEF LoadedRequest
<1> HIDE DEF r
<1>4. ASSUME Good(out) PROVE Job(r, db, {})
  <2>1. Simple(r)  BY <1>3 DEF Simple
  <2>2. RevokingKey(r, db)  BY <1>2, <1>3, <1>4, <2>1 DEF RevokingKey
  <2>3. Reads(r, db, {})  BY <1>2, <1>3, <1>4 DEF Reads
  <2> QED  BY <2>2, <2>3 DEF Job
<1>5. ASSUME Good(out)
      PROVE  /\ \A x \in Rows \cap (DOMAIN out.writes \cup out.reads) :
                   Here(x, db) \/ \A v \in Workers : x \notin Reserved(request[v])
             /\ Agents \cap DOMAIN out.writes = {}
  <2>1. DOMAIN out.writes = {k} /\ out.reads = {o} /\ Here(o, db) /\ Here(k, db)  BY <1>2, <1>5 DEF Row
  <2> QED  BY <2>1, Disjoint
<1> QED  BY <1>1, <1>4, <1>5, SimpleLoad DEF r, out, c

-----------------------------------------------------------------------------
(* The scripts: the sandbox and the clean-up.                              *)

\* The key is asked for once, at the end.
LEMMA ScriptKeysOnly ==
    ASSUME NEW s, NEW m \in 1..6, NEW o, NEW k, Remaining(s, m, o, k)
    PROVE  {c \in Range(s) : c.op = "sandbox_key"} = {[op |-> "sandbox_key", organization |-> o, key |-> k]}
<1> DEFINE key == [op |-> "sandbox_key", organization |-> o, key |-> k]
<1>1. /\ s \in Seq(Calls) /\ Len(s) = 7 - m
      /\ \A j \in 1..(7 - m) : s[j] = Provision(m + j - 1, o, k)
  BY DEF Remaining
<1>2. key \in {c \in Range(s) : c.op = "sandbox_key"}  BY ScriptKeys
<1>3. ASSUME NEW c \in Range(s), c.op = "sandbox_key" PROVE c = key
  <2>1. PICK j \in DOMAIN s : c = s[j]  BY DEF Range
  <2>2. j \in 1..(7 - m)  BY <1>1
  <2>3. c = Provision(m + j - 1, o, k)  BY <1>1, <2>1, <2>2
  <2>4. CASE m + j - 1 = 6  BY <2>3, <2>4 DEF Provision
  <2>5. CASE m + j - 1 # 6
    <3>1. c = [op |-> "starter", organization |-> o, step |-> m + j - 1]  BY <2>3, <2>5 DEF Provision
    <3> QED  BY <1>3, <3>1
  <2> QED  BY <2>4, <2>5
<1> QED  BY <1>2, <1>3

\* What a request with such a script holds on to
LEMMA ScriptHolds ==
    ASSUME NEW r, r # Idle, NEW m \in 1..6, NEW o, NEW k, Remaining(r.script, m, o, k),
           r.stage = "loaded" => r.op # "sandbox_key"
    PROVE  Reserved(r) = Touched(r) \cup {k} /\ Provides(r) = {o}
<1> DEFINE key == [op |-> "sandbox_key", organization |-> o, key |-> k]
<1>1. {c \in Range(r.script) : c.op = "sandbox_key"} = {key}  BY ScriptKeysOnly
<1>2. key.key = k /\ key.organization = o  OBVIOUS
<1> HIDE DEF key
<1>3. Reserved(r) = Touched(r) \cup {c.key : c \in {key}}  BY <1>1 DEF Reserved
<1>4. Provides(r) = {c.organization : c \in {key}}  BY <1>1 DEF Provides, KeyCalls
<1> QED  BY <1>2, <1>3, <1>4

LEMMA ScriptTail ==
    ASSUME NEW s, NEW m \in 1..6, NEW o, NEW k, Remaining(s, m, o, k)
    PROVE  /\ Head(s) = Provision(m, o, k)
           /\ m < 6 => Remaining(Tail(s), m + 1, o, k)
           /\ m = 6 => Tail(s) = << >>
<1>1. /\ s \in Seq(Calls) /\ Len(s) = 7 - m /\ s # << >>
      /\ \A j \in 1..(7 - m) : s[j] = Provision(m + j - 1, o, k)
  BY DEF Remaining
<1>2. Head(s) = Provision(m, o, k)
  <2>1. 1 \in 1..(7 - m) /\ m + 1 - 1 = m  OBVIOUS
  <2>2. s[1] = Provision(m, o, k)  BY <1>1, <2>1
  <2> QED  BY <1>1, <2>2
<1>3. /\ Tail(s) \in Seq(Calls) /\ Len(Tail(s)) = 7 - (m + 1)
      /\ \A j \in 1..(7 - (m + 1)) : Tail(s)[j] = s[j + 1]
  BY <1>1, HeadTailProperties
<1>4. \A j \in 1..(7 - (m + 1)) : j + 1 \in 1..(7 - m) /\ m + (j + 1) - 1 = (m + 1) + j - 1  OBVIOUS
<1>5. \A j \in 1..(7 - (m + 1)) : Tail(s)[j] = Provision((m + 1) + j - 1, o, k)  BY <1>1, <1>3, <1>4
<1>6. Remaining(Tail(s), m + 1, o, k)  BY <1>3, <1>5 DEF Remaining
<1>7. m = 6 => Tail(s) = << >>
  <2>1. m = 6 => Len(Tail(s)) = 0  BY <1>3
  <2> QED  BY <1>3, <2>1, EmptySeq
<1> QED  BY <1>2, <1>6, <1>7

LEMMA Prepended ==
    ASSUME NEW S, NEW a, NEW s \in Seq(S)
    PROVE  Tail(<<a>> \o s) = s /\ Head(<<a>> \o s) = a
  OBVIOUS

LEMMA Appended ==
    ASSUME NEW S, NEW a \in S, NEW s \in Seq(S), Len(s) = 5
    PROVE  /\ s \o <<a>> \in Seq(S) /\ Len(s \o <<a>>) = 6
           /\ \A j \in 1..5 : (s \o <<a>>)[j] = s[j]
           /\ (s \o <<a>>)[6] = a
<1> DEFINE b == <<a>>
           p == s \o b
<1>1. b \in Seq(S) /\ Len(b) = 1 /\ b[1] = a  OBVIOUS
<1> HIDE DEF b
<1>2. /\ p \in Seq(S) /\ Len(p) = Len(s) + Len(b)
      /\ \A i \in 1 .. Len(s) + Len(b) : p[i] = IF i <= Len(s) THEN s[i] ELSE b[i - Len(s)]
  BY <1>1, ConcatProperties
<1> HIDE DEF p
<1>3. \A i \in 1..6 : p[i] = IF i <= 5 THEN s[i] ELSE b[i - 5]  BY <1>1, <1>2
<1>4. \A j \in 1..5 : p[j] = s[j]
  <2>1. \A j \in 1..5 : j \in 1..6 /\ j <= 5  OBVIOUS
  <2> QED  BY <1>3, <2>1
<1>5. p[6] = b[1]
  <2>1. 6 \in 1..6 /\ ~(6 <= 5) /\ 6 - 5 = 1  OBVIOUS
  <2> QED  BY <1>3, <2>1
<1> QED  BY <1>1, <1>2, <1>4, <1>5 DEF p, b

LEMMA FiveInARow ==
    ASSUME NEW S, NEW f \in [1..5 -> S]
    PROVE  f \in Seq(S) /\ Len(f) = 5
<1>1. f \in Seq(S)  BY SeqDef
<1> QED  BY <1>1

LEMMA SandboxScript ==
    ASSUME NEW o \in Organizations, NEW u, NEW e, NEW k \in ApiKeys
    PROVE  LET s == create_sandbox_organization(o, u, e, k)
           IN  /\ Head(s) = [op |-> "sandbox", organization |-> o, user |-> u, email |-> e]
               /\ Remaining(Tail(s), 1, o, k)
<1> DEFINE first == [op |-> "sandbox", organization |-> o, user |-> u, email |-> e]
           key == [op |-> "sandbox_key", organization |-> o, key |-> k]
           steps == [m \in 1..5 |-> [op |-> "starter", organization |-> o, step |-> m]]
           rest == steps \o <<key>>
<1>1. create_sandbox_organization(o, u, e, k) = (<<first>> \o steps) \o <<key>>
  <2>1. Len(StarterStages) = 5  BY DEF StarterStages
  <2> QED  BY <2>1 DEF create_sandbox_organization, StarterCalls
<1>2. \A m \in 1..5 : Provision(m, o, k) = [op |-> "starter", organization |-> o, step |-> m]  BY DEF Provision
<1>3. Provision(6, o, k) = key  BY DEF Provision
<1>4. \A m \in 1..6 : Provision(m, o, k) \in Calls  BY DEF Calls
<1>5. steps \in Seq(Calls) /\ Len(steps) = 5 /\ \A m \in 1..5 : steps[m] = Provision(m, o, k)
  <2>1. \A m \in 1..5 : steps[m] = Provision(m, o, k)  BY <1>2
  <2>2. \A m \in 1..5 : m \in 1..6  OBVIOUS
  <2>3. steps \in [1..5 -> Calls]
    <3>1. \A m \in 1..5 : [op |-> "starter", organization |-> o, step |-> m] \in Calls  BY <1>2, <1>4, <2>2
    <3> QED  BY <3>1
  <2> HIDE DEF steps
  <2> QED  BY <2>1, <2>3, FiveInARow
<1>6. key \in Calls
  <2>1. 6 \in 1..6  OBVIOUS
  <2> QED  BY <1>3, <1>4, <2>1
<1> HIDE DEF steps, first, key
<1>7. /\ rest \in Seq(Calls) /\ Len(rest) = 6 /\ rest[6] = key
      /\ \A j \in 1..5 : rest[j] = steps[j]
  BY <1>5, <1>6, Appended
<1>8. (<<first>> \o steps) \o <<key>> = <<first>> \o rest
  <2> DEFINE All == Calls \cup {first}
  <2>1. Calls \subseteq All /\ first \in All  OBVIOUS
  <2> HIDE DEF All
  <2>2. steps \in Seq(All)  BY <1>5, <2>1, SeqMonotonic
  <2>3. <<first>> \in Seq(All) /\ <<key>> \in Seq(All)  BY <1>6, <2>1
  <2> QED  BY <2>2, <2>3, ConcatAssociative
<1> HIDE DEF rest
<1>9. Head(<<first>> \o rest) = first /\ Tail(<<first>> \o rest) = rest  BY <1>7, Prepended
<1>10. \A j \in 1..6 : rest[j] = Provision(j, o, k)
  <2>1. \A j \in 1..6 : j = 6 \/ j \in 1..5  OBVIOUS
  <2> QED  BY <1>3, <1>5, <1>7, <2>1
<1>11. Remaining(rest, 1, o, k)
  <2>1. \A j \in 1..(7 - 1) : 1 + j - 1 = j /\ j \in 1..6  OBVIOUS
  <2>2. 7 - 1 = 6  OBVIOUS
  <2> QED  BY <1>7, <1>10, <2>1, <2>2 DEF Remaining
<1> QED  BY <1>1, <1>8, <1>9, <1>11 DEF first

\* Who provisions a sandbox has created it or is about to.
LEMMA ProvidesHere ==
    ASSUME NEW r, NEW t, NEW ov, Fine(r, t, ov), NEW o \in Provides(r)
    PROVE  Here(o, t) \/ o \in Reserved(r)
<1>1. r # Idle  BY DEF Provides
<1>2. ASSUME r.stage # "loaded" \/ r.op # "sandbox_key", r.script = << >> PROVE FALSE
  <2>1. Range(r.script) = {}  BY <1>2 DEF Range
  <2> QED  BY <1>1, <1>2, <2>1 DEF Provides, KeyCalls
<1>3. ASSUME r.stage # "loaded" \/ r.op # "sandbox_key", NEW p, r.script = ArchiveScript(p) PROVE FALSE
  <2>1. Range(r.script) = {[op |-> "archive", organization |-> p]}  BY <1>3 DEF Range, ArchiveScript
  <2>2. {c \in Range(r.script) : c.op = "sandbox_key"} = {}  BY <2>1
  <2> QED  BY <1>1, <1>3, <2>2 DEF Provides, KeyCalls
<1>4. ASSUME r.stage # "loaded" \/ r.op # "sandbox_key", NEW p, NEW k, NEW m \in 1..6, Remaining(r.script, m, p, k)
      PROVE  o = p
  <2>1. Provides(r) = {p}  BY <1>1, <1>4, ScriptHolds
  <2> QED  BY <2>1
<1>5. CASE r.stage = "next" /\ Between(r, t)  BY <1>3, <1>4, <1>5 DEF Between
<1>6. CASE r.stage = "loaded" /\ Job(r, t, ov)
  <2>1. DOMAIN r.writes \subseteq Reserved(r)  BY <1>1, <1>6 DEF Reserved, Touched
  <2>2. CASE Founding(r, t, ov)
    <3>1. PICK p \in Organizations, u \in Users, e \in Emails, environment \in {"production", "sandbox"} :
        /\ r.writes = [x \in {p, u} |-> IF x = p THEN NewOrganization(environment)
                                        ELSE NewUser(p, e, "owner", "founder")]
        /\ environment = "production" => Simple(r)
        /\ environment = "sandbox" => r.op = "sandbox" /\ \E k \in ApiKeys : Remaining(r.script, 1, p, k)
      BY <2>2 DEF Founding
    <3>2. environment = "sandbox"  BY <1>2, <3>1 DEF Simple
    <3>3. o = p  BY <1>4, <3>1, <3>2
    <3>4. p \in DOMAIN r.writes  BY <3>1
    <3> QED  BY <2>1, <3>3, <3>4
  <2>3. CASE ChangingStatus(r, t, ov)  BY <1>2, <1>3, <2>3 DEF ChangingStatus
  <2>4. CASE Provisioning(r, t)
    <3>1. PICK p \in Organizations, k \in ApiKeys, m \in 1..5 :
            Here(p, t) /\ r.op = "starter" /\ Remaining(r.script, m + 1, p, k)
      BY <2>4 DEF Provisioning
    <3>2. m + 1 \in 1..6  OBVIOUS
    <3>3. o = p  BY <1>4, <3>1, <3>2
    <3> QED  BY <3>1, <3>3
  <2>5. CASE IssuingKey(r, t)
    <3>1. PICK k \in ApiKeys, p \in Organizations :
            /\ r.writes = Row(k, [status |-> "live", organization_id |-> p]) /\ Here(p, t) /\ r.script = << >>
      BY <2>5 DEF IssuingKey
    <3>2. DOMAIN r.writes = {k} /\ r.writes[k].organization_id = p  BY <3>1 DEF Row
    <3>3. r.op = "sandbox_key"  BY <1>2, <3>1
    <3>4. Range(r.script) = {}  BY <3>1 DEF Range
    <3>5. Provides(r) = {p}  BY <1>1, <1>6, <3>2, <3>3, <3>4 DEF Provides, KeyCalls
    <3> QED  BY <3>1, <3>5
  <2>6. CASE \/ SavingSettings(r, t, ov) \/ Inviting(r, t) \/ ClosingInvitation(r, t, ov) \/ Accepting(r, t, ov)
             \/ AddingUser(r, t) \/ EditingUser(r, t) \/ LoggingIn(r, t) \/ LoggingOut(r, t)
             \/ RevokingKey(r, t) \/ AddingAgent(r, t, ov)
    <3>1. Simple(r)
      BY <2>6 DEF SavingSettings, Inviting, ClosingInvitation, Accepting, AddingUser, EditingUser, LoggingIn,
                  LoggingOut, RevokingKey, AddingAgent
    <3> QED  BY <1>2, <3>1 DEF Simple
  <2> QED  BY <1>6, <2>2, <2>3, <2>4, <2>5, <2>6 DEF Job
<1> QED  BY <1>1, <1>5, <1>6 DEF Fine

LEMMA SandboxLoad ==
    ASSUME Inv, NEW w \in Workers, NEW o \in Unused(Organizations), NEW u \in Unused(Users), NEW e \in Emails,
           NEW k \in Unused(ApiKeys), Load(w, create_sandbox_organization(o, u, e, k))
    PROVE  Inv'
<1> DEFINE script == create_sandbox_organization(o, u, e, k)
           c == [op |-> "sandbox", organization |-> o, user |-> u, email |-> e]
           out == Call(c)
           r == LoadedRequest("sandbox", out, Tail(script))
           writes == [x \in {o, u} |-> IF x = o THEN NewOrganization("sandbox")
                                       ELSE NewUser(o, e, "owner", "founder")]
<1>1. o \in Organizations /\ Free(o) /\ u \in Users /\ Free(u) /\ k \in ApiKeys /\ Free(k)  BY UnusedFree
<1>2. Head(script) = c /\ Remaining(Tail(script), 1, o, k) /\ c.op = "sandbox"  BY <1>1, SandboxScript
<1>3. ASSUME Good(out)
      PROVE  /\ out.error = "ok" /\ out.writes = writes /\ out.reads = {e}
             /\ find_sandbox_organization_by_owner_email(e) = {}
  <2>1. out = SandboxOrganization(o, u, e)  BY DEF Call
  <2>2. create_organization(o, u, e, "sandbox") = Write(writes, {})  BY DEF create_organization
  <2> HIDE DEF out, writes
  <2>3. /\ find_sandbox_organization_by_owner_email(e) = {}
        /\ out = [Write(writes, {}) EXCEPT !.reads = {e}]
    BY <1>3, <2>1, <2>2, Outcomes DEF SandboxOrganization, Good
  <2> QED  BY <2>3, Outcomes
<1> HIDE DEF c, out, script
<1>4. /\ DOMAIN r = {"stage", "op", "writes", "reads", "script"} /\ r.stage = "loaded" /\ r.op = "sandbox"
      /\ r.script = Tail(script) /\ r.writes = out.writes /\ r.reads = out.reads
  BY DEF LoadedRequest
<1> HIDE DEF r
<1>5. r # Idle  BY <1>4 DEF Idle
<1>6. ASSUME Good(out) PROVE Loaded(r, w, db, request)
  <2>1. Founded(e, db, {}) = {}
    <3>1. Founded(e, db, {}) \subseteq find_sandbox_organization_by_owner_email(e)
      BY DEF Founded, find_sandbox_organization_by_owner_email, Of, In, Here, Exists, Sandbox, is_sandbox_organization
    <3> QED  BY <1>3, <1>6, <3>1
  <2>2. r.writes = writes /\ r.reads = {e}  BY <1>3, <1>4, <1>6
  <2>3. Founding(r, db, {})
    <3>1. ~Here(o, db) /\ ~Here(u, db) /\ ~Here(k, db) /\ Remaining(r.script, 1, o, k) /\ e \in r.reads
      BY <1>1, <1>2, <1>4, <2>2 DEF Free
    <3>2. "sandbox" # "production" /\ "sandbox" \in {"production", "sandbox"}  OBVIOUS
    <3> QED  BY <1>1, <1>4, <2>1, <2>2, <3>1, <3>2 DEF Founding
  <2>4. Reads(r, db, {})  BY <2>2, Disjoint DEF Reads
  <2>5. Job(r, db, {})  BY <2>3, <2>4 DEF Job
  <2>6. Reserved(r) = Touched(r) \cup {k} /\ Provides(r) = {o}
    <3> HIDE DEF writes
    <3>1. 1 \in 1..6 /\ (r.stage = "loaded" => r.op # "sandbox_key")  BY <1>4
    <3>2. Remaining(r.script, 1, o, k)  BY <1>2, <1>4
    <3> QED  BY <1>5, <3>1, <3>2, ScriptHolds
  <2>7. Touched(r) = {o, u, e}
    <3>1. DOMAIN r.writes = {o, u}  BY <2>2
    <3> QED  BY <1>4, <2>2, <3>1 DEF Touched
  <2>8. e \notin Rows  BY Disjoint DEF Rows
  <2>9. ASSUME NEW v \in Workers \ {w}, NEW x \in Rows, x \in Reserved(r), x \in Reserved(request[v]) PROVE Here(x, db)
    BY <1>1, <2>6, <2>7, <2>8, <2>9 DEF Free
  <2>10. ASSUME NEW v \in Workers \ {w} PROVE Provides(r) \cap Provides(request[v]) = {}
    <3>1. ASSUME o \in Provides(request[v]) PROVE FALSE
      <4>1. Fine(request[v], db, overlapped)  BY DEF Inv
      <4> QED  BY <1>1, <3>1, <4>1, ProvidesHere DEF Free
    <3> QED  BY <2>6, <3>1
  <2>11. Agents \cap DOMAIN r.writes = {}
    <3>1. DOMAIN r.writes = {o, u}  BY <2>2
    <3> QED  BY <1>1, <3>1, Disjoint
  <2> QED  BY <1>4, <2>5, <2>9, <2>10, <2>11 DEF Loaded
<1>7. Good(out) => (IF out.error = "ok" THEN Tail(script) ELSE << >>) = Tail(script)  BY <1>3
<1> QED  BY <1>2, <1>6, <1>7, LoadInv DEF r, out, script

LEMMA ContinueInv ==
    ASSUME Inv, NEW w \in Workers, Continue(w)
    PROVE  Inv'
<1> DEFINE old == request[w]
           script == old.script
<1>1. old.stage = "next" /\ Load(w, script)  BY DEF Continue
<1>2. old # Idle /\ Between(old, db)  BY <1>1 DEF Inv, Fine, Idle
<1>3. CASE \E o \in Organizations : script = ArchiveScript(o)
  <2>1. PICK o \in Organizations : script = ArchiveScript(o)  BY <1>3
  <2>2. Head(script) = [op |-> "archive", organization |-> o] /\ Tail(script) = << >>  BY <2>1 DEF ArchiveScript
  <2> QED  BY <1>1, <2>2, StatusLoad
<1>4. ASSUME NEW o \in Organizations, NEW k \in ApiKeys, NEW m \in 1..6,
             Remaining(script, m, o, k), ~Here(k, db), Here(o, db), db[o].starter = Stage(m)
      PROVE  Inv'
  <2>1. /\ Head(script) = Provision(m, o, k)
        /\ m < 6 => Remaining(Tail(script), m + 1, o, k)
        /\ m = 6 => Tail(script) = << >>
    BY <1>4, ScriptTail
  <2>2. Reserved(old) = Touched(old) \cup {k} /\ Provides(old) = {o}
    BY <1>1, <1>2, <1>4, ScriptHolds
  <2>3. \A v \in Workers \ {w} : k \notin Reserved(request[v])
    BY <1>4, <2>2 DEF Inv, Alone, Rows
  <2>4. \A v \in Workers \ {w} : o \notin Provides(request[v])
    BY <2>2 DEF Inv, Sole
  <2>5. CASE m < 6
    <3> DEFINE c == [op |-> "starter", organization |-> o, step |-> m]
               out == Call(c)
               r == LoadedRequest("starter", out, Tail(script))
    <3>1. m \in 1..5 /\ m # 6  BY <2>5
    <3>2. Head(script) = c /\ c.op = "starter"  BY <2>1, <3>1 DEF Provision
    <3>3. out.error = "ok" /\ out.writes = Row(o, [starter |-> StarterStages[m]]) /\ out.reads = {}
      <4>1. out = StarterStep(o, m)  BY DEF Call
      <4>2. StarterStep(o, m) = Write(Row(o, [starter |-> StarterStages[m]]), {})  BY <1>4 DEF StarterStep, Stage
      <4> HIDE DEF out
      <4> QED  BY <4>1, <4>2, Outcomes
    <3> HIDE DEF c, out, script
    <3>4. /\ DOMAIN r = {"stage", "op", "writes", "reads", "script"} /\ r.stage = "loaded" /\ r.op = "starter"
          /\ r.script = Tail(script) /\ r.writes = out.writes /\ r.reads = out.reads
      BY DEF LoadedRequest
    <3> HIDE DEF r
    <3>5. r # Idle  BY <3>4 DEF Idle
    <3>6. Remaining(r.script, m + 1, o, k) /\ m + 1 \in 1..6  BY <2>1, <2>5, <3>1, <3>4
    <3>7. Job(r, db, {})
      <4>1. Provisioning(r, db)  BY <1>4, <3>1, <3>3, <3>4, <3>6 DEF Provisioning
      <4>2. Reads(r, db, {})  BY <3>3, <3>4 DEF Reads
      <4> QED  BY <4>1, <4>2 DEF Job
    <3>8. Reserved(r) = Touched(r) \cup {k} /\ Provides(r) = {o}
      <4>1. r.op # "sandbox_key"  BY <3>4
      <4> QED  BY <3>5, <3>6, <4>1, ScriptHolds
    <3>9. DOMAIN r.writes = {o} /\ Touched(r) = {o}
      <4>1. DOMAIN r.writes = {o}  BY <3>3, <3>4 DEF Row
      <4> QED  BY <3>3, <3>4, <4>1 DEF Touched
    <3>10. Agents \cap DOMAIN r.writes = {}  BY <3>9, Disjoint
    <3>11. Loaded(r, w, db, request)  BY <1>4, <2>3, <2>4, <3>4, <3>7, <3>8, <3>9, <3>10 DEF Loaded
    <3>12. (IF out.error = "ok" THEN Tail(script) ELSE << >>) = Tail(script)  BY <3>3
    <3> QED  BY <1>1, <3>2, <3>11, <3>12, LoadInv DEF r, out, script
  <2>6. CASE m = 6
    <3> DEFINE c == [op |-> "sandbox_key", organization |-> o, key |-> k]
               out == Call(c)
               r == LoadedRequest("sandbox_key", out, << >>)
    <3>2. Head(script) = c /\ c.op = "sandbox_key" /\ Tail(script) = << >>  BY <2>1, <2>6 DEF Provision
    <3>3. /\ out.error = "ok" /\ out.writes = Row(k, [status |-> "live", organization_id |-> o]) /\ out.reads = {}
      <4>1. out = create_api_key(k, o)  BY DEF Call
      <4>2. create_api_key(k, o) = Write(Row(k, [status |-> "live", organization_id |-> o]), {})  BY DEF create_api_key
      <4> HIDE DEF out
      <4> QED  BY <4>1, <4>2, Outcomes
    <3> HIDE DEF c, out, script
    <3>4. /\ DOMAIN r = {"stage", "op", "writes", "reads", "script"} /\ r.stage = "loaded" /\ r.op = "sandbox_key"
          /\ r.script = << >> /\ r.writes = out.writes /\ r.reads = out.reads
      BY DEF LoadedRequest
    <3> HIDE DEF r
    <3>5. r # Idle /\ Range(r.script) = {}  BY <3>4 DEF Idle, Range
    <3>6. DOMAIN r.writes = {k} /\ r.writes[k].organization_id = o  BY <3>3, <3>4 DEF Row
    <3>7. Job(r, db, {})
      <4>1. db[o].starter = "active"  BY <1>4, <2>6, Stages
      <4>2. IssuingKey(r, db)  BY <1>4, <3>3, <3>4, <4>1 DEF IssuingKey
      <4>3. Reads(r, db, {})  BY <3>3, <3>4 DEF Reads
      <4> QED  BY <4>2, <4>3 DEF Job
    <3>8. Reserved(r) = {k} /\ Provides(r) = {o}
      <4>1. Touched(r) = {k}  BY <3>3, <3>4, <3>6 DEF Touched
      <4>2. Reserved(r) = {k}  BY <3>5, <4>1 DEF Reserved
      <4>3. Provides(r) = {o}  BY <3>4, <3>5, <3>6 DEF Provides, KeyCalls
      <4> QED  BY <4>2, <4>3
    <3>9. Agents \cap DOMAIN r.writes = {}  BY <3>6, Disjoint
    <3>10. Loaded(r, w, db, request)  BY <2>3, <2>4, <3>4, <3>7, <3>8, <3>9 DEF Loaded
    <3>11. (IF out.error = "ok" THEN Tail(script) ELSE << >>) = << >>  BY <3>2
    <3> QED  BY <1>1, <3>2, <3>10, <3>11, LoadInv DEF r, out, script
  <2> QED  BY <2>5, <2>6
<1> QED  BY <1>2, <1>3, <1>4 DEF Between

-----------------------------------------------------------------------------
(* The invariant.                                                          *)

LEMMA InitInv == Init => Inv
<1> SUFFICES ASSUME Init PROVE Inv  OBVIOUS
<1>1. \A x \in Rows : db[x] = Absent /\ ~Here(x, db)  BY DEF Init, Here, Absent
<1>2. DOMAIN request = Workers /\ \A w \in Workers : request[w] = Idle  BY DEF Init
<1>3. overlapped = {}  BY DEF Init
<1>4. Touched(Idle) = {} /\ Reserved(Idle) = {} /\ Provides(Idle) = {}  BY DEF Touched, Reserved, Provides, Idle
<1>5. Typed(db)  BY <1>1 DEF Typed, Rows
<1>6. \A w \in Workers : Fine(request[w], db, overlapped)  BY <1>2 DEF Fine
<1>7. Alone(request, db) /\ Exclusive(request, overlapped) /\ Sole(request)
  BY <1>2, <1>4 DEF Alone, Exclusive, Sole
<1>8. UniqueEmail(db)  BY <1>1 DEF UniqueEmail, Rows, Here
<1>9. Rooted(db) /\ Clocked(db) /\ Admitted(db, overlapped)  BY <1>1 DEF Rooted, Clocked, Admitted, Rows
<1>10. OneSandbox(db, overlapped)  BY <1>1 DEF OneSandbox, Founded, Sandbox, Rows
<1>11. Capped(request, db, overlapped)
  <2>1. \A o \in Organizations : Of(Agents, o, db) = {} /\ ~Sandbox(o, db)  BY <1>1 DEF Of, Sandbox, Rows
  <2> QED  BY <2>1, FS_EmptySet DEF Capped
<1> QED  BY <1>2, <1>3, <1>5, <1>6, <1>7, <1>8, <1>9, <1>10, <1>11 DEF Inv

LEMMA OrganizationInv ==
    ASSUME Inv, NEW w \in Workers, OrganizationRequest(w)
    PROVE  Inv'
<1>1. CASE \E o \in Unused(Organizations), u \in Unused(Users), e \in Emails :
          \/ Load(w, <<[op |-> "bootstrap", organization |-> o, user |-> u, email |-> e]>>)
          \/ Load(w, <<[op |-> "create", organization |-> o, user |-> u, email |-> e]>>)
          \/ \E k \in Unused(ApiKeys) : Load(w, create_sandbox_organization(o, u, e, k))
  <2>1. PICK o \in Unused(Organizations), u \in Unused(Users), e \in Emails :
          \/ Load(w, <<[op |-> "bootstrap", organization |-> o, user |-> u, email |-> e]>>)
          \/ Load(w, <<[op |-> "create", organization |-> o, user |-> u, email |-> e]>>)
          \/ \E k \in Unused(ApiKeys) : Load(w, create_sandbox_organization(o, u, e, k))
    BY <1>1
  <2>2. CASE Load(w, <<[op |-> "bootstrap", organization |-> o, user |-> u, email |-> e]>>)  BY <2>2, CreateLoad
  <2>3. CASE Load(w, <<[op |-> "create", organization |-> o, user |-> u, email |-> e]>>)  BY <2>3, CreateLoad
  <2>4. CASE \E k \in Unused(ApiKeys) : Load(w, create_sandbox_organization(o, u, e, k))  BY <2>4, SandboxLoad
  <2> QED  BY <2>1, <2>2, <2>3, <2>4
<1>2. ASSUME NEW o \in Organizations, NEW op \in {"deactivate", "reactivate", "archive"},
             Load(w, <<[op |-> op, organization |-> o]>>)
      PROVE  Inv'
  <2>1. Head(<<[op |-> op, organization |-> o]>>) = [op |-> op, organization |-> o]
        /\ Tail(<<[op |-> op, organization |-> o]>>) = << >>
    OBVIOUS
  <2> QED  BY <1>2, <2>1, StatusLoad
<1>3. ASSUME NEW o \in Organizations, Load(w, archive_stale_sandbox_organizations(o)) PROVE Inv'
  <2>1. Head(archive_stale_sandbox_organizations(o)) = [op |-> "deactivate", organization |-> o]
        /\ Tail(archive_stale_sandbox_organizations(o)) = ArchiveScript(o)
    BY DEF archive_stale_sandbox_organizations, ArchiveScript
  <2> QED  BY <1>3, <2>1, StatusLoad
<1>4. ASSUME NEW o \in Organizations, NEW tab \in Tabs, NEW op \in {"settings", "platform_settings"},
             Load(w, <<[op |-> op, organization |-> o, tab |-> tab]>>)
      PROVE  Inv'
  BY <1>4, SettingsLoad
<1>5. ASSUME NEW o \in Organizations, NEW a \in Unused(Agents),
             Load(w, <<[op |-> "agent", organization |-> o, agent |-> a]>>)
      PROVE  Inv'
  BY <1>5, AgentLoad
<1> QED  BY <1>1, <1>2, <1>3, <1>4, <1>5 DEF OrganizationRequest

LEMMA MemberInv ==
    ASSUME Inv, NEW w \in Workers, MemberRequest(w)
    PROVE  Inv'
<1>1. PICK o \in Organizations :
        \/ \E e \in Emails, role \in Role :
              \/ \E i \in Unused(Invitations) :
                    Load(w, <<[op |-> "invite", organization |-> o, invitation |-> i,
                               email |-> e, role |-> role]>>)
              \/ \E u \in Unused(Users) :
                    Load(w, <<[op |-> "create_user", organization |-> o, user |-> u,
                               email |-> e, role |-> role]>>)
        \/ \E i \in Invitations :
              \/ Load(w, <<[op |-> "uninvite", organization |-> o, invitation |-> i]>>)
              \/ \E u \in Unused(Users) : Load(w, <<[op |-> "accept", invitation |-> i, user |-> u]>>)
        \/ \E u \in Users :
              \/ \E role \in Role :
                    Load(w, <<[op |-> "role", organization |-> o, user |-> u, role |-> role]>>)
              \/ \E status \in {"active", "disabled"} :
                    Load(w, <<[op |-> "user_status", organization |-> o, user |-> u, status |-> status]>>)
              \/ \E e \in Emails :
                    Load(w, <<[op |-> "setup_owner", organization |-> o, user |-> u, email |-> e]>>)
  BY DEF MemberRequest
<1> QED
  BY <1>1, InviteLoad, CreateUserLoad, UninviteLoad, AcceptLoad, RoleLoad, UserStatusLoad, SetupOwnerLoad

LEMMA CredentialInv ==
    ASSUME Inv, NEW w \in Workers, CredentialRequest(w)
    PROVE  Inv'
  BY LoginLoad, LogoutLoad, ApiKeyLoad, RevokeKeyLoad DEF CredentialRequest

LEMMA NextInv == Inv /\ [Next]_vars => Inv'
<1> SUFFICES ASSUME Inv, [Next]_vars PROVE Inv'  OBVIOUS
<1>1. CASE TimePasses  BY <1>1, TimeInv
<1>2. ASSUME NEW w \in Workers, Step(w) PROVE Inv'
  <2>1. CASE OrganizationRequest(w)  BY <2>1, OrganizationInv
  <2>2. CASE MemberRequest(w)  BY <2>2, MemberInv
  <2>3. CASE CredentialRequest(w)  BY <2>3, CredentialInv
  <2>4. CASE Commit(w)  BY <2>4, CommitInv
  <2>5. CASE Continue(w)  BY <2>5, ContinueInv
  <2>6. CASE CutOff(w)  BY <2>6, EndInv DEF CutOff
  <2> QED  BY <1>2, <2>1, <2>2, <2>3, <2>4, <2>5, <2>6 DEF Step
<1>3. CASE UNCHANGED vars
  BY <1>3 DEF vars, Inv, Typed, Fine, Alone, Exclusive, Sole, UniqueEmail, Rooted, Clocked, Admitted, OneSandbox, Capped
<1> QED  BY <1>1, <1>2, <1>3 DEF Next

\* Every reachable state has it.
LEMMA InvariantHolds == Spec => []Inv
  BY InitInv, NextInv, PTL DEF Spec

-----------------------------------------------------------------------------
(* What follows from it.                                                   *)

LEMMA AtMostOne ==
    ASSUME NEW S, \A x, y \in S : x = y
    PROVE  Cardinality(S) <= 1
<1>1. CASE S = {}  BY <1>1, FS_EmptySet
<1>2. ASSUME NEW x \in S PROVE Cardinality(S) <= 1
  <2>1. S = {x}  OBVIOUS
  <2>2. Cardinality({x}) = 1  BY FS_Singleton
  <2> QED  BY <2>1, <2>2
<1> QED  BY <1>1, <1>2

LEMMA MembershipFollows == Inv => MembershipSound
<1> SUFFICES ASSUME Inv PROVE MembershipSound  OBVIOUS
<1>1. /\ Typed(db) /\ overlapped \subseteq Rows \cup Emails /\ UniqueEmail(db) /\ Clocked(db)
      /\ Admitted(db, overlapped)
  BY DEF Inv
<1>2. TypeOK  BY <1>1 DEF TypeOK, Typed
<1>3. OneUserPerEmail  BY <1>1 DEF OneUserPerEmail, In, Exists, UniqueEmail
<1>4. InvitationAdmitsOnce
  <2> SUFFICES ASSUME NEW i \in Invitations
               PROVE  LET admitted == {u \in Users : Exists(u) /\ db[u].via = i}
                      IN  /\ Undisturbed(i) => Cardinality(admitted) <= 1
                          /\ Cardinality({u \in admitted : db[u].email = db[i].email}) <= 1
                          /\ admitted # {} /\ Undisturbed(i) => db[i].status = "accepted"
    BY DEF InvitationAdmitsOnce
  <2> DEFINE admitted == {u \in Users : Exists(u) /\ db[u].via = i}
  <2>1. ASSUME NEW u \in admitted
        PROVE  /\ db[u].organization_id = db[i].organization_id
               /\ Undisturbed(i) => db[i].status = "accepted" /\ \A v \in admitted : v = u
    BY <1>1 DEF Admitted, Here, Exists, Undisturbed
  <2>2. \A u, v \in admitted : db[u].email = db[v].email => u = v
    <3>1. ASSUME NEW u \in admitted, NEW v \in admitted, db[u].email = db[v].email PROVE u = v
      <4>1. db[u].organization_id = db[v].organization_id  BY <2>1
      <4> QED  BY <1>1, <3>1, <4>1 DEF UniqueEmail, Exists
    <3> QED  BY <3>1
  <2> HIDE DEF admitted
  <2>3. Undisturbed(i) => Cardinality(admitted) <= 1  BY <2>1, AtMostOne
  <2>4. Cardinality({u \in admitted : db[u].email = db[i].email}) <= 1
    <3> DEFINE S == {u \in admitted : db[u].email = db[i].email}
    <3>1. \A u, v \in S : u = v  BY <2>2
    <3> HIDE DEF S
    <3>2. Cardinality(S) <= 1  BY <3>1, AtMostOne
    <3> QED  BY <3>2 DEF S
  <2>5. admitted # {} /\ Undisturbed(i) => db[i].status = "accepted"  BY <2>1
  <2> QED  BY <2>3, <2>4, <2>5 DEF admitted
<1>5. SessionsEnd
  <2> SUFFICES ASSUME NEW s \in Sessions, Resolves(s) PROVE db[s].age < SessionTimeout  BY DEF SessionsEnd
  <2>1. Here(s, db) /\ db[s].left # 0  BY DEF Resolves, Exists, Here
  <2>2. db[s].age \in Int  BY <1>1, <2>1, Columns, ConstantsAssumption DEF UserSession
  <2>3. db[s].left \in Nat /\ db[s].left + db[s].age = SessionTimeout  BY <1>1, <2>1 DEF Clocked
  <2> QED  BY <2>1, <2>2, <2>3, ConstantsAssumption
<1> QED  BY <1>2, <1>3, <1>4, <1>5 DEF MembershipSound

LEMMA SandboxesFollow == Inv => SandboxesSound
<1> SUFFICES ASSUME Inv PROVE SandboxesSound  OBVIOUS
<1>1. /\ Typed(db) /\ UniqueEmail(db) /\ OneSandbox(db, overlapped) /\ Capped(request, db, overlapped)
      /\ \A w \in Workers : Fine(request[w], db, overlapped)
  BY DEF Inv
<1>2. SandboxCapped
  <2> SUFFICES ASSUME NEW o \in Organizations, is_sandbox_organization(o)
               PROVE  /\ Cardinality(In(Agents, o)) < MAX_AGENTS_PER_SANDBOX + Cardinality(Workers)
                      /\ Undisturbed(o) => Cardinality(In(Agents, o)) <= MAX_AGENTS_PER_SANDBOX
    BY DEF SandboxCapped
  <2>1. In(Agents, o) = Of(Agents, o, db) /\ Sandbox(o, db)
    BY DEF In, Of, Exists, Here, Sandbox, is_sandbox_organization
  <2>2. /\ IsFiniteSet(Of(Agents, o, db))
        /\ Cardinality(Of(Agents, o, db)) + Cardinality(Pending(o, request))
              < MAX_AGENTS_PER_SANDBOX + Cardinality(Workers)
        /\ o \notin overlapped => Cardinality(Of(Agents, o, db)) <= MAX_AGENTS_PER_SANDBOX
    BY <1>1, <2>1 DEF Capped
  <2>3. Cardinality(Of(Agents, o, db)) \in Nat  BY <2>2, FS_CardinalityType
  <2>4. Cardinality(Pending(o, request)) \in Nat /\ Cardinality(Workers) \in Nat  BY FinitePending
  <2> QED  BY <2>1, <2>2, <2>3, <2>4, ConstantsAssumption DEF Undisturbed
<1>3. OneSandboxPerEmail
  <2> SUFFICES ASSUME NEW e \in Emails, Undisturbed(e)
               PROVE  Cardinality({o \in find_sandbox_organization_by_owner_email(e) :
                          /\ Undisturbed(o)
                          /\ \E u \in In(Users, o) : db[u].via = "founder" /\ db[u].email = e /\ ~db[u].edited}) <= 1
    BY DEF OneSandboxPerEmail
  <2> DEFINE S == {o \in find_sandbox_organization_by_owner_email(e) :
                     /\ Undisturbed(o)
                     /\ \E u \in In(Users, o) : db[u].via = "founder" /\ db[u].email = e /\ ~db[u].edited}
  <2>1. ASSUME NEW o \in S PROVE o \in Founded(e, db, overlapped)
    <3>1. PICK u \in In(Users, o) : db[u].via = "founder" /\ db[u].email = e /\ ~db[u].edited  BY <2>1
    <3>2. /\ o \in Organizations \ overlapped /\ is_sandbox_organization(o) /\ db[o].status # "archived"
          /\ \E v \in In(Users, o) : db[v].email = e /\ db[v].role = "owner"
      BY <2>1 DEF find_sandbox_organization_by_owner_email, Undisturbed
    <3>3. PICK v \in In(Users, o) : db[v].email = e /\ db[v].role = "owner"  BY <3>2
    <3>4. u = v  BY <1>1, <3>1, <3>3 DEF UniqueEmail, In, Exists
    <3>5. u \in Of(Users, o, db) /\ Sandbox(o, db)
      BY <3>2 DEF In, Of, Exists, Here, Sandbox, is_sandbox_organization
    <3> QED  BY <3>1, <3>2, <3>3, <3>4, <3>5 DEF Founded
  <2>2. \A o, p \in S : o = p  BY <1>1, <2>1 DEF OneSandbox, Undisturbed
  <2> HIDE DEF S
  <2>3. Cardinality(S) <= 1  BY <2>2, AtMostOne
  <2> QED  BY <2>3 DEF S
<1>4. KeyMeansStarter
  <2> SUFFICES ASSUME NEW w \in Workers, request[w].stage = "loaded", request[w].op = "sandbox_key",
                      NEW k \in DOMAIN request[w].writes
               PROVE  db[request[w].writes[k].organization_id].starter = "active"
    BY DEF KeyMeansStarter
  <2> DEFINE r == request[w]
  <2>1. Job(r, db, overlapped)  BY <1>1 DEF Fine, Idle
  <2>2. r.op = "sandbox_key" /\ k \in DOMAIN r.writes  OBVIOUS
  <2> HIDE DEF r
  <2>3. IssuingKey(r, db)
    <3>1. ~Founding(r, db, overlapped)  BY <2>2 DEF Founding, Simple
    <3>2. ~ChangingStatus(r, db, overlapped) /\ ~Provisioning(r, db)
      BY <2>2 DEF ChangingStatus, Provisioning
    <3>3. /\ ~SavingSettings(r, db, overlapped) /\ ~Inviting(r, db) /\ ~ClosingInvitation(r, db, overlapped)
          /\ ~Accepting(r, db, overlapped) /\ ~AddingUser(r, db) /\ ~EditingUser(r, db) /\ ~LoggingIn(r, db)
          /\ ~LoggingOut(r, db) /\ ~RevokingKey(r, db) /\ ~AddingAgent(r, db, overlapped)
      BY <2>2 DEF SavingSettings, Inviting, ClosingInvitation, Accepting, AddingUser, EditingUser, LoggingIn,
                  LoggingOut, RevokingKey, AddingAgent, Simple
    <3> QED  BY <2>1, <3>1, <3>2, <3>3 DEF Job
  <2>4. PICK x \in ApiKeys, o \in Organizations :
          r.writes = Row(x, [status |-> "live", organization_id |-> o]) /\ db[o].starter = "active"
    BY <2>2, <2>3 DEF IssuingKey
  <2>5. r.writes[k].organization_id = o  BY <2>2, <2>4 DEF Row
  <2> QED  BY <2>4, <2>5 DEF r
<1> QED  BY <1>2, <1>3, <1>4 DEF SandboxesSound

\* What a commit adds to an organisation that is not active: only those it had
\* invited before.
LEMMA CommitFrozen ==
    ASSUME NEW r, NEW t, NEW t2, NEW ov, Typed(t), Reads(r, t, ov), Effect(r, t, t2, ov),
           NEW o \in Organizations, Here(o, t), t[o].status # "active", o \notin ov
    PROVE  /\ Of(Invitations, o, t2) = Of(Invitations, o, t)
           /\ Of(Agents, o, t2) = Of(Agents, o, t)
           /\ \A k \in Of(ApiKeys, o, t2) \ Of(ApiKeys, o, t) : r.op = "sandbox_key" /\ k \in DOMAIN r.writes
           /\ \A u \in Of(Users, o, t2) : u \notin Of(Users, o, t) => t2[u].via \in Invitations
<1>1. o \notin r.reads  BY DEF Reads
<1>2. Kept(t, t2, DOMAIN r.writes \cup r.reads, Provides(r), ov)  BY EffectKept
<1>3. /\ \A i \in Invitations : Here(i, t) => Here(i, t2) /\ t2[i].organization_id = t[i].organization_id
      /\ \A a \in Agents \cup ApiKeys : Here(a, t) => Here(a, t2) /\ t2[a].organization_id = t[a].organization_id
      /\ \A u \in Users : Here(u, t) => Here(u, t2) /\ t2[u].organization_id = t[u].organization_id
  BY <1>2 DEF Kept, KeptInvitations, KeptOthers, KeptUsers, Here
<1>4. \A x \in Rows : Here(x, t2) /\ ~Here(x, t) => x \in DOMAIN r.writes  BY DEF Effect, Here
<1>5. ASSUME NEW i \in Invitations, Here(i, t2), ~Here(i, t) PROVE t2[i].organization_id # o
  <2>1. i \in DOMAIN r.writes  BY <1>4, <1>5 DEF Rows
  <2>2. InvitationsAfter(r, t, t2, ov)  BY DEF Effect
  <2>3. PICK p \in r.reads \cap Organizations, e \in Emails, role \in Role :
          t2[i] = [status |-> "pending", organization_id |-> p, email |-> e, role |-> role,
                   left |-> InvitationValidity]
    BY <1>5, <2>1, <2>2 DEF InvitationsAfter
  <2>4. t2[i].organization_id = p  BY <2>3
  <2> QED  BY <1>1, <2>4
<1>6. ASSUME NEW a \in Agents, Here(a, t2), ~Here(a, t) PROVE t2[a].organization_id # o
  <2>1. a \in DOMAIN r.writes  BY <1>4, <1>6 DEF Rows
  <2>2. AgentsAfter(r, t, t2, ov)  BY DEF Effect
  <2>3. PICK p \in r.reads \cap Organizations : t2[a] = [status |-> "registered", organization_id |-> p]
    BY <2>1, <2>2 DEF AgentsAfter
  <2>4. t2[a].organization_id = p  BY <2>3
  <2> QED  BY <1>1, <2>4
<1>7. ASSUME NEW u \in Users, Here(u, t2), ~Here(u, t), t2[u].organization_id = o PROVE t2[u].via \in Invitations
  <2>1. u \in DOMAIN r.writes  BY <1>4, <1>7 DEF Rows
  <2>2. Joined(u, r, t, t2, ov)  BY <1>7, <2>1 DEF Effect, UsersAfter
  <2>3. \A p, e, role, via : NewUser(p, e, role, via).organization_id = p /\ NewUser(p, e, role, via).via = via
    BY DEF NewUser
  <2>4. CASE \E p \in Organizations \cap DOMAIN r.writes, e \in Emails :
               t2[u] = NewUser(p, e, "owner", "founder") /\ ~Here(p, t)
    BY <1>7, <2>3, <2>4
  <2>5. CASE \E p \in r.reads \cap Organizations, e \in Emails, role \in Role : t2[u] = NewUser(p, e, role, NONE)
    BY <1>1, <1>7, <2>3, <2>5
  <2>6. CASE \E i \in Invitations : t2[u] = NewUser(t[i].organization_id, t[i].email, t[i].role, i)
    BY <2>3, <2>6
  <2> QED  BY <2>2, <2>4, <2>5, <2>6 DEF Joined
<1>8. ASSUME NEW k \in ApiKeys, Here(k, t2), t2[k].organization_id = o, k \notin Of(ApiKeys, o, t)
      PROVE  r.op = "sandbox_key" /\ k \in DOMAIN r.writes
  <2>1. ~Here(k, t)  BY <1>3, <1>8 DEF Of
  <2>2. k \in DOMAIN r.writes  BY <1>4, <1>8, <2>1 DEF Rows
  <2>3. PICK p \in Organizations :
          /\ t2[k] = [status |-> "live", organization_id |-> p]
          /\ r.op # "sandbox_key" => p \in r.reads
    BY <2>1, <2>2 DEF Effect, KeysAfter
  <2>4. p = o  BY <1>8, <2>3
  <2> QED  BY <1>1, <2>2, <2>3, <2>4
<1> QED  BY <1>3, <1>5, <1>6, <1>7, <1>8 DEF Of

Respects ==
    /\ \A o \in Organizations :
          Exists(o) /\ db[o].status # "active" /\ o \notin overlapped' =>
              /\ In(Invitations, o)' = In(Invitations, o)
              /\ In(Agents, o)' = In(Agents, o)
              /\ \A k \in In(ApiKeys, o)' \ In(ApiKeys, o) : Provisioned(k)
              /\ \A u \in In(Users, o)' : u \notin In(Users, o) => db'[u].via \in Invitations
    /\ \A o \in Organizations :
          Exists(o) /\ db[o].status = "archived" /\ o \notin overlapped' => db'[o].status = "archived"
    /\ \A o \in Organizations :
          Exists(o) /\ o \notin overlapped' => db[o].settings \subseteq db'[o].settings

\* A step that does nothing to the tables respects everybody.
LEMMA SameRespects ==
    ASSUME UNCHANGED db
    PROVE  Respects
<1>1. \A table, o : In(table, o)' = In(table, o)  BY DEF In, Exists
<1> QED  BY <1>1 DEF Respects

LEMMA CommitRespects ==
    ASSUME Inv, NEW w \in Workers, Commit(w)
    PROVE  Respects
<1> DEFINE r == request[w]
           t2 == After(db, r.writes)
<1>1. r.stage = "loaded" /\ overlapped' = overlapped  BY DEF Commit
<1>2. r # Idle /\ Job(r, db, overlapped) /\ Typed(db)  BY <1>1 DEF Inv, Fine, Idle
<1>3. db' = t2 \/ UNCHANGED db  BY DEF Commit, After
<1>4. CASE db' = t2
  <2>1. Effect(r, db, t2, overlapped) /\ Reads(r, db, overlapped)  BY <1>2, JobEffect DEF Job
  <2> HIDE DEF t2
  <2>2. Kept(db, t2, DOMAIN r.writes \cup r.reads, Provides(r), overlapped)  BY <1>2, <2>1, EffectKept
  <2> HIDE DEF r
  <2>3. \A o \in Organizations : Exists(o) /\ db[o].status # "active" /\ o \notin overlapped =>
              /\ Of(Invitations, o, t2) = Of(Invitations, o, db)
              /\ Of(Agents, o, t2) = Of(Agents, o, db)
              /\ \A k \in Of(ApiKeys, o, t2) \ Of(ApiKeys, o, db) : Provisioned(k)
              /\ \A u \in Of(Users, o, t2) : u \notin Of(Users, o, db) => t2[u].via \in Invitations
    <3>1. \A k \in ApiKeys : r.op = "sandbox_key" /\ k \in DOMAIN r.writes => Provisioned(k)
      BY <1>1 DEF Provisioned, r
    <3>2. \A o : Of(ApiKeys, o, t2) \subseteq ApiKeys  BY DEF Of
    <3> QED  BY <1>2, <2>1, <3>1, <3>2, CommitFrozen DEF Exists, Here
  <2>4. \A table, o : In(table, o) = Of(table, o, db) /\ In(table, o)' = Of(table, o, t2)
    BY <1>4 DEF In, Of, Exists, Here
  <2>5. \A o \in Organizations : Exists(o) /\ o \notin overlapped =>
              /\ db[o].status = "archived" => t2[o].status = "archived"
              /\ db[o].settings \subseteq t2[o].settings
    BY <2>2 DEF Kept, KeptOrganizations, Exists, Here
  <2> QED  BY <1>1, <1>4, <2>3, <2>4, <2>5 DEF Respects
<1> QED  BY <1>3, <1>4, SameRespects

LEMMA TimeRespects ==
    ASSUME Inv, TimePasses
    PROVE  Respects
<1>1. Typed(db)  BY DEF Inv
<1>2. /\ \A o \in Organizations : Here(o, db) => db'[o].status = db[o].status /\ db'[o].settings = db[o].settings
      /\ \A i \in Invitations : Here(i, db) => db'[i].organization_id = db[i].organization_id
      /\ \A u \in Users \cup ApiKeys \cup Agents : db'[u] = db[u]
      /\ \A x \in Rows : Here(x, db') <=> Here(x, db)
  BY <1>1, TickRows, TickKept
<1>3. \A o : /\ In(Invitations, o)' = In(Invitations, o) /\ In(Agents, o)' = In(Agents, o)
             /\ In(Users, o)' = In(Users, o) /\ In(ApiKeys, o)' = In(ApiKeys, o)
  BY <1>2 DEF In, Exists, Here, Rows
<1> QED  BY <1>2, <1>3 DEF Respects, Exists, Here

LEMMA NextRespects == Inv /\ [Next]_vars => [Respects]_vars
<1> SUFFICES ASSUME Inv, Next PROVE Respects  BY DEF vars
<1>1. CASE TimePasses  BY <1>1, TimeRespects
<1>2. ASSUME NEW w \in Workers, Step(w) PROVE Respects
  <2>1. \A script : Load(w, script) => UNCHANGED db  BY DEF Load
  <2>2. CASE OrganizationRequest(w)  BY <2>1, <2>2, SameRespects DEF OrganizationRequest
  <2>3. CASE MemberRequest(w)  BY <2>1, <2>3, SameRespects DEF MemberRequest
  <2>4. CASE CredentialRequest(w)  BY <2>1, <2>4, SameRespects DEF CredentialRequest
  <2>5. CASE Commit(w)  BY <2>5, CommitRespects
  <2>6. CASE Continue(w)  BY <2>1, <2>6, SameRespects DEF Continue
  <2>7. CASE CutOff(w)  BY <2>7, SameRespects DEF CutOff
  <2> QED  BY <1>2, <2>2, <2>3, <2>4, <2>5, <2>6, <2>7 DEF Step
<1> QED  BY <1>1, <1>2 DEF Next

-----------------------------------------------------------------------------
(* The theorems.                                                           *)

\* Whatever requests race to create, invite, accept, edit and log in: a row
\* keeps its type, an email is one user of an organisation, an invitation
\* that no two requests worked on at once admits one person (and otherwise one
\* per email), and no session resolves after its timeout.
THEOREM MembershipIsSound == Spec => []MembershipSound
<1> QED  BY InvariantHolds, MembershipFollows, PTL

\* POST /v1/sandbox, cut off anywhere and raced by others: the cap on agents is
\* exceeded by less than the number of requests in flight and not at all when
\* none overlapped, a developer founds one sandbox at a time, and a sandbox's
\* API key is issued only with its starter policy deployed.
THEOREM SandboxesAreSound == Spec => []SandboxesSound
<1> QED  BY InvariantHolds, SandboxesFollow, PTL

\* No step gives a deactivated organisation invitations, agents or uninvited
\* members, revives an archived one, or drops a tab of settings, unless two
\* requests overlapped on that organisation; nor an API key, unless it is the
\* last commit of the sandbox provisioning that was under way.
THEOREM TenantsAreRespected == Spec => TenantsRespected
<1>1. Spec => [][Respects]_vars  BY InvariantHolds, NextRespects, PTL DEF Spec
<1>2. [Respects]_vars =>
        [\A o \in Organizations :
          Exists(o) /\ db[o].status # "active" /\ o \notin overlapped' =>
              /\ In(Invitations, o)' = In(Invitations, o)
              /\ In(Agents, o)' = In(Agents, o)
              /\ \A k \in In(ApiKeys, o)' \ In(ApiKeys, o) : Provisioned(k)
              /\ \A u \in In(Users, o)' : u \notin In(Users, o) => db'[u].via \in Invitations]_vars
  BY DEF Respects
<1>3. [Respects]_vars =>
        [\A o \in Organizations :
          Exists(o) /\ db[o].status = "archived" /\ o \notin overlapped' =>
              db'[o].status = "archived"]_vars
  BY DEF Respects
<1>4. [Respects]_vars =>
        [\A o \in Organizations :
          Exists(o) /\ o \notin overlapped' => db[o].settings \subseteq db'[o].settings]_vars
  BY DEF Respects
<1> QED  BY <1>1, <1>2, <1>3, <1>4, PTL DEF TenantsRespected, DeactivatedIsFrozen, ArchivedIsFinal, SettingsMerged

=============================================================================
