----------------------------- MODULE MCTenancy -----------------------------
EXTENDS Tenancy, TLC

\* The operations of one area, together with the organisation's own life
\* cycle.  A behaviour stays in one area: a state of the model where members,
\* logins, settings and sandboxes all vary at once is a product of states of
\* the areas, and every property below is about one of them.
Lifecycle == {"deactivate", "reactivate", "archive"}

Area ==
    [members  |-> {"bootstrap", "invite", "uninvite", "accept", "setup_owner"} \cup Lifecycle,
     logins   |-> {"bootstrap", "create", "user_status", "login", "logout"},
     sandbox  |-> {"sandbox", "starter", "sandbox_key"} \cup Lifecycle,
     guests   |-> {"sandbox", "invite", "accept"},
     caps     |-> {"sandbox", "agent"} \cup Lifecycle,
     users    |-> {"create", "create_user", "role"},
     settings |-> {"create", "settings", "platform_settings", "api_key", "revoke_key"}
                      \cup Lifecycle]

\* Organisations a behaviour of the area may create
Tenants == [members |-> 1, logins |-> 2, sandbox |-> 2, guests |-> 2, caps |-> 1, users |-> 1, settings |-> 1]

VARIABLE area

MCInit == Init /\ area \in DOMAIN Area

\* A Step, without the requests no area of this kind makes
AreaStep(w) ==
    \/ /\ request[w] = Idle
       /\ \/ OrganizationRequest(w)
          \/ area \in {"members", "logins", "guests", "users"} /\ MemberRequest(w)
          \/ area \in {"logins", "settings"} /\ CredentialRequest(w)
    \/ Commit(w) \/ Continue(w) \/ CutOff(w)

MCNext ==
    /\ TimePasses \/ \E w \in Workers : AreaStep(w)
    /\ UNCHANGED area
    /\ \A w \in Workers : request'[w].stage = "loaded" => request'[w].op \in Area[area]
    /\ Cardinality({o \in Organizations : db'[o] # Absent}) <= Tenants[area]
MCSpec == MCInit /\ [][MCNext]_<<vars, area>>

Symmetry == Permutations(Emails) \cup Permutations(Workers)

Busy(w) == request[w] # Idle

\* The rows of a request, those of the calls it still has to make included
Ahead(r) ==
    Touched(r) \cup (IF r = Idle THEN {} ELSE {c.organization : c \in Range(r.script)})

\* Requests that share no row commute: a second one starts only when it meets
\* the first.
MeetOrWait ==
    \A w \in Workers :
        ~Busy(w) /\ Busy(w)' /\ (\E v \in Workers : Busy(v)) =>
            \E v \in Workers : Ahead(request[v]) \cap Touched(request'[w]) # {}

\* Up to and through one race
OneRace == overlapped = {} \/ \E w \in Workers : Busy(w)
=============================================================================
