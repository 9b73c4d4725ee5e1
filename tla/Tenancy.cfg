SPECIFICATION MCSpec
CONSTANTS
    Organizations = {o1, o2}
    Users = {u1, u2, u3}
    Emails = {e1, e2, e3}
    Invitations = {i1}
    Sessions = {s1}
    ApiKeys = {k1, k2}
    Agents = {a1, a2}
    Tabs = {t1, t2}
    Workers = {w1, w2}
    SessionTimeout = 2
    InvitationValidity = 1
    MAX_AGENTS_PER_SANDBOX = 1
    NONE = NONE
SYMMETRY Symmetry
ACTION_CONSTRAINT MeetOrWait
CONSTRAINT OneRace
INVARIANTS
    MembershipSound
    SandboxesSound
PROPERTIES
    TenantsRespected
CHECK_DEADLOCK FALSE
