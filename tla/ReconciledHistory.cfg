SPECIFICATION MCSpec
CHECK_DEADLOCK FALSE
CONSTANTS
    Clients = {c1, c2}
    Workers = {w1, w2}
    MaxAttempts = 2
    MaxPolls = 2
    MaxLate = 1
    MaxClock = 3
    Destinations = {d1, d2}
    ReceiptStatuses = {"ACCEPTED", "SUCCEEDED"}
    NONE = NONE
    p1 = p1
    p2 = p2
    p3 = p3
    k1 = k1
    k3 = k3
    m1 = m1
    m2 = m2
    n2 = n2
    Processes = {p1, p2, p3}
    ConfiguredKey <- MCConfiguredKey
    NewKeys = {n1, n2}
    AgentIds = {a1, a2}
    MaxTries = 2
    Instances = {i1, i2}
    SigningKeys <- MCSigningKeys
    Nothing = Nothing
INVARIANT
    ReconciledOnTheRecords
