SPECIFICATION MCSpec
CONSTANTS
    d1 = d1
    d2 = d2
    d3 = d3
    r1 = r1
    r2 = r2
    r3 = r3
    k1 = k1
    k2 = k2
    q1 = q1
    boss = boss
    clerk = clerk
    clerk_ = clerk_
    aide = aide
    Discoveries = {d1, d2, d3}
    Relationships = {r1, r2, r3}
    Candidates = {k1, k2}
    Questions = {q1}
    Principals = {p1, p2}
    Foreign = {x1}
    Names = {boss, clerk, clerk_, aide}
    Strip <- MCStrip
    Graphs <- MCGraphs
    Uploads <- MCUploads
    Contents <- MCContents
    Workers = {w1}
    MaxDocuments = 1
    MaxApprovals = 2
    MaxPolicies = 2
    MAX_APPROVAL_VERSION_ATTEMPTS = 2
    NONE = NONE
INVARIANT CompiledHasAuthority
CHECK_DEADLOCK FALSE
