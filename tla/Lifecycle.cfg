SPECIFICATION MCFairSpec

CONSTANTS
    Decisions = {d1}
    Mediated = {d1}
    Sessions = {s1, s2}
    TTL = 0
    MaxTime = 1
    NoDecision = NoDecision
    Admins = {a1, a2}
    Certs = {c1, c2, c3}
    NoCert = NoCert

INVARIANTS
    ReviewEvidenceExact
    EndedPartyNeverUsed
    CertificateFollowsStatus

PROPERTIES
    ImplementsPermission
    RequestsEnd
    EndedAloneIsFinal

CHECK_DEADLOCK FALSE
