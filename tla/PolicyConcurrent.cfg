SPECIFICATION MCFairSpec

CONSTANTS
    k1 = k1
    Keys = {k1, k2}
    MaxVersion = 2
    Sessions = {s1, s2}
    Nobody = Nobody
    Deciders = {}
    Operations = {"submit", "approve", "compile", "edit", "retire", "deploy"}
    MaxAttempts = 3
    MaxFaults = 1
    MaxLast = 1

INVARIANTS
    OpaServesPolicyRow
    OneActiveVersion

PROPERTY RequestsEnd
