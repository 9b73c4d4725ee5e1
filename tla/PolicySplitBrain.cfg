SPECIFICATION Spec

CONSTANTS
    Keys = {k1, k2}
    MaxVersion = 1
    Sessions = {s1, s2}
    Nobody = Nobody
    Deciders = {}
    Operations = {"submit", "approve", "compile", "deploy"}
    MaxAttempts = 3
    MaxFaults = 0
    MaxLast = 0

INVARIANT EveryActiveEnforced

