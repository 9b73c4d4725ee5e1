SPECIFICATION Spec

CONSTANTS
    Keys = {k1}
    MaxVersion = 2
    Sessions = {s1}
    Nobody = Nobody
    Deciders = {d1}
    Operations = {"submit", "approve", "reject", "compile", "edit", "archive", "retire", "deploy"}
    MaxAttempts = 3
    MaxFaults = 0
    MaxLast = 0

INVARIANT DecisionPinned

