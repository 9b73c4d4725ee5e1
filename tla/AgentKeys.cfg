SPECIFICATION AgentSpec

CONSTANTS
    Admins = {a1, a2}
    Certs = {c1, c2}
    NoCert = NoCert

INVARIANT EndedHasNoKey

CHECK_DEADLOCK FALSE
