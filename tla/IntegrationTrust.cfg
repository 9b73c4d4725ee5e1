SPECIFICATION Spec
CONSTANTS
    Contracts = {c1}
    Operations = {opA, opB}
    WellFormed = {opA, opB}
    Identities = {i1}
    Bindings = {b1, b2}
    Environments = {prod}
    Agents = {a1}
    Workers = {w1, w2}
    MaxCertificates = 2
    NONE = NONE
SYMMETRY Symmetry
ACTION_CONSTRAINT MeetOrWait
CONSTRAINT OneRace
INVARIANTS
    ActivationSound
    RecordsSound
PROPERTIES
    EndedStaysEnded
CHECK_DEADLOCK FALSE
