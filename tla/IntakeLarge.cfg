SPECIFICATION Spec

CONSTANTS
    Agents = {a1, a2}
    Identities = {i1, i2}
    Direct = Direct
    Nonces = {n1, n2}
    Operations = {o1}
    NoOperation = NoOperation
    Meanings = {m1}
    Outcomes = {"ALLOW", "HUMAN_REVIEW"}
    Sessions = {s1, s2}
    Unstable = {"organization"}

SYMMETRY Symmetry

INVARIANTS
    TypeOK
    NonceOnce
    OperationDecidedOnce
    AnswerIsRecorded
    RefusalJustified
    EndedNeverAdmitted
