SPECIFICATION FairSpec

CONSTANTS
    Agents = {a1, a2}
    Identities = {i1, i2}
    Direct = Direct
    Nonces = {n1}
    Operations = {o1}
    NoOperation = NoOperation
    Meanings = {m1}
    Outcomes = {"HUMAN_REVIEW"}
    Sessions = {s1, s2}
    Unstable = {"organization"}
INVARIANTS
    OperationDecidedOnce
    AnswerIsRecorded
    RefusalJustified
    EndedNeverAdmitted
PROPERTIES
    RequestsEnd
