CONSTANTS
    Txns = {t1, t2}
    Orgs = {o1}
    NoOrg = NoOrg
    Ids = {e1, e2, e3}
    NoId = NoId
    NoTxn = NoTxn
    MaxTime = 1
SPECIFICATION ChainSpec
INVARIANT RangeVerificationIntact
