SPECIFICATION Spec
CONSTANTS
    Fields <- MCFields
    Section <- MCSection
    IntentFields <- MCIntentFields
    Vocabulary = {"disable_user"}
    KnownScopes = {}
    Values <- MCValues
    Texts <- MCTexts
    Lists <- MCLists
    Containing <- MCContaining
    None = None
    Absent = Absent
    Questions <- MCQuestions
    Keys <- MCKeys
    Policies <- MCPolicies
    Principals = {"cfo", "clerk"}
    Inputs <- MCInputs
    Clients = {"c1", "c2"}
    Deciders = {"d1"}
    FactSources = {"s1", "s2"}
    Nonces = {1}
    MaxVersion = 3
    MaxSchedules = 2
    MaxFaults = 1
    Areas = {"rules"}
INVARIANT
    CompilerAnswers
CHECK_DEADLOCK FALSE
