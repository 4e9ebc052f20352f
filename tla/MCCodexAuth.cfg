SPECIFICATION MCSpec
CONSTANTS
    Accounts = {"a", "b"}
    NoAccount = "no account"
    Callers = {c1, c2, c3}
    NoCaller = NoCaller
    LegacyAccount = "a"
    Faults = {"get", "set", "delete", "network", "restart"}
    Answers <- MCAnswers
    MaxGrants = 4
    MaxCalls = 3
    MaxFaults = 1
SYMMETRY CallerSymmetry
INVARIANTS
    NothingStaysLocked
    CacheAndStoreAgree
PROPERTIES
    NeverSendsSpentToken
CHECK_DEADLOCK FALSE
