SPECIFICATION LaunchSpec
CONSTANTS
    Runs <- MCRuns
    Sessions <- MCSessions
    NoSession = "no session"
    Providers <- MCProviders
    Requests <- MCRequests
    Stem <- MCStem
    Attached <- MCAttached
    Held <- MCHeld
    Faults <- MCFaults
INVARIANTS
    StoredAsItEnded
    ProviderStateFits
PROPERTIES
    HandledRunsEnd
CHECK_DEADLOCK FALSE
