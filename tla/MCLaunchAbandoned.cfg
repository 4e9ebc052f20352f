SPECIFICATION LaunchSpec
CONSTANTS
    Runs <- MCRuns
    Sessions <- MCSessions
    NoSession = "no session"
    Providers <- MCProviders
    Requests <- MCRequests
    Stem <- MCStem
    Attached <- MCAttached
    Held = {}
    Faults <- MCFaults
PROPERTIES
    StartedRunsEnd
CHECK_DEADLOCK FALSE
