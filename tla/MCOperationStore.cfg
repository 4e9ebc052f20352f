SPECIFICATION StoreSpec
CONSTANTS
    Runs <- MCRuns
    Ops <- MCOps
    Waiters <- MCWaiters
    RunOf <- MCRunOf
    ModeOf <- MCModeOf
    Timed <- MCTimed
    CallOf <- MCCallOf
INVARIANTS
    NoLiveOpInTerminalRun
    WaiterToldTheAnswer
    AnswerOnRecord
PROPERTIES
    SettledIsFinal
    WaitersAreWoken
