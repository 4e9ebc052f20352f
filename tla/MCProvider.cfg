SPECIFICATION ProviderSpec
CONSTANTS
    Calls <- EngineCalls
    MaxImages = 2
    MaxUrl = 3
    MaxInline = 2
    MaxBody = 3
    Minute = 4
    Hints <- ServerWaits
    Bodies <- StreamBodies
    Answers <- ChatAnswers
    Plans <- ResponsePlans
    MaxAgain = 1
    Texts <- FilterTexts
    Marked <- MarkedTexts
    Configs <- HistoryConfigs
    CallIds = {1, 2}
    CallLists <- CalledIds
    Imports <- ImportedSessions
    MaxRuns = 2
    MaxSaid = 5
INVARIANTS
    AnswersArriveWhole
    NoTurnFromAFailure
    WorkIsAskedOnce
    HistoryIsTold
PROPERTY
    CallsEnd
CHECK_DEADLOCK FALSE
