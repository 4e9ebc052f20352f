SPECIFICATION PythonSpec
CONSTANTS
    Capacity = 1
    MaxEvents = 6
    QueueSize = 2
INVARIANTS
    DeliveredInOrder
    ResultTellsTheEnd
    ProgramSeesTheRun
PROPERTIES
    WaitsForTheRunEnd
CHECK_DEADLOCK FALSE
