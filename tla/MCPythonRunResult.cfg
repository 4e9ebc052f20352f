SPECIFICATION PythonSpec
CONSTANTS
    Capacity = 1
    MaxEvents = 6
    QueueSize = 2
PROPERTIES
    ResultCompletes
CHECK_DEADLOCK FALSE
