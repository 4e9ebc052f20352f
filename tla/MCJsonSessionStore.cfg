SPECIFICATION LiveJsonSpec
CONSTANTS
    Sessions <- MCSessions
    Clients <- MCClients
    Removable <- MCRemovable
    MaxRevision = 1
    NoOne = NoOne
INVARIANTS
    IndexFollowsRecords
PROPERTIES
    ImplementsSessionStore
    CallsReturn
