SPECIFICATION StoresSpec
CONSTANTS
    Sessions <- StoreSessions
    Clients = {a, b}
    Removable <- RemovableSessions
    MaxRevision = 2
    MaxSaid = 5
    MaxResults = 2
    MaxMessages <- PruneLimits
    Processes = {c1, c2}
    Width <- Widths
    Secrets <- LongSecrets
    Garbage <- Damaged
    MaxUnits = 2
    MaxChunks = 2
    NoSecret = none
    Faults = {"get", "set", "late", "delete", "exit", "damage"}
    MaxGens = 3
    MaxCalls = 3
    MaxFaults = 1
    Threads = {t1, t2}
    Keys = {k, l}
    VaultSecrets = {"x"}
    Passwords = {"right", "wrong"}
    NoPassword = none
    VaultFaults = {"open", "write", "sync", "permissions", "rename", "exit"}
    MaxSalts = 2
    MaxUses = 4
    MaxFailures = 2
SYMMETRY AlikeClients
INVARIANTS
    AcceptedIsStored
    PairsStayTogether
    SecretsStayWhole
PROPERTIES
    NoLostUpdate
    NoResurrection
    KeepsTheRecent
    KeyringIsSecretStore
CHECK_DEADLOCK FALSE
