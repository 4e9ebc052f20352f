SPECIFICATION MCSpec
CONSTANTS
    Runs = {"r1"}
    Ops <- MCOps
    Waiters <- MCOps
    RunOf <- MCRunOf
    ModeOf <- MCModeOf
    Timed = {"commit1"}
    CallOf <- MCCallOf
    ParentOf <- MCParentOf
    NoRun = "none"
    Callers = {"task", "host"}
    Hooks = {}
    HookRun <- MCHookRun
    EmitKinds = {}
    MaxEvents = 1
    Run = "r1"
    Task = "task"
    Host = "host"
    Tools <- MCTools
    PolicyOf <- MCPolicyOf
    AskMode <- MCAskMode
    ParallelSafe <- MCParallelSafe
    Ids = {"a", "b"}
    Turns <- MCTurns
    MaxCalls = 2
    U32Max = 5
    Limits <- MCLimits
    HostOps = {"commit3"}
    NoOp = "no op"
INVARIANTS
    ExecutionsAreCovered
    ExecutesAtMostOnce
    NothingStaysOpen
PROPERTIES
    CancelEndsTask
    RunEnds
CHECK_DEADLOCK FALSE
