SPECIFICATION MCSpec
CONSTANTS
    Runs = {"r1"}
    Ops <- MCOps
    Waiters <- MCOps
    RunOf <- MCRunOf
    ModeOf <- MCModeOf
    Timed = {}
    CallOf <- MCCallOf
    ParentOf <- MCParentOf
    NoRun = "none"
    Callers = {"task", "host"}
    Hooks = {}
    HookRun <- MCHookRun
    EmitKinds = {}
    MaxEvents = 1
    Run = "r1"
    Task = "task"
    Host = "host"
    Tools <- MCTools
    PolicyOf <- MCPolicyOf
    AskMode <- MCAskMode
    ParallelSafe = {"read"}
    Ids = {"a", "b"}
    Turns <- MCTwice
    MaxCalls = 2
    U32Max = 5
    Limits <- MCTwiceLimits
    HostOps = {}
    NoOp = "no op"
INVARIANTS
    ExecutesAtMostOnce
CHECK_DEADLOCK FALSE
