SPECIFICATION TableSpec
CONSTANTS
    c1 = c1
    c2 = c2
    Runs <- MCRuns
    Ops <- MCOps
    Waiters = {}
    RunOf <- MCRunOf
    ModeOf <- MCModeOf
    Timed = {}
    CallOf <- MCCallOf
    ParentOf <- MCParentOf
    NoRun = "none"
    Callers = {c1, c2}
    Hooks <- MCHooks
    HookRun <- MCHookRun
    EmitKinds = {"Progress", "Completed"}
    MaxEvents = 2
SYMMETRY MCSymmetry
INVARIANTS
    LogAgreesWithState
    StoreFollowsTable
    HooksFollowCancel
    TreeIsCancelled
PROPERTIES
    TerminalIsFinal
