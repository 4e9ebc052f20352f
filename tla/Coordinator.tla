----------------------------- MODULE Coordinator -----------------------------
(***************************************************************************)
(* AgentCoordinator::run_registered_model_tool_loop, the task that drives  *)
(* one run: it asks the model for a turn, executes the tools the turn      *)
(* calls, each under the policy and, where the policy says so, after a     *)
(* host has approved it, and when the loop is over finishes the run.       *)
(*                                                                         *)
(* The task is composed with the run table and the operation store.  The   *)
(* calls of a parallel turn are joined in one task, which means that they  *)
(* interleave at their awaits only; hosts, which cancel the run and answer *)
(* its operations from threads of their own, interleave everywhere.        *)
(***************************************************************************)
EXTENDS RunTable, FiniteSets

CONSTANTS
    Run,            \* the run this task is for
    Task, Host,     \* the callers: the task itself, and a host that cancels
    Tools,
    PolicyOf,       \* PolicyOf[t]: what comes of a call of tool t before it executes
    AskMode,        \* AskMode[t]: the mode of the operation if approval is required
    ParallelSafe,   \* tools whose descriptor says parallel_safe
    Ids,            \* tool invocation identifiers
    Turns,          \* the turns the provider may return
    MaxCalls,       \* bound: calls in one turn
    U32Max,         \* u32::MAX, which disables a limit and where counts saturate
    Limits,         \* the RunLimits that the run may be started with
    HostOps,        \* operations that a host sharing the table registers itself
    NoOp

Policies == {"Allow", "Deny", "RequireApproval", "FactsError", "BadArguments", "Unregistered"}
Reasons == {"Incomplete", "SummaryOnly", "ProviderRequested"}
DefaultLimit == [Incomplete |-> 2, SummaryOnly |-> 1, ProviderRequested |-> 4]
Terminals == {"Stop", "ToolCalls", "Cancelled", "Error"} \union Reasons
Slots == 1..MaxCalls

ASSUME CoordinatorAssumption ==
    /\ Run \in Runs /\ {Task, Host} \subseteq Callers /\ Task # Host
    /\ PolicyOf \in [Tools -> Policies]
    /\ AskMode \in [Tools -> Modes]
    /\ ParallelSafe \subseteq Tools
    /\ \A t \in Turns :
        /\ t.terminal \in Terminals
        /\ t.calls \in Seq([id : Ids, tool : Tools]) /\ Len(t.calls) <= MaxCalls
    /\ MaxCalls \in Nat /\ U32Max \in Nat
    /\ Limits \subseteq [max_model_rounds : 0..U32Max, max_tool_invocations : 0..U32Max]
    /\ HostOps \subseteq Ops /\ NoOp \notin Ops
    /\ Waiters = Ops
    /\ \A o \in Ops : CallOf[o] = [run |-> RunOf[o], op |-> o, mode |-> ModeOf[o]]

VARIABLES
    limits,         \* the RunLimits of the run
    lpc,            \* where the loop is
    rounds,         \* model rounds consumed
    invocations,    \* tool invocations consumed
    conts,          \* conts[reason]: continuations counted
    calls,          \* the calls of the current turn
    spc,            \* spc[k]: where call k of the turn is
    sop,            \* sop[k]: the operation call k waits or waited for
    ledger,         \* the invocations whose result is on record
    execs           \* history: execs[id], how often an executor was started

loopVars == <<lpc, rounds, conts, calls>>
slotVars == <<invocations, spc, sop, ledger, execs>>
coordVars == <<loopVars, slotVars>>
allVars == <<vars, coordVars>>

MaxRounds == limits.max_model_rounds
MaxInvocations == limits.max_tool_invocations
IsUnlimited == MaxRounds = U32Max /\ MaxInvocations = U32Max

CoordinatorInit ==
    /\ limits \in Limits
    /\ StoreInit
    /\ runState = [r \in Runs |-> "Running"]
    /\ events = [r \in Runs |-> <<[seq |-> 1, kind |-> "RunStarted"]>>]
    /\ hooks = {} /\ called = [h \in Hooks |-> 0]
    /\ cpc = [c \in Callers |-> "idle"] /\ crun = [c \in Callers |-> NoRun]
    /\ cevent = [c \in Callers |-> "None"] /\ chooks = [c \in Callers |-> {}]
    /\ ctodo = [c \in Callers |-> {}] /\ ctree = [c \in Callers |-> {}]
    /\ lpc = "top" /\ rounds = 0 /\ invocations = 0
    /\ conts = [reason \in Reasons |-> 0]
    /\ calls = <<>>
    /\ spc = [k \in Slots |-> "off"] /\ sop = [k \in Slots |-> NoOp]
    /\ ledger = {} /\ execs = [id \in Ids |-> 0]

LoopSites == {"top", "turn", "tools", "completed", "failed", "finishFailed", "finishing", "done"}

\* A call at one of these goes on without an await.
BetweenAwaits == {"register", "awaiting", "request", "wait", "start", "exec", "settleOk", "settleErr",
                  "record", "invalidStart", "finish"}
SlotSites == {"off", "dispatch", "waiting", "running", "ok", "err"} \union BetweenAwaits

CoordinatorTypeOK ==
    /\ TypeOK
    /\ limits \in Limits
    /\ lpc \in LoopSites
    /\ rounds \in 0..MaxRounds /\ invocations \in 0..MaxInvocations
    /\ \A reason \in Reasons : conts[reason] \in 0..DefaultLimit[reason]
    /\ spc \in [Slots -> SlotSites]
    /\ sop \in [Slots -> Ops \union {NoOp}]
    /\ ledger \subseteq Ids
    /\ \A k \in Slots : spc[k] # "off" => k <= Len(calls)

----------------------------------------------------------------------------
(* The loop.                                                               *)

\* check_wall_time: the wall time of the run may be used up whenever it is
\* looked at; an unlimited run has Duration::MAX.
WallTimeChecks == IF IsUnlimited THEN {"Ok"} ELSE {"Ok", "WallTime"}

\* Mutant: the limit itself is let through.
ReachedOneMore(n, limit) == limit # U32Max /\ n > limit

\* A count is at its limit, and the limit is not disabled.
Reached(n, limit) == limit # U32Max /\ n >= limit

\* saturating_add.
OneMore(n) == IF n < U32Max THEN n + 1 ELSE n

\* consume_model_round counts the round before it looks at the wall time.
ConsumeModelRound ==
    \/ Reached(rounds, MaxRounds) /\ lpc' = "failed" /\ UNCHANGED rounds
    \/ /\ ~Reached(rounds, MaxRounds)
       /\ rounds' = OneMore(rounds)
       /\ \E time \in WallTimeChecks : lpc' = IF time = "Ok" THEN "turn" ELSE "failed"

LoopTop ==
    /\ lpc = "top"
    /\ \/ IsCancelled(Run) /\ lpc' = "failed" /\ UNCHANGED rounds
       \/ ~IsCancelled(Run) /\ ConsumeModelRound
    /\ UNCHANGED <<vars, conts, calls, slotVars>>

\* While the provider streams, its sink emits; an error of emit is ignored.
TurnStreams ==
    /\ lpc = "turn"
    /\ Room(Run)
    /\ Emit(Run, "Progress")
    /\ UNCHANGED <<storeVars, coordVars>>

\* The select: the run is cancelled, or the provider fails.
TurnFails ==
    /\ lpc = "turn"
    /\ lpc' = "failed"
    /\ UNCHANGED <<vars, rounds, conts, calls, slotVars>>

Parallel(cs) ==
    Len(cs) > 1 /\ \A k \in 1..Len(cs) : cs[k].tool \in ParallelSafe

\* Mutant: one continuation more than the reason allows.
ContinuesOnceMore(t) ==
    /\ t.terminal \in Reasons
    /\ \/ IsUnlimited /\ lpc' = "top" /\ UNCHANGED conts
       \/ /\ ~IsUnlimited
          /\ IF conts[t.terminal] > DefaultLimit[t.terminal]
             THEN lpc' = "failed" /\ UNCHANGED conts
             ELSE lpc' = "top" /\ conts' = [conts EXCEPT ![t.terminal] = @ + 1]
    /\ UNCHANGED <<calls, spc>>

\* try_begin: another round for the same turn, as often as the reason allows,
\* or, in an unlimited run, whenever the turn asks for it.
Continues(t) ==
    /\ t.terminal \in Reasons
    /\ \/ IsUnlimited /\ lpc' = "top" /\ UNCHANGED conts
       \/ /\ ~IsUnlimited
          /\ IF conts[t.terminal] >= DefaultLimit[t.terminal]
             THEN lpc' = "failed" /\ UNCHANGED conts
             ELSE lpc' = "top" /\ conts' = [conts EXCEPT ![t.terminal] = @ + 1]
    /\ UNCHANGED <<calls, spc>>

Replies(t) ==
    /\ t.terminal \notin Reasons
    /\ t.calls = <<>> \/ t.terminal # "ToolCalls"
    /\ lpc' = "completed"
    /\ UNCHANGED <<conts, calls, spc>>

CallsTools(t) ==
    /\ t.terminal = "ToolCalls" /\ t.calls # <<>>
    /\ conts' = [conts EXCEPT !["Incomplete"] = 0]
    /\ IF \E k \in 1..Len(t.calls) : PolicyOf[t.calls[k].tool] = "Unregistered"
       THEN lpc' = "failed" /\ UNCHANGED <<calls, spc>>
       ELSE /\ lpc' = "tools"
            /\ calls' = t.calls
            /\ spc' = [k \in Slots |->
                          IF k <= Len(t.calls) /\ (k = 1 \/ Parallel(t.calls))
                          THEN "dispatch" ELSE "off"]

TurnReturns ==
    /\ lpc = "turn"
    /\ \E t \in Turns : Continues(t) \/ Replies(t) \/ CallsTools(t)
    /\ UNCHANGED <<vars, rounds, invocations, sop, ledger, execs>>

Over(k) == spc[k] \in {"ok", "err"}

\* The turn's calls are over: results go into the request, or the first
\* error ends the loop.
LeaveTools(next) ==
    /\ lpc' = next
    /\ calls' = <<>>
    /\ spc' = [k \in Slots |-> "off"]
    /\ sop' = [k \in Slots |-> NoOp]
    /\ UNCHANGED <<vars, rounds, conts, invocations, ledger, execs>>

NextCall(k) ==
    /\ lpc = "tools" /\ ~Parallel(calls)
    /\ spc[k] = "ok" /\ k < Len(calls) /\ spc[k + 1] = "off"
    /\ spc' = [spc EXCEPT ![k + 1] = "dispatch"]
    /\ UNCHANGED <<vars, loopVars, invocations, sop, ledger, execs>>

\* Mutant: a failed call does not end the loop.
ToolsDoneAnyhow ==
    /\ lpc = "tools"
    /\ \A k \in 1..Len(calls) : Over(k)
    /\ LeaveTools("top")

ToolsDone ==
    /\ lpc = "tools"
    /\ \A k \in 1..Len(calls) : spc[k] = "ok"
    /\ LeaveTools("top")

\* Mutant: the first error of a parallel turn ends it, and the calls that
\* are still waiting are dropped.
ToolsFailAtOnce ==
    /\ lpc = "tools"
    /\ \E k \in 1..Len(calls) : spc[k] = "err"
    /\ LeaveTools("failed")

ToolsFail ==
    /\ lpc = "tools"
    /\ \E k \in 1..Len(calls) : spc[k] = "err"
    /\ Parallel(calls) => \A k \in 1..Len(calls) : Over(k)      \* join_all
    /\ LeaveTools("failed")

----------------------------------------------------------------------------
(* One call of the turn: execute_registered_tool.                          *)

Tool(k) == calls[k].tool
Id(k) == calls[k].id
Policy(k) == PolicyOf[Tool(k)]

Goto(k, site) == spc' = [spc EXCEPT ![k] = site]

\* The calls of a turn are polled by one task: a call runs alone from one of
\* its awaits to the next, and join_all polls the calls first in their order.
CanStep(k) ==
    /\ lpc = "tools"
    /\ \A j \in Slots \ {k} : spc[j] \notin BetweenAwaits
    /\ \A j \in 1..k - 1 : spc[j] # "dispatch"

\* cached_tool_execution: the result of the invocation is on record.
Cached(k) == Id(k) \in ledger

\* prepare_tool_call: the arguments are what the schema of the tool asks for.
Prepared(k) == Policy(k) # "BadArguments"

\* resolve_facts, then what the policy says.
Evaluated(k) ==
    CASE Policy(k) = "FactsError" -> "err"
      [] Policy(k) = "Deny" -> "ok"
      [] Policy(k) = "Allow" -> "start"
      [] Policy(k) = "RequireApproval" -> "register"

\* Mutant: the ledger is not asked.
AfterBudgetNoLedger(k) == IF Prepared(k) THEN Evaluated(k) ELSE "invalidStart"

\* Mutant: a call that needs no approval is not announced.
AfterBudgetUnannounced(k) ==
    IF Cached(k) THEN "ok"
    ELSE IF Policy(k) = "Allow" THEN "exec"
    ELSE IF Prepared(k) THEN Evaluated(k) ELSE "invalidStart"

\* What the call goes on to once it has been counted.
AfterBudget(k) ==
    IF Cached(k) THEN "ok" ELSE IF Prepared(k) THEN Evaluated(k) ELSE "invalidStart"

\* consume_tool_invocation, which counts like consume_model_round.
ConsumeToolInvocation(k, next) ==
    \/ Reached(invocations, MaxInvocations) /\ Goto(k, "err") /\ UNCHANGED invocations
    \/ /\ ~Reached(invocations, MaxInvocations)
       /\ invocations' = OneMore(invocations)
       /\ \E time \in WallTimeChecks : Goto(k, IF time = "Ok" THEN next ELSE "err")

Dispatch(k) ==
    /\ spc[k] = "dispatch"
    /\ ConsumeToolInvocation(k, AfterBudget(k))
    /\ UNCHANGED <<vars, loopVars, sop, ledger, execs>>

\* A call that the table or the store may refuse, with ? behind it: on an
\* error the tool call ends with it.
Try(k, result, Effect, next) ==
    IF result = "Ok" THEN Effect /\ Goto(k, next)
                     ELSE Goto(k, "err") /\ UNCHANGED vars

EmitStep(k, site, kind, next) ==
    /\ spc[k] = site
    /\ Try(k, EmitResult(Run, kind), Emit(Run, kind) /\ UNCHANGED storeVars, next)
    /\ UNCHANGED <<loopVars, invocations, sop, ledger, execs>>

StateStep(k, site, s, next) ==
    /\ spc[k] = site
    /\ Try(k, SetStateResult(Run, s), SetState(Run, s) /\ UNCHANGED storeVars, next)
    /\ UNCHANGED <<loopVars, invocations, sop, ledger, execs>>

\* OperationId::new: an operation nobody has seen, of the mode asked for.
FreshOps(k) ==
    {o \in Ops \ HostOps : /\ RunOf[o] = Run /\ ModeOf[o] = AskMode[Tool(k)]
                          /\ opState[o] = "Absent" /\ \A j \in Slots : sop[j] # o}

RegisterOp(k) ==
    /\ spc[k] = "register"
    /\ FreshOps(k) # {}
    /\ LET o == CHOOSE x \in FreshOps(k) : TRUE IN
        /\ Try(k, RegisterResult(o), Register(o) /\ UNCHANGED tableVars, "awaiting")
        /\ sop' = [sop EXCEPT ![k] = o]
    /\ UNCHANGED <<loopVars, invocations, ledger, execs>>

\* The task waits for its operation: wait or wait_for_commit_or_reject, by
\* the mode of the operation.
BeginWait(k) ==
    /\ spc[k] = "wait"
    /\ WaitCall(sop[k])
    /\ Goto(k, "waiting")
    /\ UNCHANGED <<tableVars, loopVars, invocations, sop, ledger, execs>>

Await(k) ==
    /\ spc[k] = "waiting"
    /\ WaitRead(sop[k])
    /\ UNCHANGED <<tableVars, coordVars>>

\* Mutant: whatever the wait returned, the tool executes.
DecidedAnyhow(k) ==
    /\ spc[k] = "waiting"
    /\ wpc[sop[k]] = "done"
    /\ Try(k, SetStateResult(Run, "Running"),
           SetState(Run, "Running") /\ UNCHANGED storeVars, "start")
    /\ UNCHANGED <<loopVars, invocations, sop, ledger, execs>>

\* Mutant: the run stays AwaitingOperation after the answer.
DecidedStillAwaiting(k) ==
    /\ spc[k] = "waiting"
    /\ wpc[sop[k]] = "done"
    /\ Goto(k, CASE wout[sop[k]] = "Approve" -> "start"
                 [] wout[sop[k]] = "Reject" -> "ok"
                 [] OTHER -> "err")
    /\ UNCHANGED <<vars, loopVars, invocations, sop, ledger, execs>>

\* The wait is over: on an answer the run is Running again, and the tool
\* executes if it was approved; anything else ends the call with an error.
Decided(k) ==
    /\ spc[k] = "waiting"
    /\ wpc[sop[k]] = "done"
    /\ IF wout[sop[k]] \in Decisions
       THEN Try(k, SetStateResult(Run, "Running"),
                SetState(Run, "Running") /\ UNCHANGED storeVars,
                IF wout[sop[k]] = "Approve" THEN "start" ELSE "ok")
       ELSE Goto(k, "err") /\ UNCHANGED vars
    /\ UNCHANGED <<loopVars, invocations, sop, ledger, execs>>

\* The select, polled for the first time: a run that is cancelled may be
\* noticed before the executor starts.
Execute(k) ==
    /\ spc[k] = "exec"
    /\ \/ /\ Goto(k, "running")
          /\ execs' = [execs EXCEPT ![Id(k)] = @ + 1]
       \/ IsCancelled(Run) /\ Goto(k, "settleErr") /\ UNCHANGED execs
    /\ UNCHANGED <<vars, loopVars, invocations, sop, ledger>>

\* The executor returns, or its future is dropped for the run is cancelled.
ExecutionOver(k) ==
    /\ CanStep(k)
    /\ spc[k] = "running"
    /\ Goto(k, "settleOk") \/ Goto(k, "settleErr")
    /\ UNCHANGED <<vars, loopVars, invocations, sop, ledger, execs>>

FinishHostOperationResult(o) ==
    IF ModeOf[o] = "BlockingApproval" THEN FinishBlockingApprovalResult(Run, o)
                                      ELSE FinishCommitResult(Run, o)

FinishHostOperation(o, ok) ==
    /\ FinishBlockingApproval(Run, o, ok) \/ FinishCommit(Run, o, ok)
    /\ UNCHANGED tableVars

\* Mutant: the error path forgets the operation.
SettleErrUnfinished(k) ==
    /\ spc[k] = "settleErr"
    /\ Goto(k, "err")
    /\ UNCHANGED <<vars, loopVars, invocations, sop, ledger, execs>>

\* The execution failed: so did its operation.  It may be cancelled by now,
\* that is ignored.
SettleErr(k) ==
    /\ spc[k] = "settleErr"
    /\ IF sop[k] # NoOp /\ FinishHostOperationResult(sop[k]) = "Ok"
       THEN FinishHostOperation(sop[k], FALSE)
       ELSE UNCHANGED vars
    /\ Goto(k, "err")
    /\ UNCHANGED <<loopVars, invocations, sop, ledger, execs>>

SettleOk(k) ==
    /\ spc[k] = "settleOk"
    /\ IF sop[k] # NoOp
       THEN Try(k, FinishHostOperationResult(sop[k]), FinishHostOperation(sop[k], TRUE), "record")
       ELSE Goto(k, "record") /\ UNCHANGED vars
    /\ UNCHANGED <<loopVars, invocations, sop, ledger, execs>>

\* record_tool_execution, which needs no more than a known run.
Record(k) ==
    /\ spc[k] = "record"
    /\ ledger' = ledger \union {Id(k)}
    /\ Goto(k, "finish")
    /\ UNCHANGED <<vars, loopVars, invocations, sop, execs>>

\* What the task itself does about a call; the executor is not the task's.
SlotStep(k) ==
    /\ CanStep(k)
    /\ \/ Dispatch(k)
       \/ EmitStep(k, "invalidStart", "ToolStarted", "finish")
       \/ RegisterOp(k)
       \/ StateStep(k, "awaiting", "AwaitingOperation", "request")
       \/ EmitStep(k, "request", "OperationRequested", "wait")
       \/ BeginWait(k)
       \/ Await(k)
       \/ Decided(k)
       \/ EmitStep(k, "start", "ToolStarted", "exec")
       \/ Execute(k)
       \/ SettleErr(k)
       \/ SettleOk(k)
       \/ Record(k)
       \/ EmitStep(k, "finish", "ToolFinished", "ok")

----------------------------------------------------------------------------
(* The end of the task: Aifluxon::launch, after the loop.                  *)

GoOn(next) == lpc' = next /\ UNCHANGED <<rounds, conts, calls, slotVars>>

\* finish_completed, or finish_failed if the outcome could not be saved.
\* Its error is ignored: the task is over whether or not the run is.
FinishRun(site, e) ==
    /\ lpc = site
    /\ \/ FinishCheck(Task, Run, e) /\ GoOn("finishing")
       \/ ~NoLiveOps(Run) /\ GoOn("done") /\ UNCHANGED vars

\* The loop ended with an error: a run that is not cancelled has failed.
FailedSnapshot ==
    /\ lpc = "failed"
    /\ GoOn(IF IsCancelled(Run) THEN "done" ELSE "finishFailed")
    /\ UNCHANGED vars

Finishing ==
    /\ lpc = "finishing"
    /\ \/ /\ FinishSet(Task)
          /\ GoOn(IF cpc'[Task] = "idle" THEN "done" ELSE "finishing")
       \/ FinishMark(Task) /\ GoOn("done")

----------------------------------------------------------------------------
(* The task and its hosts.                                                 *)

LoopStep ==
    \/ LoopTop
    \/ \E k \in Slots : NextCall(k) \/ SlotStep(k)
    \/ ToolsDone
    \/ ToolsFail
    \/ \E e \in {"Completed", "Failed"} : FinishRun("completed", e)
    \/ FailedSnapshot
    \/ FinishRun("finishFailed", "Failed")
    \/ Finishing

TurnStep == TurnStreams \/ TurnFails \/ TurnReturns

HostAnswer(o) == AnswerStep(RunOf[o], o) /\ UNCHANGED <<tableVars, coordVars>>

\* Cancellation, deadlines and the host that expires them, and a host's own
\* operations.
HostFinishes(o) ==
    /\ o \in HostOps
    /\ EffectStep(RunOf[o], o)
    /\ UNCHANGED <<tableVars, coordVars>>

HostStep ==
    /\ \/ Cancel(Host, Run)
       \/ /\ \/ \E o \in Ops : DeadlinePasses(o)
             \/ Expire
             \/ \E o \in HostOps : Register(o)
          /\ UNCHANGED tableVars
    /\ UNCHANGED coordVars

HostGoesOn == CallerStep(Host) /\ UNCHANGED coordVars

Notify(o) == NotifyWaiters(o) /\ UNCHANGED <<tableVars, coordVars>>

CoordinatorNext ==
    /\ UNCHANGED limits
    /\ \/ LoopStep
       \/ TurnStep
       \/ \E k \in Slots : ExecutionOver(k)
       \/ HostStep \/ HostGoesOn
       \/ \E o \in Ops : HostAnswer(o) \/ HostFinishes(o) \/ Notify(o)

\* What the code guarantees: the task is polled, a thread that is inside a
\* call goes on with it, and a select drops its future, be it the provider's
\* turn or an execution, once the run is cancelled.
CodeFairness ==
    /\ WF_allVars(LoopStep)
    /\ WF_allVars(IsCancelled(Run) /\ (TurnFails \/ \E k \in Slots : ExecutionOver(k)))
    /\ WF_allVars(HostGoesOn)
    /\ \A o \in Ops : WF_allVars(Notify(o))

\* What its environment may do: turns and executions come to an end, and
\* hosts answer what is pending and finish operations of their own.
EnvironmentFairness ==
    /\ WF_allVars(TurnFails \/ TurnReturns)
    /\ WF_allVars(\E k \in Slots : ExecutionOver(k))
    /\ \A o \in Ops : WF_allVars(HostAnswer(o)) /\ WF_allVars(HostFinishes(o))

\* The provider of an unlimited run at some time asks for no further round.
ProviderComesToAnEnd ==
    <>[][IsUnlimited /\ lpc = "turn" => lpc' \notin {"top", "tools"}]_allVars

CoordinatorSpec ==
    CoordinatorInit /\ [][CoordinatorNext]_<<allVars, limits>> /\ CodeFairness

----------------------------------------------------------------------------
(* Properties.                                                             *)

\* A call from its ToolStarted on.
ExecutingSites == {"exec", "running", "settleOk", "settleErr", "record", "finish"}

\* The executions so far: <<id, n>> is the n-th of invocation id.
ExecutionsSoFar == UNION {{id} \X (1..execs[id]) : id \in Ids}
Executions == Cardinality(ExecutionsSoFar)
Emitted(kind) == Cardinality({i \in 1..Len(events[Run]) : events[Run][i].kind = kind})

\* No tool executes that the policy denies, and one that needs an approval
\* executes on the approval, or the commit, that a host gave for the very
\* operation of this call: not on a rejection, an expiry or a cancellation,
\* nor on the answer to another call of the turn.
ExecutesWithApproval ==
    \A k \in Slots : spc[k] \in ExecutingSites \ {"finish"} =>
        \/ Policy(k) = "Allow"
        \/ /\ Policy(k) = "RequireApproval"
           /\ answers[sop[k]] = IF AskMode[Tool(k)] = "BlockingApproval" THEN <<"Approve">>
                                                                         ELSE <<"Commit">>

\* Every execution is announced in the log before it starts and paid for
\* from the budget, whatever the calls of a turn and the cancellation race,
\* unless the count can go no higher.
ExecutionsAnnouncedAndPaid ==
    /\ Executions <= Emitted("ToolStarted")
    /\ Executions <= invocations \/ invocations = U32Max

\* No limit of the run that is not disabled is passed by one, whatever
\* continues a turn; continuations have no limit in an unlimited run.
LimitsAreKept ==
    /\ MaxRounds # U32Max => rounds <= MaxRounds
    /\ MaxInvocations # U32Max => invocations <= MaxInvocations /\ Executions <= MaxInvocations
    /\ ~IsUnlimited => \A reason \in Reasons : conts[reason] <= DefaultLimit[reason]

\* Whatever executes was allowed, announced and paid for, within the limits.
ExecutionsAreCovered ==
    ExecutesWithApproval /\ ExecutionsAnnouncedAndPaid /\ LimitsAreKept

\* The executor of one invocation is started at most once, whether the
\* provider repeats the call in a later turn or in the same one.
ExecutesAtMostOnce == \A id \in Ids : execs[id] <= 1

\* The loop goes on to another round, and a run completes, only if every
\* executor it started has its result on record and every ToolStarted in
\* the log is followed up by a ToolFinished.
NothingLeftBehind ==
    lpc \in {"top", "turn", "completed"} \/ runState[Run] = "Completed" =>
        /\ \A id \in Ids : execs[id] > 0 => id \in ledger
        /\ Emitted("ToolStarted") = Emitted("ToolFinished")

\* In a turn whose calls run one after the other, the run's state tells
\* whether the task waits for a host: AwaitingOperation while it does,
\* Running while a tool executes or the model is asked.
StateSaysWhoIsAwaited ==
    ~IsTerminal(Run) /\ ~Parallel(calls) =>
        /\ (\E k \in Slots : spc[k] = "waiting") => runState[Run] = "AwaitingOperation"
        /\ (lpc \in {"top", "turn", "completed"} \/ \E k \in Slots : spc[k] \in ExecutingSites) =>
               runState[Run] = "Running"

\* When the task is over and no cancel is under way, the run is over, unless
\* an operation of a host kept it from its end, and none of the operations
\* the task registered is open; but a deferred commit of a cancelled run may
\* be under way, for nobody settles it.
TaskLeavesNothingOpen ==
    lpc = "done" /\ cpc[Host] = "idle" =>
        /\ IsTerminal(Run) \/ \E o \in HostOps : opState[o] # "Absent"
        /\ \A o \in OpsOf(Run) \ HostOps :
            /\ opState[o] \notin {"Pending", "Approved"}
            /\ opState[o] = "Committing" => IsCancelled(Run)

\* Nothing is open that nobody attends to: no executor or event of a round
\* that is over, no wait that the state does not tell, no operation of a task
\* that is over.
NothingStaysOpen ==
    NothingLeftBehind /\ StateSaysWhoIsAwaited /\ TaskLeavesNothingOpen

\* The task of a cancelled run comes to its end even if the provider never
\* ends its turn, no tool ever returns and no host ever answers.
CancelEndsTask == IsCancelled(Run) ~> lpc = "done"

\* Provided that turns and executions end and hosts answer, the run reaches
\* a terminal state, unless an operation of a host kept the task from ending
\* it: the error of finish is dropped, and nobody tries again.  Nothing but
\* its provider, or a cancellation, ends an unlimited run.
RunEnds ==
    EnvironmentFairness /\ ProviderComesToAnEnd =>
        <>(IsTerminal(Run) \/ \E o \in HostOps : opState[o] # "Absent")
=============================================================================
