------------------------------ MODULE RunTable ------------------------------
(***************************************************************************)
(* RunTable: the state, the event log and the cancellation hooks of every  *)
(* run, composed with the operation store the table owns.                  *)
(*                                                                         *)
(* The table has a mutex of its own.  register, set_state, emit and        *)
(* register_cancellation_hook are one critical section each and hence one  *)
(* action.  finish, cancel and cancel_tree lock the table and the store in *)
(* turn and run the hooks with neither lock held: a caller goes through    *)
(* them step by step, and any other call may run in between.               *)
(***************************************************************************)
EXTENDS OperationStore

CONSTANTS
    ParentOf,   \* ParentOf[r]: the run r was started by, or NoRun
    NoRun,
    Callers,    \* threads that may be inside finish, cancel or cancel_tree
    Hooks,      \* cancellation hooks
    HookRun,    \* HookRun[h]: the run hook h is registered for
    EmitKinds,  \* the kinds of event that hosts try to emit
    MaxEvents   \* bound: events a log holds before its terminal event

TerminalStates == {"Completed", "Failed", "Cancelled"}
ActiveStates == {"Running", "AwaitingOperation"}
RunStates == {"Absent"} \union ActiveStates \union TerminalStates

\* What is appended apart from the start, a state change and the end: deltas,
\* usage, operation requests and the start and end of tools.
ProgressKinds == {"Progress", "OperationRequested", "ToolStarted", "ToolFinished"}
EventKinds == {"RunStarted", "StateChanged"} \union ProgressKinds \union TerminalStates

ASSUME TableAssumption ==
    /\ NoRun \notin Runs
    /\ ParentOf \in [Runs -> Runs \union {NoRun}]
    /\ HookRun \in [Hooks -> Runs]
    /\ EmitKinds \subseteq EventKinds
    /\ MaxEvents \in Nat \ {0}

VARIABLES
    runState,   \* runState[r]: "Absent" before register
    events,     \* events[r]: the log
    hooks,      \* hooks on some record: registered and not yet taken
    called,     \* called[h]: how often hook h has been called
    cpc,        \* cpc[c]: where caller c is
    crun,       \* crun[c]: the run it is at (for a tree: the root, at first)
    cevent,     \* cevent[c]: the terminal event finish will append
    chooks,     \* chooks[c]: the hooks cancel took and has yet to call
    ctodo,      \* ctodo[c]: the runs cancel_tree has yet to cancel
    ctree       \* history: ctree[c], all the runs cancel_tree set out to cancel

recVars == <<runState, events>>
hookVars == <<hooks, called>>
callVars == <<cpc, crun, cevent, chooks, ctodo, ctree>>
tableVars == <<runState, events, hooks, called, cpc, crun, cevent, chooks, ctodo, ctree>>
vars == <<storeVars, tableVars>>

----------------------------------------------------------------------------
Event == [seq : Nat, kind : EventKinds]

IsTerminal(r) == runState[r] \in TerminalStates
IsActive(r) == runState[r] \in ActiveStates
IsCancelled(r) == runState[r] = "Cancelled"     \* the run's RunCancellationToken
LastEvent(r) == events[r][Len(events[r])]

CallSites == {"idle", "finishSet", "finishMark", "cancelOps", "callHooks", "tree"}

TableTypeOK ==
    /\ runState \in [Runs -> RunStates]
    /\ events \in [Runs -> Seq(Event)]
    /\ hooks \in SUBSET Hooks
    /\ called \in [Hooks -> Nat]
    /\ cpc \in [Callers -> CallSites]
    /\ crun \in [Callers -> Runs \union {NoRun}]
    /\ cevent \in [Callers -> {"Completed", "Failed", "None"}]
    /\ chooks \in [Callers -> SUBSET Hooks]
    /\ ctodo \in [Callers -> SUBSET Runs]
    /\ ctree \in [Callers -> SUBSET Runs]
    /\ \A c \in Callers :
        /\ cpc[c] # "idle" => crun[c] \in Runs
        /\ cpc[c] = "finishSet" => cevent[c] # "None"

TableInit ==
    /\ runState = [r \in Runs |-> "Absent"]
    /\ events = [r \in Runs |-> <<>>]
    /\ hooks = {}
    /\ called = [h \in Hooks |-> 0]
    /\ cpc = [c \in Callers |-> "idle"]
    /\ crun = [c \in Callers |-> NoRun]
    /\ cevent = [c \in Callers |-> "None"]
    /\ chooks = [c \in Callers |-> {}]
    /\ ctodo = [c \in Callers |-> {}]
    /\ ctree = [c \in Callers |-> {}]

Init == StoreInit /\ TableInit

----------------------------------------------------------------------------
(* append_event, on the record of run r.  It leaves a log that has ended   *)
(* as it is: its error never reaches a caller, for a run with such a log   *)
(* is over and every caller tests that before.                             *)

CanAppend(r) == events[r] # <<>> => LastEvent(r).kind \notin TerminalStates

NextSeq(r) == IF events[r] = <<>> THEN 1 ELSE LastEvent(r).seq + 1

Appended(r, kind) ==
    IF CanAppend(r)
    THEN [events EXCEPT ![r] = Append(@, [seq |-> NextSeq(r), kind |-> kind])]
    ELSE events

----------------------------------------------------------------------------
(* The calls that are one critical section.                                *)

RegisterRun(r) ==
    /\ runState[r] = "Absent"       \* else IdentifierCollision
    /\ runState' = [runState EXCEPT ![r] = "Running"]
    /\ events' = [events EXCEPT ![r] = <<[seq |-> 1, kind |-> "RunStarted"]>>]
    /\ UNCHANGED <<storeVars, hookVars, callVars>>

\* Mutant: a run that is over can still be written to.
KnownResult(r) == IF runState[r] = "Absent" THEN "UnknownRun" ELSE "Ok"

\* The result of any call that needs run r to be known and not over.
ActiveResult(r) ==
    IF runState[r] = "Absent" THEN "UnknownRun"
    ELSE IF IsTerminal(r) THEN "RunTerminal"
    ELSE "Ok"

SetStateResult(r, s) ==
    IF s \in TerminalStates THEN "InvalidTransition" ELSE ActiveResult(r)

SetState(r, s) ==
    /\ SetStateResult(r, s) = "Ok"
    /\ runState' = [runState EXCEPT ![r] = s]
    /\ events' = Appended(r, "StateChanged")
    /\ UNCHANGED <<hookVars, callVars>>

\* Mutant: terminal events can be emitted like any other.
EmitAnythingResult(r, kind) ==
    IF kind = "RunStarted" THEN "InvalidTransition" ELSE ActiveResult(r)

EmitResult(r, kind) ==
    IF kind \in TerminalStates \union {"RunStarted"} THEN "InvalidTransition"
    ELSE ActiveResult(r)

Emit(r, kind) ==
    /\ EmitResult(r, kind) = "Ok"
    /\ events' = Appended(r, kind)
    /\ UNCHANGED <<runState, hookVars, callVars>>

\* A hook is an object of its own: it is registered once.
RegisterCancellationHook(h) ==
    /\ ActiveResult(HookRun[h]) = "Ok"
    /\ h \notin hooks /\ called[h] = 0
    /\ hooks' = hooks \union {h}
    /\ UNCHANGED <<storeVars, recVars, called, callVars>>

----------------------------------------------------------------------------
\* Caller c returns: its local variables are gone.
Return(c) ==
    /\ cpc' = [cpc EXCEPT ![c] = "idle"]
    /\ crun' = [crun EXCEPT ![c] = NoRun]
    /\ cevent' = [cevent EXCEPT ![c] = "None"]
    /\ ctodo' = [ctodo EXCEPT ![c] = {}]
    /\ ctree' = [ctree EXCEPT ![c] = {}]
    /\ UNCHANGED chooks

----------------------------------------------------------------------------
(* finish_completed and finish_failed.                                     *)

NoLiveOps(r) == \A o \in OpsOf(r) : opState[o] \notin LiveStates

\* Mutant: the terminal event is lost on the way.
FinishCheckOnly(c, r, e) ==
    /\ cpc[c] = "idle"
    /\ NoLiveOps(r)
    /\ cpc' = [cpc EXCEPT ![c] = "finishSet"]
    /\ crun' = [crun EXCEPT ![c] = r]
    /\ UNCHANGED <<storeVars, recVars, hookVars, cevent, chooks, ctodo, ctree>>

\* The store's lock: a run with an unsettled operation is refused.
FinishCheck(c, r, e) ==
    /\ cpc[c] = "idle"
    /\ NoLiveOps(r)                 \* else PendingOperations
    /\ cpc' = [cpc EXCEPT ![c] = "finishSet"]
    /\ crun' = [crun EXCEPT ![c] = r]
    /\ cevent' = [cevent EXCEPT ![c] = e]
    /\ UNCHANGED <<storeVars, recVars, hookVars, chooks, ctodo, ctree>>

\* The table's lock: the state and the terminal event, or an error.
FinishSet(c) ==
    /\ cpc[c] = "finishSet"
    /\ IF ActiveResult(crun[c]) = "Ok"
       THEN /\ runState' = [runState EXCEPT ![crun[c]] = cevent[c]]
            /\ events' = Appended(crun[c], cevent[c])
            /\ cpc' = [cpc EXCEPT ![c] = "finishMark"]
            /\ UNCHANGED <<crun, cevent, chooks, ctodo, ctree>>
       ELSE Return(c) /\ UNCHANGED recVars
    /\ UNCHANGED <<storeVars, hookVars>>

\* Mutant: finish does not tell the store.
FinishUnmarked(c) ==
    /\ cpc[c] = "finishMark"
    /\ Return(c)
    /\ UNCHANGED <<storeVars, recVars, hookVars>>

\* The store's lock again: mark_run_terminal.
FinishMark(c) ==
    /\ cpc[c] = "finishMark"
    /\ CancelRun(crun[c])
    /\ Return(c)
    /\ UNCHANGED <<recVars, hookVars>>

----------------------------------------------------------------------------
(* cancel.                                                                 *)

HooksOf(r) == {h \in hooks : HookRun[h] = r}

\* Mutant: the hooks are copied and stay on the record.
CancelSetCopyingHooks(c, r) ==
    /\ ActiveResult(r) = "Ok"
    /\ runState' = [runState EXCEPT ![r] = "Cancelled"]
    /\ events' = Appended(r, "Cancelled")
    /\ chooks' = [chooks EXCEPT ![c] = HooksOf(r)]
    /\ crun' = [crun EXCEPT ![c] = r]
    /\ cpc' = [cpc EXCEPT ![c] = "cancelOps"]
    /\ UNCHANGED <<storeVars, hookVars, cevent>>

\* The table's lock: the run is over, its token is cancelled, its hooks are
\* taken off the record.
CancelSet(c, r) ==
    /\ ActiveResult(r) = "Ok"
    /\ runState' = [runState EXCEPT ![r] = "Cancelled"]
    /\ events' = Appended(r, "Cancelled")
    /\ hooks' = hooks \ HooksOf(r)
    /\ chooks' = [chooks EXCEPT ![c] = HooksOf(r)]
    /\ crun' = [crun EXCEPT ![c] = r]
    /\ cpc' = [cpc EXCEPT ![c] = "cancelOps"]
    /\ UNCHANGED <<storeVars, called, cevent>>

Cancel(c, r) ==
    /\ cpc[c] = "idle"
    /\ CancelSet(c, r)
    /\ UNCHANGED <<ctodo, ctree>>

\* Mutant: the operations of the run are not cancelled.
CancelOpsSkipped(c) ==
    /\ cpc[c] = "cancelOps"
    /\ cpc' = [cpc EXCEPT ![c] = "callHooks"]
    /\ UNCHANGED <<storeVars, recVars, hookVars, crun, cevent, chooks, ctodo, ctree>>

\* The store's lock: cancel_run.
CancelOps(c) ==
    /\ cpc[c] = "cancelOps"
    /\ CancelRun(crun[c])
    /\ cpc' = [cpc EXCEPT ![c] = "callHooks"]
    /\ UNCHANGED <<recVars, hookVars, crun, cevent, chooks, ctodo, ctree>>

\* No lock: the next hook.  Its error, if any, goes into the report.
CallHook(c, h) ==
    /\ cpc[c] = "callHooks"
    /\ h \in chooks[c]
    /\ called' = [called EXCEPT ![h] = @ + 1]
    /\ chooks' = [chooks EXCEPT ![c] = @ \ {h}]
    /\ UNCHANGED <<storeVars, recVars, hooks, cpc, crun, cevent, ctodo, ctree>>

\* cancel returns to its caller, or to the loop of cancel_tree.
CancelReturn(c) ==
    /\ cpc[c] = "callHooks"
    /\ chooks[c] = {}
    /\ IF ctree[c] = {}
       THEN Return(c)
       ELSE /\ cpc' = [cpc EXCEPT ![c] = "tree"]
            /\ UNCHANGED <<crun, cevent, chooks, ctodo, ctree>>
    /\ UNCHANGED <<storeVars, recVars, hookVars>>

----------------------------------------------------------------------------
(* cancel_tree.                                                            *)

Known(r) == runState[r] # "Absent"

\* The least set that holds the root and the children of its members.
Tree(root) ==
    {r \in Runs : \A S \in SUBSET Runs :
        (root \in S /\ \A k \in Runs : Known(k) /\ ParentOf[k] \in S => k \in S) => r \in S}

TreeStart(c, root) ==
    /\ cpc[c] = "idle"
    /\ Known(root)                  \* else UnknownRun
    /\ ctodo' = [ctodo EXCEPT ![c] = Tree(root)]
    /\ ctree' = [ctree EXCEPT ![c] = Tree(root)]
    /\ crun' = [crun EXCEPT ![c] = root]
    /\ cpc' = [cpc EXCEPT ![c] = "tree"]
    /\ UNCHANGED <<storeVars, recVars, hookVars, cevent, chooks>>

\* Mutant: the loop ends with the first run that is over already.
TreeNextStopping(c, r) ==
    /\ cpc[c] = "tree"
    /\ r \in ctodo[c]
    /\ IF ctodo[c] = ctree[c] THEN r = crun[c] ELSE ParentOf[r] \notin ctodo[c]
    /\ \/ CancelSet(c, r) /\ ctodo' = [ctodo EXCEPT ![c] = @ \ {r}]
       \/ /\ ActiveResult(r) = "RunTerminal"
          /\ ctodo' = [ctodo EXCEPT ![c] = {}]
          /\ UNCHANGED <<storeVars, recVars, hookVars, cpc, crun, cevent, chooks>>
    /\ UNCHANGED ctree

\* The root comes first and every run after its parent, siblings in the
\* order of a HashMap's values.  A run that is over already is passed by.
TreeNext(c, r) ==
    /\ cpc[c] = "tree"
    /\ r \in ctodo[c]
    /\ IF ctodo[c] = ctree[c] THEN r = crun[c] ELSE ParentOf[r] \notin ctodo[c]
    /\ ctodo' = [ctodo EXCEPT ![c] = @ \ {r}]
    /\ \/ CancelSet(c, r)
       \/ /\ ActiveResult(r) = "RunTerminal"
          /\ UNCHANGED <<storeVars, recVars, hookVars, cpc, crun, cevent, chooks>>
    /\ UNCHANGED ctree

TreeReturn(c) ==
    /\ cpc[c] = "tree"
    /\ ctodo[c] = {}
    /\ Return(c)
    /\ UNCHANGED <<storeVars, recVars, hookVars>>

----------------------------------------------------------------------------
(* The table and its store, with any hosts calling.                        *)

Room(r) == Len(events[r]) < MaxEvents

CallerStep(c) ==
    \/ FinishSet(c)
    \/ FinishMark(c)
    \/ CancelOps(c)
    \/ \E h \in Hooks : CallHook(c, h)
    \/ CancelReturn(c)
    \/ \E r \in Runs : TreeNext(c, r)
    \/ TreeReturn(c)

CallerCall(c) ==
    \E r \in Runs :
        \/ \E e \in {"Completed", "Failed"} : FinishCheck(c, r, e)
        \/ Cancel(c, r)
        \/ TreeStart(c, r)

RecordCall(r) ==
    \/ RegisterRun(r)
    \/ Room(r) /\ (\E s \in ActiveStates \union TerminalStates : SetState(r, s)) /\ UNCHANGED storeVars
    \/ Room(r) /\ (\E k \in EmitKinds : Emit(r, k)) /\ UNCHANGED storeVars

TableNext ==
    \/ \E r \in Runs : RecordCall(r)
    \/ \E h \in Hooks : RegisterCancellationHook(h)
    \/ \E c \in Callers : CallerStep(c) \/ CallerCall(c)
    \/ StoreCall /\ UNCHANGED tableVars

TableSpec == Init /\ [][TableNext]_vars

----------------------------------------------------------------------------
(* Properties.                                                             *)

TypeOK == StoreTypeOK /\ TableTypeOK

\* The log tells the same story as the state: a known run starts with
\* RunStarted, is numbered without a gap, and ends with a terminal event
\* exactly when its state is that terminal state; there is no other terminal
\* event in it, whatever finish, cancel and emit race.
LogAgreesWithState ==
    \A r \in Runs : Known(r) =>
        /\ events[r] # <<>>
        /\ events[r][1].kind = "RunStarted"
        /\ \A i \in 1..Len(events[r]) : events[r][i].seq = i
        /\ \A i \in 1..Len(events[r]) - 1 : events[r][i].kind \notin TerminalStates
        /\ IF IsTerminal(r) THEN LastEvent(r).kind = runState[r]
                            ELSE LastEvent(r).kind \notin TerminalStates

KeepsTheLog ==
    \A r \in Runs :
        /\ IsTerminal(r) => runState'[r] = runState[r] /\ events'[r] = events[r]
        /\ Known(r) => \/ events'[r] = events[r]
                       \/ events'[r] # <<>> /\ events'[r] = Append(events[r], LastEvent(r)')

\* A run that is over stays as it is, and the log of a run only ever grows
\* at its end, by one event.
TerminalIsFinal == [][KeepsTheLog]_vars

Ending(c, r) == cpc[c] \in {"finishMark", "cancelOps"} /\ crun[c] = r

\* The two mutexes disagree about the end of a run only while the call that
\* ended it is on its way from the one to the other: the store never refuses
\* work for a run that is not over, and a run that is over and that no call
\* is still ending has no operation left to approve.
StoreFollowsTable ==
    \A r \in Runs :
        /\ r \in terminalRuns => IsTerminal(r)
        /\ (\E c \in Callers : Ending(c, r)) => IsTerminal(r)
        /\ IsTerminal(r) => r \in terminalRuns \/ \E c \in Callers : Ending(c, r)
        /\ IsTerminal(r) /\ (\A c \in Callers : ~Ending(c, r)) =>
               \A o \in OpsOf(r) : opState[o] \notin {"Pending", "Approved"}

\* A hook is called at most once, by one caller, and only when its run was
\* cancelled; a run that is cancelled has no hook left that no caller took.
HooksFollowCancel ==
    \A h \in Hooks :
        /\ called[h] <= 1
        /\ called[h] = 1 \/ (\E c \in Callers : h \in chooks[c]) => IsCancelled(HookRun[h])
        /\ IsCancelled(HookRun[h]) => h \notin hooks
        /\ \A c \in Callers : h \in chooks[c] =>
               called[h] = 0 /\ \A d \in Callers \ {c} : h \notin chooks[d]

\* cancel_tree leaves nothing of the tree it saw alive: the runs it has dealt
\* with are over, those it has not are still on its list.
TreeIsCancelled ==
    \A c \in Callers : \A r \in ctree[c] \ ctodo[c] : IsTerminal(r)
=============================================================================
