--------------------------- MODULE OperationStore ---------------------------
(***************************************************************************)
(* InMemoryOperationStore: the operations (approvals and prepared commits) *)
(* that a run waits for a host to decide.                                  *)
(*                                                                         *)
(* Every method takes the store's one mutex, so each critical section is   *)
(* one action.  What a method does after it has dropped the mutex, waking  *)
(* the operation's waiters, is an action of its own: `wakes' holds the     *)
(* operations some method has changed and not yet called notify_waiters    *)
(* for, and every other call may run in between.                           *)
(*                                                                         *)
(* A call that returns an error changes nothing.  The result of each call  *)
(* is an operator that tests the conditions in the order of the code, and  *)
(* the action is enabled when the result is "Ok".                          *)
(***************************************************************************)
EXTENDS Naturals, Sequences

CONSTANTS
    Runs,       \* run identifiers
    Ops,        \* operation identifiers
    Waiters,    \* tasks that await an operation
    RunOf,      \* RunOf[o]: the run an operation is bound to
    ModeOf,     \* ModeOf[o]: how the operation is to be answered
    Timed,      \* the operations that carry a deadline
    CallOf      \* CallOf[w]: the method task w calls, for which run and operation

Modes == {"BlockingApproval", "DeferredCommit"}

ASSUME BindAssumption ==
    /\ RunOf \in [Ops -> Runs]
    /\ ModeOf \in [Ops -> Modes]
    /\ Timed \subseteq Ops
    /\ CallOf \in [Waiters -> [run : Runs, op : Ops, mode : Modes]]

VARIABLES
    opState,        \* opState[o]: "Absent" before register, "Removed" after remove
    decision,       \* decision[o]: the decision on the record
    terminalRuns,   \* runs the store refuses further work for
    due,            \* operations whose deadline lies in the past
    wakes,          \* operations whose notify_waiters is still to be called
    wpc,            \* wpc[w]: where task w is in its wait
    wout,           \* wout[w]: what its wait returned
    answers         \* history: answers[o], the host calls the store accepted

recordVars == <<opState, decision, terminalRuns>>
waitVars == <<wpc, wout>>
storeVars == <<opState, decision, terminalRuns, due, wakes, wpc, wout, answers>>

----------------------------------------------------------------------------
(* Operation states.                                                       *)

SettledStates == {"Rejected", "Committed", "Failed", "Cancelled", "Expired"}
LiveStates == {"Pending", "Approved", "Committing"}
States == LiveStates \union SettledStates
OpStates == {"Absent", "Removed"} \union States
Decisions == {"Approve", "Reject"}
Answers == Decisions \union {"Commit"}

Registered(o) == opState[o] \in States
OpsOf(r) == {o \in Ops : RunOf[o] = r}

WaitResults == {"Approve", "Reject", "Cancelled", "Expired", "CommitFailed",
                "InvalidState", "BlockingWaitRequired", "DeferredCommitRequired",
                "UnknownOperation", "WrongRun"}

StoreTypeOK ==
    /\ opState \in [Ops -> OpStates]
    /\ decision \in [Ops -> Decisions \union {"None"}]
    /\ terminalRuns \in SUBSET Runs
    /\ due \in SUBSET Timed
    /\ wakes \in SUBSET Ops
    /\ wpc \in [Waiters -> {"idle", "read", "await", "done"}]
    /\ wout \in [Waiters -> WaitResults \union {"None"}]
    /\ answers \in [Ops -> Seq(Answers)]

StoreInit ==
    /\ opState = [o \in Ops |-> "Absent"]
    /\ decision = [o \in Ops |-> "None"]
    /\ terminalRuns = {}
    /\ due = {}
    /\ wakes = {}
    /\ wpc = [w \in Waiters |-> "idle"]
    /\ wout = [w \in Waiters |-> "None"]
    /\ answers = [o \in Ops |-> <<>>]

----------------------------------------------------------------------------
(* Registration.  Identifiers are fresh UUIDs: one that was removed is     *)
(* never bound again.                                                      *)

\* Mutant: register forgets the runs that are over.
RegisterAnytimeResult(o) ==
    IF opState[o] # "Absent" THEN "IdentifierCollision"
    ELSE IF o \in due THEN "Expired"
    ELSE "Ok"

RegisterResult(o) ==
    IF RunOf[o] \in terminalRuns THEN "RunTerminal"
    ELSE IF opState[o] # "Absent" THEN "IdentifierCollision"
    ELSE IF o \in due THEN "Expired"
    ELSE "Ok"

Register(o) ==
    /\ RegisterResult(o) = "Ok"
    /\ opState' = [opState EXCEPT ![o] = "Pending"]
    /\ UNCHANGED <<decision, terminalRuns, due, wakes, waitVars, answers>>

\* The wall clock passes the deadline of o.
DeadlinePasses(o) ==
    /\ o \in Timed \ due
    /\ due' = due \union {o}
    /\ UNCHANGED <<recordVars, wakes, waitVars, answers>>

----------------------------------------------------------------------------
(* The host answers.                                                       *)

LookupResult(r, o) ==
    IF ~Registered(o) THEN "UnknownOperation"
    ELSE IF RunOf[o] # r THEN "WrongRun"
    ELSE "Ok"

\* Mutant: a deferred commit can be approved without being committed.
ResolveAnyModeResult(r, o, d) ==
    IF r \in terminalRuns THEN "RunTerminal"
    ELSE IF LookupResult(r, o) # "Ok" THEN LookupResult(r, o)
    ELSE IF opState[o] # "Pending" THEN "AlreadyResolved"
    ELSE "Ok"

ResolveResult(r, o, d) ==
    IF r \in terminalRuns THEN "RunTerminal"
    ELSE IF LookupResult(r, o) # "Ok" THEN LookupResult(r, o)
    ELSE IF opState[o] # "Pending" THEN "AlreadyResolved"
    ELSE IF ModeOf[o] = "DeferredCommit" /\ d = "Approve" THEN "DeferredCommitRequired"
    ELSE "Ok"

\* A call that is accepted becomes visible to its host when it returns.
Resolve(r, o, d) ==
    /\ ResolveResult(r, o, d) = "Ok"
    /\ opState' = [opState EXCEPT ![o] = IF d = "Approve" THEN "Approved" ELSE "Rejected"]
    /\ decision' = [decision EXCEPT ![o] = d]
    /\ wakes' = wakes \union {o}
    /\ answers' = [answers EXCEPT ![o] = Append(@, d)]
    /\ UNCHANGED <<terminalRuns, due, waitVars>>

BeginCommitResult(r, o) ==
    IF r \in terminalRuns THEN "RunTerminal"
    ELSE IF LookupResult(r, o) # "Ok" THEN LookupResult(r, o)
    ELSE IF ModeOf[o] # "DeferredCommit" THEN "DeferredCommitRequired"
    ELSE IF opState[o] # "Pending" THEN "AlreadyResolved"
    ELSE "Ok"

\* Mutant: the waiters are not notified.
BeginCommitSilently(r, o) ==
    /\ BeginCommitResult(r, o) = "Ok"
    /\ opState' = [opState EXCEPT ![o] = "Committing"]
    /\ answers' = [answers EXCEPT ![o] = Append(@, "Commit")]
    /\ UNCHANGED <<decision, terminalRuns, due, wakes, waitVars>>

BeginCommit(r, o) ==
    /\ BeginCommitResult(r, o) = "Ok"
    /\ opState' = [opState EXCEPT ![o] = "Committing"]
    /\ wakes' = wakes \union {o}
    /\ answers' = [answers EXCEPT ![o] = Append(@, "Commit")]
    /\ UNCHANGED <<decision, terminalRuns, due, waitVars>>

----------------------------------------------------------------------------
(* The effect behind an answered operation is over.  Neither method looks  *)
(* at terminal_runs and neither wakes anyone.                              *)

FinishBlockingApprovalResult(r, o) ==
    IF LookupResult(r, o) # "Ok" THEN LookupResult(r, o)
    ELSE IF ModeOf[o] # "BlockingApproval" \/ opState[o] # "Approved" THEN "InvalidState"
    ELSE "Ok"

FinishBlockingApproval(r, o, ok) ==
    /\ FinishBlockingApprovalResult(r, o) = "Ok"
    /\ opState' = [opState EXCEPT ![o] = IF ok THEN "Committed" ELSE "Failed"]
    /\ UNCHANGED <<decision, terminalRuns, due, wakes, waitVars, answers>>

FinishCommitResult(r, o) ==
    IF LookupResult(r, o) # "Ok" THEN LookupResult(r, o)
    ELSE IF opState[o] # "Committing" THEN "InvalidState"
    ELSE "Ok"

FinishCommit(r, o, ok) ==
    /\ FinishCommitResult(r, o) = "Ok"
    /\ opState' = [opState EXCEPT ![o] = IF ok THEN "Committed" ELSE "Failed"]
    /\ UNCHANGED <<decision, terminalRuns, due, wakes, waitVars, answers>>

----------------------------------------------------------------------------
(* Cancellation, expiry, removal.                                          *)

\* Mutant: a commit that is under way is cancelled too.
CancellableIfLive(r) == {o \in OpsOf(r) : opState[o] \in LiveStates}

Cancellable(r) == {o \in OpsOf(r) : opState[o] \in {"Pending", "Approved"}}

\* cancel_run, which is also mark_run_terminal.
CancelRun(r) ==
    /\ terminalRuns' = terminalRuns \union {r}
    /\ opState' = [o \in Ops |-> IF o \in Cancellable(r) THEN "Cancelled" ELSE opState[o]]
    /\ wakes' = wakes \union Cancellable(r)
    /\ UNCHANGED <<decision, due, waitVars, answers>>

Expirable == {o \in due : opState[o] = "Pending"}

\* expire(now) with the current time.
Expire ==
    /\ Expirable # {}
    /\ opState' = [o \in Ops |-> IF o \in Expirable THEN "Expired" ELSE opState[o]]
    /\ wakes' = wakes \union Expirable
    /\ UNCHANGED <<decision, terminalRuns, due, waitVars, answers>>

Remove(r, o) ==
    /\ LookupResult(r, o) = "Ok"
    /\ opState' = [opState EXCEPT ![o] = "Removed"]
    /\ decision' = [decision EXCEPT ![o] = "None"]
    /\ wakes' = wakes \union {o}
    /\ UNCHANGED <<terminalRuns, due, waitVars, answers>>

----------------------------------------------------------------------------
(* Waiting.  wait is for a blocking approval, wait_for_commit_or_reject    *)
(* for a deferred commit; the mode of a call says which one it is.  Under  *)
(* the mutex a waiter creates its Notified future and reads the record, so *)
(* it is told of every notify_waiters after that read, even of one that    *)
(* comes before it starts to await.                                        *)

DecisionOnRecord(o) == IF decision[o] = "None" THEN "InvalidState" ELSE decision[o]

\* Mutant: an operation that expired reads as one that was rejected.
ExpiredIsRejected(c) ==
    IF LookupResult(c.run, c.op) # "Ok" THEN LookupResult(c.run, c.op)
    ELSE CASE opState[c.op] \in {"Pending", "Cancelled"} -> opState[c.op]
           [] opState[c.op] \in {"Rejected", "Expired"} -> "Reject"
           [] OTHER -> "InvalidState"

\* What the loop does on the state it read; "Pending" is to await.
WaitResult(c) ==
    IF LookupResult(c.run, c.op) # "Ok" THEN LookupResult(c.run, c.op)
    ELSE IF ModeOf[c.op] # c.mode
         THEN IF c.mode = "BlockingApproval" THEN "BlockingWaitRequired"
                                             ELSE "DeferredCommitRequired"
    ELSE CASE opState[c.op] \in {"Pending", "Cancelled", "Expired"} -> opState[c.op]
           [] opState[c.op] = "Failed" -> "CommitFailed"
           [] opState[c.op] = "Rejected" -> DecisionOnRecord(c.op)
           [] opState[c.op] = "Approved" /\ c.mode = "BlockingApproval" -> DecisionOnRecord(c.op)
           [] opState[c.op] = "Committing" /\ c.mode = "DeferredCommit" -> "Approve"
           [] OTHER -> "InvalidState"

WaitCall(w) ==
    /\ wpc[w] = "idle"
    /\ wpc' = [wpc EXCEPT ![w] = "read"]
    /\ UNCHANGED <<recordVars, due, wakes, wout, answers>>

WaitRead(w) ==
    /\ wpc[w] = "read"
    /\ IF WaitResult(CallOf[w]) = "Pending"
       THEN /\ wpc' = [wpc EXCEPT ![w] = "await"]
            /\ UNCHANGED wout
       ELSE /\ wpc' = [wpc EXCEPT ![w] = "done"]
            /\ wout' = [wout EXCEPT ![w] = WaitResult(CallOf[w])]
    /\ UNCHANGED <<recordVars, due, wakes, answers>>

\* The method that changed o, its mutex dropped, wakes all who await o.
NotifyWaiters(o) ==
    /\ o \in wakes
    /\ wakes' = wakes \ {o}
    /\ wpc' = [w \in Waiters |-> IF wpc[w] = "await" /\ CallOf[w].op = o THEN "read" ELSE wpc[w]]
    /\ UNCHANGED <<recordVars, due, wout, answers>>

----------------------------------------------------------------------------
(* The store with any number of hosts calling any method at any time.      *)

WaiterStep(w) == WaitCall(w) \/ WaitRead(w)

AnswerStep(r, o) ==
    \/ \E d \in Decisions : Resolve(r, o, d)
    \/ BeginCommit(r, o)

EffectStep(r, o) ==
    \E ok \in BOOLEAN : FinishBlockingApproval(r, o, ok) \/ FinishCommit(r, o, ok)

\* Everything but the end of a run, which the run table brings about.
StoreCall ==
    \/ \E o \in Ops : Register(o) \/ DeadlinePasses(o) \/ NotifyWaiters(o)
    \/ \E r \in Runs, o \in Ops : AnswerStep(r, o) \/ EffectStep(r, o) \/ Remove(r, o)
    \/ Expire
    \/ \E w \in Waiters : WaiterStep(w)

StoreNext == StoreCall \/ \E r \in Runs : CancelRun(r)

\* A method that has changed an operation goes on to notify, and a task that
\* is woken is polled.  Nothing obliges a host to answer.
StoreFairness ==
    /\ \A o \in Ops : WF_storeVars(NotifyWaiters(o))
    /\ \A w \in Waiters : WF_storeVars(WaitRead(w))

StoreSpec == StoreInit /\ [][StoreNext]_storeVars /\ StoreFairness

----------------------------------------------------------------------------
(* Properties.                                                             *)

\* Once cancel_run (or mark_run_terminal) has been through, no operation of
\* the run can be waiting for an answer or hold an approval that is still to
\* be used: a registration or an approval that races the cancellation either
\* comes first and is cancelled, or is refused.
NoLiveOpInTerminalRun ==
    \A o \in Ops : RunOf[o] \in terminalRuns => opState[o] \notin {"Pending", "Approved"}

\* Of all hosts that resolve or commit one operation, at most one is told
\* that its answer was accepted.
OneAnswerAccepted == \A o \in Ops : Len(answers[o]) <= 1

\* An approval reported to a waiting task was given by a host, and so was a
\* rejection: cancellation, expiry, removal and a wait that reads a late
\* state never look like an answer.
WaiterToldTheAnswer ==
    \A w \in Waiters :
        /\ wout[w] = "Approve" => answers[CallOf[w].op] \in {<<"Approve">>, <<"Commit">>}
        /\ wout[w] = "Reject" => answers[CallOf[w].op] = <<"Reject">>

\* The record and what hosts were told agree: an operation is approved,
\* rejected, being committed, committed or failed exactly on the one answer
\* that the store accepted for it, a deferred commit never on an approval,
\* and the decision that wait takes from the record is there when the state
\* says so.  One that is cancelled, expired or removed may have been answered.
AnswerOnRecord ==
    \A o \in Ops :
        /\ opState[o] \in {"Absent", "Pending"} => answers[o] = <<>> /\ decision[o] = "None"
        /\ opState[o] = "Rejected" => answers[o] = <<"Reject">> /\ decision[o] = "Reject"
        /\ opState[o] = "Approved" => answers[o] = <<"Approve">> /\ decision[o] = "Approve"
        /\ opState[o] = "Committing" => answers[o] = <<"Commit">>
        /\ opState[o] \in {"Approved", "Committing", "Committed", "Failed"} =>
               answers[o] = IF ModeOf[o] = "DeferredCommit" THEN <<"Commit">> ELSE <<"Approve">>
        /\ opState[o] \in {"Cancelled", "Expired", "Removed"} => Len(answers[o]) <= 1

KeepsSettled ==
    \A o \in Ops : opState'[o] # opState[o] =>
        /\ opState[o] \in SettledStates => opState'[o] = "Removed"
        /\ opState[o] = "Committing" => opState'[o] \in {"Committed", "Failed", "Removed"}
        /\ opState[o] # "Removed"

\* A settled operation never changes again, unless it is removed, and one
\* that is being committed can only be settled by the outcome of its commit:
\* no late answer, cancellation or deadline overtakes it.
SettledIsFinal == [][KeepsSettled]_storeVars

\* No wake-up is lost: a task that awaits an operation which has been
\* answered, cancelled, expired or removed gets to return.
WaitersAreWoken ==
    \A w \in Waiters :
        (wpc[w] = "await" /\ opState[CallOf[w].op] # "Pending") ~> wpc[w] = "done"
=============================================================================
