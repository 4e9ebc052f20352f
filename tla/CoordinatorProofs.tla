-------------------------- MODULE CoordinatorProofs --------------------------
(***************************************************************************)
(* The safety of the operation store, of the run table with its store, and *)
(* of the task that drives a run, composed with the two and with a host    *)
(* that cancels and answers from threads of its own: for any runs,         *)
(* operations, waiters, callers and hooks, and for any turns, tools,       *)
(* policies and limits.                                                    *)
(*                                                                         *)
(* The inductive invariant of the store is the type invariant with         *)
(* AnswerOnRecord: it is what ties the answers hosts were told of to the   *)
(* states, and WaiterToldTheAnswer needs it (an answer is only accepted in *)
(* state "Pending", where AnswerOnRecord says there is none).              *)
(*                                                                         *)
(* That of the table is the conjunction of what the runs check: each part  *)
(* needs the type invariant, StoreFollowsTable needs that of the store,    *)
(* and that a run which is over stays over (TreeIsCancelled and            *)
(* HooksFollowCancel build on it) rests on the guard that every call       *)
(* evaluates under the table's mutex.                                      *)
(*                                                                         *)
(* Every step of the task is a step of the table or leaves it alone, so    *)
(* the table's invariant holds there too.  On top of it come, in the order *)
(* in which they are proved: the control of the loop and its slots, what a *)
(* slot knows of its operation, what the log and the budget count, the     *)
(* ledger, the state of the run, and the operations that are open.         *)
(***************************************************************************)
EXTENDS Coordinator, FiniteSetTheorems, TLAPS


----------------------------------------------------------------------------
(* The operation store.                                                    *)

StoreInv ==
    /\ StoreTypeOK
    /\ AnswerOnRecord
    /\ NoLiveOpInTerminalRun
    /\ WaiterToldTheAnswer

\* A wait returns one of the results the code has, or goes on waiting.
LEMMA WaitResultType ==
    ASSUME StoreTypeOK, NEW w \in Waiters
    PROVE  WaitResult(CallOf[w]) \in WaitResults \union {"Pending"}
<1>1. CallOf[w] \in [run : Runs, op : Ops, mode : Modes]
  BY BindAssumption
<1>2. CallOf[w].op \in Ops
  BY <1>1
<1>3. opState[CallOf[w].op] \in OpStates /\ decision[CallOf[w].op] \in Decisions \union {"None"}
  BY <1>2 DEF StoreTypeOK
<1> QED
  BY <1>3 DEF WaitResult, LookupResult, DecisionOnRecord, WaitResults, Decisions

\* What a wait reports of the answer is what the record holds.
LEMMA WaitResultTold ==
    ASSUME StoreTypeOK, AnswerOnRecord, NEW w \in Waiters
    PROVE  /\ WaitResult(CallOf[w]) = "Approve" =>
                  answers[CallOf[w].op] \in {<<"Approve">>, <<"Commit">>}
           /\ WaitResult(CallOf[w]) = "Reject" => answers[CallOf[w].op] = <<"Reject">>
<1>1. CallOf[w] \in [run : Runs, op : Ops, mode : Modes]
  BY BindAssumption
<1>2. CallOf[w].op \in Ops
  BY <1>1
<1>3. opState[CallOf[w].op] \in OpStates
  BY <1>2 DEF StoreTypeOK
<1> DEFINE o == CallOf[w].op
<1>4. /\ opState[o] = "Rejected" => answers[o] = <<"Reject">> /\ decision[o] = "Reject"
      /\ opState[o] = "Approved" => answers[o] = <<"Approve">> /\ decision[o] = "Approve"
      /\ opState[o] = "Committing" => answers[o] = <<"Commit">>
  BY <1>2 DEF AnswerOnRecord
<1> QED
  BY <1>3, <1>4 DEF WaitResult, LookupResult, DecisionOnRecord

\* One answer is not none, and is of length one.
LEMMA SingleAnswer == \A a : <<a>> # <<>> /\ Len(<<a>>) = 1
  OBVIOUS

\* No operation has been answered twice.
LEMMA AtMostOneAnswer ==
    ASSUME StoreTypeOK, AnswerOnRecord, NEW o \in Ops
    PROVE  Len(answers[o]) <= 1
<1>1. opState[o] \in OpStates
  BY DEF StoreTypeOK
<1>2. CASE opState[o] \in {"Absent", "Pending"}
  BY <1>2 DEF AnswerOnRecord
<1>3. CASE opState[o] \in {"Cancelled", "Expired", "Removed"}
  BY <1>3 DEF AnswerOnRecord
<1>4. CASE opState[o] \in {"Rejected", "Approved", "Committing", "Committed", "Failed"}
  <2>1. /\ opState[o] = "Rejected" => answers[o] = <<"Reject">>
        /\ opState[o] \in {"Approved", "Committing", "Committed", "Failed"} =>
               answers[o] = IF ModeOf[o] = "DeferredCommit" THEN <<"Commit">> ELSE <<"Approve">>
    BY Zenon DEF AnswerOnRecord
  <2>2. \E a : answers[o] = <<a>>
    BY <1>4, <2>1
  <2> QED
    BY <2>2, SingleAnswer
<1> QED
  BY <1>1, <1>2, <1>3, <1>4 DEF OpStates, States, LiveStates, SettledStates

LEMMA StoreInitInv == StoreInit => StoreInv
  BY BindAssumption
  DEF StoreInit, StoreInv, StoreTypeOK, AnswerOnRecord, NoLiveOpInTerminalRun,
      WaiterToldTheAnswer, OpStates, Answers, Decisions

\* Steps that leave the records alone and only move tasks.
LEMMA WaitStepInv ==
    ASSUME StoreInv,
           \/ \E w \in Waiters : WaiterStep(w)
           \/ \E o \in Ops : NotifyWaiters(o)
    PROVE  StoreInv'
<1> USE DEF StoreInv
<1>1. CASE \E o \in Ops : NotifyWaiters(o)
  BY <1>1 DEF NotifyWaiters, recordVars, StoreTypeOK, AnswerOnRecord,
              NoLiveOpInTerminalRun, WaiterToldTheAnswer
<1>2. ASSUME NEW w \in Waiters, WaitCall(w) PROVE StoreInv'
  BY <1>2 DEF WaitCall, recordVars, StoreTypeOK, AnswerOnRecord,
              NoLiveOpInTerminalRun, WaiterToldTheAnswer
<1>3. ASSUME NEW w \in Waiters, WaitRead(w) PROVE StoreInv'
  <2>1. StoreTypeOK'
    BY <1>3, WaitResultType DEF WaitRead, recordVars, StoreTypeOK
  <2>2. AnswerOnRecord' /\ NoLiveOpInTerminalRun'
    BY <1>3 DEF WaitRead, recordVars, AnswerOnRecord, NoLiveOpInTerminalRun
  <2>3. WaiterToldTheAnswer'
    BY <1>3, WaitResultTold DEF WaitRead, recordVars, WaiterToldTheAnswer, StoreTypeOK
  <2> QED
    BY <2>1, <2>2, <2>3
<1> QED
  BY <1>1, <1>2, <1>3 DEF WaiterStep

LEMMA RegisterInv == ASSUME StoreInv, NEW o \in Ops, Register(o) PROVE StoreInv'
  BY BindAssumption
  DEF StoreInv, Register, RegisterResult, waitVars, StoreTypeOK, AnswerOnRecord,
      NoLiveOpInTerminalRun, WaiterToldTheAnswer, OpStates, States, LiveStates

LEMMA DeadlineInv == ASSUME StoreInv, NEW o \in Ops, DeadlinePasses(o) PROVE StoreInv'
  BY DEF StoreInv, DeadlinePasses, recordVars, waitVars, StoreTypeOK, AnswerOnRecord,
         NoLiveOpInTerminalRun, WaiterToldTheAnswer

\* An answer is accepted in state "Pending" only, where there is none yet.
LEMMA ResolveInv ==
    ASSUME StoreInv, NEW r \in Runs, NEW o \in Ops, NEW d \in Decisions, Resolve(r, o, d)
    PROVE  StoreInv'
<1> USE DEF StoreInv
<1>1. opState[o] = "Pending" /\ RunOf[o] \notin terminalRuns
      /\ (d = "Approve" => ModeOf[o] # "DeferredCommit")
  BY DEF Resolve, ResolveResult, LookupResult
<1>2. answers[o] = <<>>
  BY <1>1 DEF AnswerOnRecord
<1>3. answers'[o] = <<d>> /\ \A p \in Ops \ {o} : answers'[p] = answers[p]
  BY <1>2 DEF Resolve, StoreTypeOK, Decisions
<1>4. StoreTypeOK'
  BY DEF Resolve, waitVars, StoreTypeOK, OpStates, States, LiveStates, SettledStates,
         Answers, Decisions
<1>5. AnswerOnRecord'
  <2>1. /\ opState'[o] = IF d = "Approve" THEN "Approved" ELSE "Rejected"
        /\ decision'[o] = d
        /\ \A p \in Ops \ {o} : opState'[p] = opState[p] /\ decision'[p] = decision[p]
    BY DEF Resolve, StoreTypeOK
  <2>2. d = "Approve" \/ d = "Reject"
    BY DEF Decisions
  <2> SUFFICES ASSUME NEW p \in Ops
               PROVE  /\ opState'[p] \in {"Absent", "Pending"} =>
                             answers'[p] = <<>> /\ decision'[p] = "None"
                      /\ opState'[p] = "Rejected" =>
                             answers'[p] = <<"Reject">> /\ decision'[p] = "Reject"
                      /\ opState'[p] = "Approved" =>
                             answers'[p] = <<"Approve">> /\ decision'[p] = "Approve"
                      /\ opState'[p] = "Committing" => answers'[p] = <<"Commit">>
                      /\ opState'[p] \in {"Approved", "Committing", "Committed", "Failed"} =>
                             answers'[p] = IF ModeOf[p] = "DeferredCommit"
                                           THEN <<"Commit">> ELSE <<"Approve">>
                      /\ opState'[p] \in {"Cancelled", "Expired", "Removed"} =>
                             Len(answers'[p]) <= 1
    BY DEF AnswerOnRecord
  <2>3. CASE p = o
    BY <1>1, <1>3, <2>1, <2>2, <2>3
  <2>4. CASE p # o
    BY <1>3, <2>1, <2>4 DEF AnswerOnRecord
  <2> QED
    BY <2>3, <2>4
<1>6. NoLiveOpInTerminalRun'
  BY <1>1 DEF Resolve, NoLiveOpInTerminalRun, StoreTypeOK
<1>7. WaiterToldTheAnswer'
  <2> SUFFICES ASSUME NEW w \in Waiters
               PROVE  /\ wout[w] = "Approve" =>
                             answers'[CallOf[w].op] \in {<<"Approve">>, <<"Commit">>}
                      /\ wout[w] = "Reject" => answers'[CallOf[w].op] = <<"Reject">>
    BY DEF Resolve, waitVars, WaiterToldTheAnswer
  <2>1. CallOf[w].op \in Ops
    BY BindAssumption
  <2>2. CASE CallOf[w].op = o
    BY <1>2, <2>2, SingleAnswer DEF WaiterToldTheAnswer
  <2> QED
    BY <1>3, <2>1, <2>2 DEF WaiterToldTheAnswer
<1> QED
  BY <1>4, <1>5, <1>6, <1>7

LEMMA BeginCommitInv ==
    ASSUME StoreInv, NEW r \in Runs, NEW o \in Ops, BeginCommit(r, o)
    PROVE  StoreInv'
<1> USE DEF StoreInv
<1>1. opState[o] = "Pending" /\ ModeOf[o] = "DeferredCommit"
  BY DEF BeginCommit, BeginCommitResult, LookupResult
<1>2. answers[o] = <<>>
  BY <1>1 DEF AnswerOnRecord
<1>3. answers'[o] = <<"Commit">> /\ \A p \in Ops \ {o} : answers'[p] = answers[p]
  BY <1>2 DEF BeginCommit, StoreTypeOK
<1>4. StoreTypeOK'
  BY DEF BeginCommit, waitVars, StoreTypeOK, OpStates, States, LiveStates, Answers
<1>5. AnswerOnRecord'
  BY <1>1, <1>3 DEF BeginCommit, AnswerOnRecord, StoreTypeOK
<1>6. NoLiveOpInTerminalRun'
  BY DEF BeginCommit, NoLiveOpInTerminalRun, StoreTypeOK
<1>7. WaiterToldTheAnswer'
  <2> SUFFICES ASSUME NEW w \in Waiters
               PROVE  /\ wout[w] = "Approve" =>
                             answers'[CallOf[w].op] \in {<<"Approve">>, <<"Commit">>}
                      /\ wout[w] = "Reject" => answers'[CallOf[w].op] = <<"Reject">>
    BY DEF BeginCommit, waitVars, WaiterToldTheAnswer
  <2>1. CallOf[w].op \in Ops
    BY BindAssumption
  <2>2. CASE CallOf[w].op = o
    BY <1>2, <2>2, SingleAnswer DEF WaiterToldTheAnswer
  <2> QED
    BY <1>3, <2>1, <2>2 DEF WaiterToldTheAnswer
<1> QED
  BY <1>4, <1>5, <1>6, <1>7

LEMMA EffectInv ==
    ASSUME StoreInv, NEW r \in Runs, NEW o \in Ops, EffectStep(r, o)
    PROVE  StoreInv'
<1> USE DEF StoreInv
<1>1. PICK ok \in BOOLEAN : FinishBlockingApproval(r, o, ok) \/ FinishCommit(r, o, ok)
  BY DEF EffectStep
<1>2. /\ opState[o] \in {"Approved", "Committing"}
      /\ opState' = [opState EXCEPT ![o] = IF ok THEN "Committed" ELSE "Failed"]
      /\ UNCHANGED <<decision, terminalRuns, due, wakes, waitVars, answers>>
  BY <1>1 DEF FinishBlockingApproval, FinishBlockingApprovalResult, FinishCommit,
              FinishCommitResult, LookupResult
<1> QED
  BY <1>2 DEF waitVars, StoreTypeOK, AnswerOnRecord, NoLiveOpInTerminalRun,
              WaiterToldTheAnswer, OpStates, States, SettledStates

LEMMA CancelRunInv == ASSUME StoreInv, NEW r \in Runs, CancelRun(r) PROVE StoreInv'
<1> USE DEF StoreInv
<1>1. StoreTypeOK'
  BY DEF CancelRun, Cancellable, OpsOf, waitVars, StoreTypeOK, OpStates, States, SettledStates
<1>2. NoLiveOpInTerminalRun'
  BY DEF CancelRun, Cancellable, OpsOf, StoreTypeOK, NoLiveOpInTerminalRun
<1>3. AnswerOnRecord'
  <2>1. ASSUME NEW o \in Cancellable(r)
        PROVE  opState'[o] = "Cancelled" /\ Len(answers[o]) <= 1
    BY AtMostOneAnswer DEF CancelRun, Cancellable, OpsOf
  <2>2. \A o \in Ops \ Cancellable(r) : opState'[o] = opState[o]
    BY DEF CancelRun
  <2> QED
    BY <2>1, <2>2 DEF CancelRun, AnswerOnRecord
<1>4. WaiterToldTheAnswer'
  BY DEF CancelRun, waitVars, WaiterToldTheAnswer
<1> QED
  BY <1>1, <1>2, <1>3, <1>4

LEMMA ExpireInv == ASSUME StoreInv, Expire PROVE StoreInv'
<1> USE DEF StoreInv
<1>1. StoreTypeOK'
  BY BindAssumption DEF Expire, Expirable, waitVars, StoreTypeOK, OpStates, States, SettledStates
<1>2. NoLiveOpInTerminalRun'
  BY DEF Expire, Expirable, StoreTypeOK, NoLiveOpInTerminalRun
<1>3. AnswerOnRecord'
  BY DEF Expire, Expirable, StoreTypeOK, AnswerOnRecord
<1>4. WaiterToldTheAnswer'
  BY DEF Expire, waitVars, WaiterToldTheAnswer
<1> QED
  BY <1>1, <1>2, <1>3, <1>4

\* The answers of a removed operation stay what they were.
LEMMA RemoveInv ==
    ASSUME StoreInv, NEW r \in Runs, NEW o \in Ops, Remove(r, o) PROVE StoreInv'
<1> USE DEF StoreInv
<1>1. Len(answers[o]) <= 1
  BY AtMostOneAnswer
<1>2. StoreTypeOK' /\ NoLiveOpInTerminalRun'
  BY DEF Remove, waitVars, StoreTypeOK, NoLiveOpInTerminalRun, OpStates
<1>3. AnswerOnRecord'
  BY <1>1 DEF Remove, StoreTypeOK, AnswerOnRecord
<1>4. WaiterToldTheAnswer'
  BY DEF Remove, waitVars, WaiterToldTheAnswer
<1> QED
  BY <1>2, <1>3, <1>4

LEMMA StoreCallInv == ASSUME StoreInv, StoreCall PROVE StoreInv'
<1>1. CASE \E w \in Waiters : WaiterStep(w)
  BY <1>1, WaitStepInv
<1>2. CASE \E o \in Ops : Register(o) \/ DeadlinePasses(o) \/ NotifyWaiters(o)
  BY <1>2, WaitStepInv, RegisterInv, DeadlineInv
<1>3. CASE \E r \in Runs, o \in Ops : AnswerStep(r, o) \/ EffectStep(r, o) \/ Remove(r, o)
  BY <1>3, ResolveInv, BeginCommitInv, EffectInv, RemoveInv DEF AnswerStep
<1>4. CASE Expire
  BY <1>4, ExpireInv
<1> QED
  BY <1>1, <1>2, <1>3, <1>4 DEF StoreCall

LEMMA StoreStutterInv == ASSUME StoreInv, UNCHANGED storeVars PROVE StoreInv'
  BY DEF storeVars, StoreInv, StoreTypeOK, AnswerOnRecord, NoLiveOpInTerminalRun,
         WaiterToldTheAnswer

\* The store's inductive invariant holds in every reachable state.
THEOREM StoreSafety == StoreSpec => []StoreInv
<1>1. StoreInit => StoreInv
  BY StoreInitInv
<1>2. StoreInv /\ [StoreNext]_storeVars => StoreInv'
  BY StoreCallInv, CancelRunInv, StoreStutterInv DEF StoreNext
<1> QED
  BY <1>1, <1>2, PTL DEF StoreSpec

\* cancel_run and mark_run_terminal leave nothing to approve in their run,
\* whatever registrations and approvals they race with.
THEOREM TerminalRunHasNothingToApprove == StoreSpec => []NoLiveOpInTerminalRun
<1>1. StoreInv => NoLiveOpInTerminalRun
  BY DEF StoreInv
<1> QED
  BY <1>1, StoreSafety, PTL

\* The records agree with the answers that hosts were told are accepted.
THEOREM AnswersAreHonoured == StoreSpec => [](AnswerOnRecord /\ OneAnswerAccepted)
<1>1. StoreInv => AnswerOnRecord /\ OneAnswerAccepted
  BY AtMostOneAnswer DEF StoreInv, OneAnswerAccepted
<1> QED
  BY <1>1, StoreSafety, PTL

\* What a wait reports as an answer is the one the store accepted: nothing
\* that overtakes a waiting task looks like a host's approval or rejection.
THEOREM WaitersAreToldTheAnswer == StoreSpec => []WaiterToldTheAnswer
<1>1. StoreInv => WaiterToldTheAnswer
  BY DEF StoreInv
<1> QED
  BY <1>1, StoreSafety, PTL

LEMMA StoreCallKeepsSettled == ASSUME StoreTypeOK, StoreCall PROVE KeepsSettled
<1>1. ASSUME opState' = opState PROVE KeepsSettled
  BY <1>1 DEF KeepsSettled
<1>2. ASSUME NEW o \in Ops, NEW s,
             opState' = [opState EXCEPT ![o] = s],
             \/ opState[o] \in {"Absent", "Pending"}
             \/ opState[o] \in {"Approved", "Committing"} /\ s \in {"Committed", "Failed"}
             \/ opState[o] # "Removed" /\ s = "Removed"
      PROVE  KeepsSettled
  BY <1>2 DEF KeepsSettled, StoreTypeOK, SettledStates
<1>3. CASE \E w \in Waiters : WaiterStep(w)
  BY <1>1, <1>3 DEF WaiterStep, WaitCall, WaitRead, recordVars
<1>4. ASSUME NEW o \in Ops, Register(o) \/ DeadlinePasses(o) \/ NotifyWaiters(o)
      PROVE  KeepsSettled
  BY <1>1, <1>2, <1>4 DEF Register, RegisterResult, DeadlinePasses, NotifyWaiters, recordVars
<1>5. ASSUME NEW r \in Runs, NEW o \in Ops, AnswerStep(r, o) \/ EffectStep(r, o) \/ Remove(r, o)
      PROVE  KeepsSettled
  <2>1. CASE AnswerStep(r, o)
    BY <1>2, <2>1 DEF AnswerStep, Resolve, ResolveResult, BeginCommit, BeginCommitResult
  <2>2. CASE EffectStep(r, o)
    BY <1>2, <2>2 DEF EffectStep, FinishBlockingApproval, FinishBlockingApprovalResult,
                      FinishCommit, FinishCommitResult
  <2>3. CASE Remove(r, o)
    BY <1>2, <2>3 DEF Remove, LookupResult, Registered, States, LiveStates, SettledStates
  <2> QED
    BY <1>5, <2>1, <2>2, <2>3
<1>6. CASE Expire
  BY <1>6 DEF Expire, Expirable, KeepsSettled, SettledStates
<1> QED
  BY <1>3, <1>4, <1>5, <1>6 DEF StoreCall

LEMMA CancelRunKeepsSettled == ASSUME NEW r \in Runs, CancelRun(r) PROVE KeepsSettled
  BY DEF CancelRun, Cancellable, KeepsSettled, SettledStates

\* What is settled stays settled, and a commit under way is settled by its
\* own outcome: no answer, cancellation or deadline that comes late changes it.
THEOREM SettledOperationsStay == StoreSpec => SettledIsFinal
<1>1. StoreInv /\ [StoreNext]_storeVars => [KeepsSettled]_storeVars
  BY StoreCallKeepsSettled, CancelRunKeepsSettled DEF StoreNext, StoreInv
<1> QED
  BY <1>1, StoreSafety, PTL DEF StoreSpec, SettledIsFinal

----------------------------------------------------------------------------
(* The run table.                                                          *)

TableInv ==
    /\ StoreInv
    /\ TableTypeOK
    /\ LogAgreesWithState
    /\ StoreFollowsTable
    /\ HooksFollowCancel
    /\ TreeIsCancelled

----------------------------------------------------------------------------
(* The event log.                                                          *)

\* One more event on a log that is numbered without a gap.
LEMMA AppendToLog ==
    ASSUME NEW log \in Seq(Event), NEW kind \in EventKinds
    PROVE  LET new == Append(log, [seq |-> Len(log) + 1, kind |-> kind]) IN
           /\ new \in Seq(Event) /\ new # <<>>
           /\ Len(new) = Len(log) + 1
           /\ new[Len(new)] = [seq |-> Len(log) + 1, kind |-> kind]
           /\ \A i \in 1..Len(log) : new[i] = log[i]
<1> DEFINE e == [seq |-> Len(log) + 1, kind |-> kind]
<1>1. e \in Event
  BY DEF Event
<1> QED
  BY <1>1

\* The next number is one more than the length of the log, and a run that is
\* not over can be appended to: append_event does not fail.
LEMMA AppendActive ==
    ASSUME TableTypeOK, LogAgreesWithState, NEW r \in Runs, ActiveResult(r) = "Ok",
           NEW kind \in EventKinds
    PROVE  /\ runState[r] \in ActiveStates
           /\ events[r] \in Seq(Event) /\ events[r] # <<>>
           /\ Appended(r, kind) =
                 [events EXCEPT ![r] = Append(events[r], [seq |-> Len(events[r]) + 1, kind |-> kind])]
<1>1. runState[r] \in ActiveStates /\ Known(r) /\ ~IsTerminal(r)
  BY DEF ActiveResult, TableTypeOK, RunStates, IsTerminal, Known
<1>2. events[r] \in Seq(Event) /\ events[r] # <<>> /\ Len(events[r]) \in 1..Len(events[r])
  BY <1>1 DEF TableTypeOK, LogAgreesWithState
<1>3. LastEvent(r).kind \notin TerminalStates /\ LastEvent(r).seq = Len(events[r])
  BY <1>1, <1>2 DEF LogAgreesWithState, LastEvent
<1> QED
  BY <1>1, <1>2, <1>3 DEF Appended, CanAppend, NextSeq

\* A record that gets a state and the event that goes with it.
LEMMA RecordStep ==
    ASSUME TableTypeOK, LogAgreesWithState, NEW r \in Runs, ActiveResult(r) = "Ok",
           NEW kind \in EventKinds, NEW s \in RunStates \ {"Absent"},
           IF s \in TerminalStates THEN kind = s ELSE kind \notin TerminalStates,
           runState' = [runState EXCEPT ![r] = s],
           events' = Appended(r, kind)
    PROVE  /\ runState' \in [Runs -> RunStates]
           /\ events' \in [Runs -> Seq(Event)]
           /\ LogAgreesWithState'
           /\ KeepsTheLog
<1> DEFINE new == Append(events[r], [seq |-> Len(events[r]) + 1, kind |-> kind])
<1>1. /\ runState[r] \in ActiveStates
      /\ events[r] \in Seq(Event) /\ events[r] # <<>>
      /\ events' = [events EXCEPT ![r] = new]
  BY AppendActive
<1>2. /\ new \in Seq(Event) /\ new # <<>>
      /\ Len(new) = Len(events[r]) + 1
      /\ new[Len(new)] = [seq |-> Len(events[r]) + 1, kind |-> kind]
      /\ \A i \in 1..Len(events[r]) : new[i] = events[r][i]
  BY <1>1, AppendToLog
<1>3. /\ runState' \in [Runs -> RunStates]
      /\ events' \in [Runs -> Seq(Event)]
      /\ runState'[r] = s /\ events'[r] = new
      /\ \A q \in Runs \ {r} : runState'[q] = runState[q] /\ events'[q] = events[q]
  BY <1>1, <1>2 DEF TableTypeOK
<1> HIDE DEF new
<1>4. ASSUME NEW q \in Runs, q # r, Known(q)'
      PROVE  /\ events'[q] # <<>>
             /\ events'[q][1].kind = "RunStarted"
             /\ \A i \in 1..Len(events'[q]) : events'[q][i].seq = i
             /\ \A i \in 1..Len(events'[q]) - 1 : events'[q][i].kind \notin TerminalStates
             /\ IF IsTerminal(q)' THEN LastEvent(q)'.kind = runState'[q]
                                  ELSE LastEvent(q)'.kind \notin TerminalStates
  BY <1>3, <1>4 DEF LogAgreesWithState, Known, IsTerminal, LastEvent
<1>5. /\ new[1].kind = "RunStarted"
      /\ \A i \in 1..Len(new) : new[i].seq = i
      /\ \A i \in 1..Len(new) - 1 : new[i].kind \notin TerminalStates
  <2>1. Known(r) /\ ~IsTerminal(r)
    BY <1>1 DEF Known, IsTerminal, ActiveStates, TerminalStates
  <2>2. /\ events[r][1].kind = "RunStarted"
        /\ \A i \in 1..Len(events[r]) : events[r][i].seq = i
        /\ \A i \in 1..Len(events[r]) - 1 : events[r][i].kind \notin TerminalStates
        /\ events[r][Len(events[r])].kind \notin TerminalStates
    BY <2>1 DEF LogAgreesWithState, LastEvent
  <2>3. Len(events[r]) \in Nat /\ Len(events[r]) > 0
    BY <1>1
  <2> QED
    BY <1>2, <2>2, <2>3
<1>6. LogAgreesWithState'
  BY <1>2, <1>3, <1>4, <1>5 DEF LogAgreesWithState, Known, IsTerminal, LastEvent
<1>7. KeepsTheLog
  <2>1. ~IsTerminal(r)
    BY <1>1 DEF IsTerminal, ActiveStates, TerminalStates
  <2>2. new = Append(events[r], new[Len(new)])
    BY <1>2 DEF new
  <2> QED
    BY <1>2, <1>3, <2>1, <2>2 DEF KeepsTheLog, LastEvent
<1> QED
  BY <1>3, <1>6, <1>7

----------------------------------------------------------------------------
(* The parts of the invariant that a step disturbs.  A lemma per group of   *)
(* variables says what is enough for each part to be kept.                 *)

LEMMA StoreKept == ASSUME StoreInv, UNCHANGED storeVars PROVE StoreInv'
  BY StoreStutterInv

\* Runs that are over stay so, and no run becomes absent again.
StatesKept == \A r \in Runs : IsTerminal(r) => runState'[r] = runState[r]

LEMMA RecordsKept ==
    ASSUME TableTypeOK, LogAgreesWithState, UNCHANGED recVars
    PROVE  /\ runState' \in [Runs -> RunStates]
           /\ events' \in [Runs -> Seq(Event)]
           /\ LogAgreesWithState' /\ KeepsTheLog /\ StatesKept
  BY DEF TableTypeOK, recVars, LogAgreesWithState, KeepsTheLog, StatesKept,
         Known, IsTerminal, LastEvent

LEMMA KeepsTheLogKeepsStates == KeepsTheLog => StatesKept
  BY DEF KeepsTheLog, StatesKept

\* Callers and the store's terminal runs as they were: a run whose state
\* changes must not become one that is over.
LEMMA FollowsKept ==
    ASSUME TableTypeOK, StoreFollowsTable, StatesKept, NoLiveOpInTerminalRun',
           UNCHANGED <<terminalRuns, cpc, crun>>,
           \A r \in Runs : IsTerminal(r)' => IsTerminal(r)
    PROVE  StoreFollowsTable'
<1>1. \A r \in Runs : IsTerminal(r)' <=> IsTerminal(r)
  BY DEF StatesKept, IsTerminal
<1>2. \A c \in Callers, r \in Runs : Ending(c, r)' <=> Ending(c, r)
  BY DEF Ending
<1> QED
  BY <1>1, <1>2 DEF StoreFollowsTable, NoLiveOpInTerminalRun, OpsOf

LEMMA HooksKept ==
    ASSUME TableTypeOK, HooksFollowCancel, StatesKept, UNCHANGED <<hooks, called, chooks>>,
           \A r \in Runs : IsCancelled(r)' => IsCancelled(r)
    PROVE  HooksFollowCancel'
<1>1. \A r \in Runs : IsCancelled(r)' <=> IsCancelled(r)
  BY DEF StatesKept, IsCancelled, IsTerminal, TerminalStates
<1> QED
  BY <1>1, TableAssumption DEF HooksFollowCancel

LEMMA TreeKept ==
    ASSUME TableTypeOK, TreeIsCancelled, StatesKept, UNCHANGED <<ctodo, ctree>>
    PROVE  TreeIsCancelled'
  BY DEF TableTypeOK, TreeIsCancelled, StatesKept, IsTerminal

----------------------------------------------------------------------------
(* The initial states, and the steps of the store.                         *)

LEMMA TableInitInv == Init => TableInv
<1> SUFFICES ASSUME Init PROVE TableInv
  OBVIOUS
<1>1. StoreInv
  BY StoreInitInv DEF Init
<1>2. TableTypeOK
  BY DEF Init, TableInit, TableTypeOK, RunStates, CallSites
<1>3. LogAgreesWithState /\ HooksFollowCancel /\ TreeIsCancelled
  BY TableAssumption DEF Init, TableInit, LogAgreesWithState, HooksFollowCancel,
                         TreeIsCancelled, Known, IsCancelled
<1>4. StoreFollowsTable
  BY DEF Init, TableInit, StoreInit, StoreFollowsTable, IsTerminal, Ending, TerminalStates
<1> QED
  BY <1>1, <1>2, <1>3, <1>4 DEF TableInv

LEMMA StoreCallTerminalRuns == StoreCall => UNCHANGED terminalRuns
<1> SUFFICES ASSUME StoreCall PROVE terminalRuns' = terminalRuns
  OBVIOUS
<1>1. CASE \E o \in Ops : Register(o) \/ DeadlinePasses(o) \/ NotifyWaiters(o)
  BY <1>1 DEF Register, DeadlinePasses, NotifyWaiters, recordVars
<1>2. CASE \E r \in Runs, o \in Ops : AnswerStep(r, o) \/ EffectStep(r, o) \/ Remove(r, o)
  BY <1>2 DEF AnswerStep, Resolve, BeginCommit, EffectStep, FinishBlockingApproval,
              FinishCommit, Remove
<1>3. CASE Expire
  BY <1>3 DEF Expire
<1>4. CASE \E w \in Waiters : WaiterStep(w)
  BY <1>4 DEF WaiterStep, WaitCall, WaitRead, recordVars
<1> QED
  BY <1>1, <1>2, <1>3, <1>4 DEF StoreCall

LEMMA StoreCallTableInv ==
    ASSUME TableInv, StoreCall, UNCHANGED tableVars PROVE TableInv' /\ KeepsTheLog
<1> USE DEF TableInv, tableVars
<1>1. StoreInv'
  BY StoreCallInv
<1>2. TableTypeOK'
  BY DEF TableTypeOK
<1>3. LogAgreesWithState' /\ KeepsTheLog /\ StatesKept
  BY RecordsKept DEF recVars
<1>4. StoreFollowsTable'
  BY <1>1, <1>3, FollowsKept, StoreCallTerminalRuns DEF StoreInv, IsTerminal
<1>5. HooksFollowCancel' /\ TreeIsCancelled'
  BY <1>3, HooksKept, TreeKept DEF IsCancelled
<1> QED
  BY <1>1, <1>2, <1>3, <1>4, <1>5

LEMMA TableStutterInv ==
    ASSUME TableInv, UNCHANGED vars PROVE TableInv'
<1> USE DEF TableInv, vars, tableVars
<1>1. StoreInv'
  BY StoreKept
<1>2. TableTypeOK'
  BY DEF TableTypeOK
<1>3. LogAgreesWithState' /\ StatesKept
  BY RecordsKept DEF recVars
<1>4. StoreFollowsTable'
  BY <1>1, <1>3, FollowsKept DEF StoreInv, IsTerminal, storeVars
<1>5. HooksFollowCancel' /\ TreeIsCancelled'
  BY <1>3, HooksKept, TreeKept DEF IsCancelled
<1> QED
  BY <1>1, <1>2, <1>3, <1>4, <1>5

----------------------------------------------------------------------------
(* The calls that are one critical section.                                *)

LEMMA RegisterRunInv ==
    ASSUME TableInv, NEW r \in Runs, RegisterRun(r) PROVE TableInv' /\ KeepsTheLog
<1> USE DEF TableInv
<1>1. /\ runState[r] = "Absent"
      /\ runState' = [runState EXCEPT ![r] = "Running"]
      /\ events' = [events EXCEPT ![r] = <<[seq |-> 1, kind |-> "RunStarted"]>>]
      /\ UNCHANGED <<storeVars, hookVars, callVars>>
  BY DEF RegisterRun
<1> DEFINE first == <<[seq |-> 1, kind |-> "RunStarted"]>>
<1>2. first \in Seq(Event) /\ Len(first) = 1 /\ first[1].seq = 1 /\ first[1].kind = "RunStarted"
      /\ first # <<>>
  BY DEF Event, EventKinds
<1>3. /\ runState'[r] = "Running" /\ events'[r] = first
      /\ \A q \in Runs \ {r} : runState'[q] = runState[q] /\ events'[q] = events[q]
  BY <1>1 DEF TableTypeOK
<1>4. ~IsTerminal(r) /\ ~Known(r) /\ ~IsTerminal(r)'
  BY <1>1, <1>3 DEF IsTerminal, Known, TerminalStates
<1> HIDE DEF first
<1>5. TableTypeOK'
  BY <1>1, <1>2, <1>3 DEF TableTypeOK, hookVars, callVars, RunStates, ActiveStates, first
<1>6. LogAgreesWithState'
  <2> SUFFICES ASSUME NEW q \in Runs, Known(q)'
      PROVE  /\ events'[q] # <<>>
             /\ events'[q][1].kind = "RunStarted"
             /\ \A i \in 1..Len(events'[q]) : events'[q][i].seq = i
             /\ \A i \in 1..Len(events'[q]) - 1 : events'[q][i].kind \notin TerminalStates
             /\ IF IsTerminal(q)' THEN LastEvent(q)'.kind = runState'[q]
                                  ELSE LastEvent(q)'.kind \notin TerminalStates
    BY DEF LogAgreesWithState
  <2>1. CASE q = r
    BY <1>2, <1>3, <1>4, <2>1 DEF LastEvent, TerminalStates
  <2>2. CASE q # r
    BY <1>3, <2>2 DEF LogAgreesWithState, Known, IsTerminal, LastEvent
  <2> QED
    BY <2>1, <2>2
<1>7. KeepsTheLog /\ StatesKept
  BY <1>3, <1>4 DEF KeepsTheLog, StatesKept
<1>8. StoreInv'
  BY <1>1, StoreKept
<1>9. \A q \in Runs : (IsTerminal(q)' => IsTerminal(q)) /\ (IsCancelled(q)' => IsCancelled(q))
  BY <1>3, <1>4 DEF IsTerminal, IsCancelled, TerminalStates
<1>10. StoreFollowsTable'
  BY <1>1, <1>7, <1>8, <1>9, FollowsKept DEF StoreInv, storeVars, callVars
<1>11. HooksFollowCancel' /\ TreeIsCancelled'
  BY <1>1, <1>7, <1>9, HooksKept, TreeKept DEF hookVars, callVars
<1> QED
  BY <1>5, <1>6, <1>7, <1>8, <1>10, <1>11

\* set_state and emit: an active run stays active.
LEMMA ActiveRecordInv ==
    ASSUME TableInv, NEW r \in Runs, UNCHANGED storeVars,
           \/ \E s \in ActiveStates \union TerminalStates : SetState(r, s)
           \/ \E k \in EventKinds : Emit(r, k)
    PROVE  TableInv' /\ KeepsTheLog
<1> USE DEF TableInv
<1>1. PICK s \in ActiveStates, kind \in EventKinds \ TerminalStates :
        /\ ActiveResult(r) = "Ok"
        /\ runState' = [runState EXCEPT ![r] = s]
        /\ events' = Appended(r, kind)
        /\ UNCHANGED <<hookVars, callVars>>
  <2>1. CASE \E s \in ActiveStates \union TerminalStates : SetState(r, s)
    BY <2>1 DEF SetState, SetStateResult, EventKinds, TerminalStates
  <2>2. CASE \E k \in EventKinds : Emit(r, k)
    <3>1. PICK k \in EventKinds : Emit(r, k)
      BY <2>2
    <3>2. k \in EventKinds \ TerminalStates /\ ActiveResult(r) = "Ok"
      BY <3>1 DEF Emit, EmitResult
    <3>3. runState[r] \in ActiveStates
      BY <3>2, AppendActive
    <3>4. runState' = [runState EXCEPT ![r] = runState[r]]
      BY <3>1 DEF Emit, TableTypeOK
    <3> QED
      BY <3>1, <3>2, <3>3, <3>4 DEF Emit
  <2> QED
    BY <2>1, <2>2
<1>2. s \in RunStates \ {"Absent"} /\ s \notin TerminalStates
  BY DEF RunStates, ActiveStates, TerminalStates
<1>3. /\ runState' \in [Runs -> RunStates] /\ events' \in [Runs -> Seq(Event)]
      /\ LogAgreesWithState' /\ KeepsTheLog
  BY <1>1, <1>2, RecordStep
<1>4. TableTypeOK'
  BY <1>1, <1>3 DEF TableTypeOK, hookVars, callVars
<1>5. StoreInv' /\ StatesKept
  BY <1>3, StoreKept, KeepsTheLogKeepsStates
<1>6. \A q \in Runs : (IsTerminal(q)' => IsTerminal(q)) /\ (IsCancelled(q)' => IsCancelled(q))
  BY <1>1, <1>2 DEF IsTerminal, IsCancelled, TerminalStates, TableTypeOK
<1>7. StoreFollowsTable'
  BY <1>1, <1>5, <1>6, FollowsKept DEF StoreInv, storeVars, callVars
<1>8. HooksFollowCancel' /\ TreeIsCancelled'
  BY <1>1, <1>5, <1>6, HooksKept, TreeKept DEF hookVars, callVars
<1> QED
  BY <1>3, <1>4, <1>5, <1>7, <1>8

LEMMA RegisterHookInv ==
    ASSUME TableInv, NEW h \in Hooks, RegisterCancellationHook(h)
    PROVE  TableInv' /\ KeepsTheLog
<1> USE DEF TableInv
<1>1. /\ ActiveResult(HookRun[h]) = "Ok"
      /\ hooks' = hooks \union {h}
      /\ UNCHANGED <<storeVars, recVars, called, callVars>>
  BY DEF RegisterCancellationHook
<1>2. TableTypeOK'
  BY <1>1 DEF TableTypeOK, recVars, callVars
<1>3. LogAgreesWithState' /\ KeepsTheLog /\ StatesKept
  BY <1>1, RecordsKept
<1>4. StoreInv'
  BY <1>1, StoreKept
<1>5. StoreFollowsTable'
  BY <1>1, <1>3, <1>4, FollowsKept DEF StoreInv, storeVars, callVars, recVars, IsTerminal
<1>6. ~IsCancelled(HookRun[h])
  BY <1>1 DEF ActiveResult, IsTerminal, IsCancelled, TerminalStates
<1>7. HooksFollowCancel'
  BY <1>1, <1>6 DEF HooksFollowCancel, IsCancelled, recVars, callVars
<1>8. TreeIsCancelled'
  BY <1>1, <1>3, TreeKept DEF callVars
<1> QED
  BY <1>2, <1>3, <1>4, <1>5, <1>7, <1>8

----------------------------------------------------------------------------
(* finish.                                                                 *)

LEMMA FinishCheckInv ==
    ASSUME TableInv, NEW c \in Callers, NEW r \in Runs, NEW e \in {"Completed", "Failed"},
           FinishCheck(c, r, e)
    PROVE  TableInv' /\ KeepsTheLog
<1> USE DEF TableInv
<1>1. /\ cpc[c] = "idle"
      /\ cpc' = [cpc EXCEPT ![c] = "finishSet"]
      /\ crun' = [crun EXCEPT ![c] = r]
      /\ cevent' = [cevent EXCEPT ![c] = e]
      /\ UNCHANGED <<storeVars, recVars, hookVars, chooks, ctodo, ctree>>
  BY DEF FinishCheck
<1>2. TableTypeOK'
  BY <1>1 DEF TableTypeOK, recVars, hookVars, CallSites
<1>3. LogAgreesWithState' /\ KeepsTheLog /\ StatesKept
  BY <1>1, RecordsKept
<1>4. StoreInv'
  BY <1>1, StoreKept
<1>5. \A d \in Callers, q \in Runs : Ending(d, q)' <=> Ending(d, q)
  BY <1>1 DEF Ending, TableTypeOK
<1>6. StoreFollowsTable'
  BY <1>1, <1>5 DEF StoreFollowsTable, storeVars, recVars, IsTerminal
<1>7. HooksFollowCancel' /\ TreeIsCancelled'
  BY <1>1, <1>3, HooksKept, TreeKept DEF hookVars, recVars, IsCancelled
<1> QED
  BY <1>2, <1>3, <1>4, <1>6, <1>7

\* A call that returns: it is at no run any more.
LEMMA ReturnTypeOK ==
    ASSUME TableTypeOK, NEW c \in Callers, Return(c), UNCHANGED <<recVars, hookVars>>
    PROVE  TableTypeOK'
  BY TableAssumption DEF TableTypeOK, Return, recVars, hookVars, CallSites

LEMMA ReturnTree ==
    ASSUME TableTypeOK, TreeIsCancelled, StatesKept, NEW c \in Callers, Return(c)
    PROVE  TreeIsCancelled'
  BY DEF TableTypeOK, TreeIsCancelled, StatesKept, Return, IsTerminal

LEMMA ReturnFollows ==
    ASSUME TableTypeOK, StoreFollowsTable, UNCHANGED <<storeVars, recVars>>,
           NEW c \in Callers, Return(c), cpc[c] \notin {"finishMark", "cancelOps"}
    PROVE  StoreFollowsTable'
<1>1. \A d \in Callers, q \in Runs : Ending(d, q)' <=> Ending(d, q)
  BY DEF Ending, TableTypeOK, Return
<1> QED
  BY <1>1 DEF StoreFollowsTable, storeVars, recVars, IsTerminal

\* The table's half of the end of a run: the caller is on its way to the store.
LEMMA EndFollows ==
    ASSUME TableTypeOK, StoreFollowsTable, UNCHANGED storeVars,
           NEW c \in Callers, NEW r \in Runs, NEW s \in TerminalStates,
           NEW site \in {"finishMark", "cancelOps"},
           cpc[c] \notin {"finishMark", "cancelOps"}, ActiveResult(r) = "Ok",
           runState' = [runState EXCEPT ![r] = s],
           cpc' = [cpc EXCEPT ![c] = site],
           crun' = [crun EXCEPT ![c] = r]
    PROVE  StoreFollowsTable'
<1>1. ~IsTerminal(r) /\ IsTerminal(r)' /\ Ending(c, r)'
  BY DEF ActiveResult, IsTerminal, TableTypeOK, Ending
<1>2. \A q \in Runs \ {r} : IsTerminal(q)' <=> IsTerminal(q)
  BY DEF IsTerminal, TableTypeOK
<1>3. \A q \in Runs \ {r}, d \in Callers : Ending(d, q)' <=> Ending(d, q)
  BY DEF Ending, TableTypeOK
<1> QED
  BY <1>1, <1>2, <1>3 DEF StoreFollowsTable, storeVars

\* The store's half: the run is terminal there too when the caller is done.
LEMMA MarkFollows ==
    ASSUME TableTypeOK, StoreFollowsTable, NoLiveOpInTerminalRun', NEW c \in Callers,
           cpc[c] \in {"finishMark", "cancelOps"}, CancelRun(crun[c]),
           NEW site \in {"idle", "callHooks"},
           cpc' = [cpc EXCEPT ![c] = site],
           \A d \in Callers \ {c} : crun'[d] = crun[d],
           UNCHANGED recVars
    PROVE  StoreFollowsTable'
<1>1. crun[c] \in Runs /\ IsTerminal(crun[c])
  BY DEF StoreFollowsTable, Ending, TableTypeOK
<1>2. terminalRuns' = terminalRuns \union {crun[c]}
  BY DEF CancelRun
<1>3. \A q \in Runs : ~Ending(c, q)' /\ (Ending(c, q) <=> q = crun[c])
  BY DEF Ending, TableTypeOK
<1>4. \A q \in Runs, d \in Callers \ {c} : Ending(d, q)' <=> Ending(d, q)
  BY DEF Ending, TableTypeOK
<1>5. \A q \in Runs : IsTerminal(q)' <=> IsTerminal(q)
  BY DEF IsTerminal, recVars
<1> QED
  BY <1>1, <1>2, <1>3, <1>4, <1>5 DEF StoreFollowsTable, NoLiveOpInTerminalRun, OpsOf

LEMMA FinishSetInv ==
    ASSUME TableInv, NEW c \in Callers, FinishSet(c) PROVE TableInv' /\ KeepsTheLog
<1> USE DEF TableInv
<1>1. cpc[c] = "finishSet" /\ crun[c] \in Runs /\ cevent[c] \in {"Completed", "Failed"}
  BY DEF FinishSet, TableTypeOK
<1>2. StoreInv'
  BY StoreKept DEF FinishSet
<1>3. CASE ActiveResult(crun[c]) = "Ok"
  <2>1. /\ runState' = [runState EXCEPT ![crun[c]] = cevent[c]]
        /\ events' = Appended(crun[c], cevent[c])
        /\ cpc' = [cpc EXCEPT ![c] = "finishMark"]
        /\ UNCHANGED <<storeVars, hookVars, crun, cevent, chooks, ctodo, ctree>>
    BY <1>3 DEF FinishSet
  <2>2. /\ runState' \in [Runs -> RunStates] /\ events' \in [Runs -> Seq(Event)]
        /\ LogAgreesWithState' /\ KeepsTheLog
    <3>1. /\ cevent[c] \in RunStates \ {"Absent"} /\ cevent[c] \in TerminalStates
          /\ cevent[c] \in EventKinds
      BY <1>1 DEF RunStates, TerminalStates, EventKinds
    <3> QED
      BY <1>1, <1>3, <2>1, <3>1, RecordStep
  <2>3. StatesKept
    BY <2>2, KeepsTheLogKeepsStates
  <2>4. TableTypeOK'
    BY <1>1, <2>1, <2>2 DEF TableTypeOK, hookVars, CallSites
  <2>5. StoreFollowsTable'
    <3>1. crun' = [crun EXCEPT ![c] = crun[c]]
      BY <2>1 DEF TableTypeOK
    <3>2. cevent[c] \in TerminalStates
      BY <1>1 DEF TerminalStates
    <3> QED
      BY <1>1, <1>3, <2>1, <3>1, <3>2, EndFollows
  <2>6. \A q \in Runs : IsCancelled(q)' => IsCancelled(q)
    BY <1>1, <2>1 DEF IsCancelled, TableTypeOK
  <2>7. HooksFollowCancel' /\ TreeIsCancelled'
    BY <2>1, <2>3, <2>6, HooksKept, TreeKept DEF hookVars
  <2> QED
    BY <1>2, <2>2, <2>4, <2>5, <2>7
<1>4. CASE ActiveResult(crun[c]) # "Ok"
  <2>1. Return(c) /\ UNCHANGED <<storeVars, recVars, hookVars>>
    BY <1>4 DEF FinishSet
  <2>2. LogAgreesWithState' /\ KeepsTheLog /\ StatesKept
    BY <2>1, RecordsKept
  <2>3. TableTypeOK' /\ TreeIsCancelled' /\ StoreFollowsTable'
    BY <1>1, <2>1, <2>2, ReturnTypeOK, ReturnTree, ReturnFollows
  <2>4. HooksFollowCancel'
    BY <2>1, <2>2, HooksKept DEF Return, hookVars, recVars, IsCancelled
  <2> QED
    BY <1>2, <2>2, <2>3, <2>4
<1> QED
  BY <1>3, <1>4

LEMMA FinishMarkInv ==
    ASSUME TableInv, NEW c \in Callers, FinishMark(c) PROVE TableInv' /\ KeepsTheLog
<1> USE DEF TableInv
<1>1. /\ cpc[c] = "finishMark" /\ crun[c] \in Runs
      /\ CancelRun(crun[c]) /\ Return(c) /\ UNCHANGED <<recVars, hookVars>>
  BY DEF FinishMark, TableTypeOK
<1>2. StoreInv'
  BY <1>1, CancelRunInv
<1>3. LogAgreesWithState' /\ KeepsTheLog /\ StatesKept
  BY <1>1, RecordsKept
<1>4. TableTypeOK' /\ TreeIsCancelled'
  BY <1>1, <1>3, ReturnTypeOK, ReturnTree
<1>5. StoreFollowsTable'
  <2>1. cpc' = [cpc EXCEPT ![c] = "idle"] /\ \A d \in Callers \ {c} : crun'[d] = crun[d]
    BY <1>1 DEF Return, TableTypeOK
  <2> QED
    BY <1>1, <1>2, <2>1, MarkFollows DEF StoreInv
<1>6. HooksFollowCancel'
  BY <1>1, <1>3, HooksKept DEF Return, hookVars, recVars, IsCancelled
<1> QED
  BY <1>2, <1>3, <1>4, <1>5, <1>6

----------------------------------------------------------------------------
(* cancel and cancel_tree.                                                 *)

\* The table's part of a cancellation, wherever it is called from.
LEMMA CancelSetInv ==
    ASSUME TableInv, NEW c \in Callers, NEW r \in Runs, CancelSet(c, r),
           cpc[c] \in {"idle", "tree"}
    PROVE  /\ StoreInv' /\ LogAgreesWithState' /\ StoreFollowsTable' /\ HooksFollowCancel'
           /\ KeepsTheLog /\ StatesKept /\ IsTerminal(r)'
           /\ ctodo' \in [Callers -> SUBSET Runs] /\ ctree' \in [Callers -> SUBSET Runs] =>
                  TableTypeOK'
<1> USE DEF TableInv
<1>1. /\ ActiveResult(r) = "Ok"
      /\ runState' = [runState EXCEPT ![r] = "Cancelled"]
      /\ events' = Appended(r, "Cancelled")
      /\ hooks' = hooks \ HooksOf(r)
      /\ chooks' = [chooks EXCEPT ![c] = HooksOf(r)]
      /\ crun' = [crun EXCEPT ![c] = r]
      /\ cpc' = [cpc EXCEPT ![c] = "cancelOps"]
      /\ UNCHANGED <<storeVars, called, cevent>>
  BY DEF CancelSet
<1>2. "Cancelled" \in RunStates \ {"Absent"} /\ "Cancelled" \in TerminalStates
      /\ "Cancelled" \in EventKinds
  BY DEF RunStates, TerminalStates, EventKinds
<1>3. /\ runState' \in [Runs -> RunStates] /\ events' \in [Runs -> Seq(Event)]
      /\ LogAgreesWithState' /\ KeepsTheLog /\ StatesKept
  <2>1. /\ runState' \in [Runs -> RunStates] /\ events' \in [Runs -> Seq(Event)]
        /\ LogAgreesWithState' /\ KeepsTheLog
    BY <1>1, <1>2, RecordStep
  <2> QED
    BY <2>1, KeepsTheLogKeepsStates
<1>4. StoreInv'
  BY <1>1, StoreKept
<1>5. StoreFollowsTable'
  BY <1>1, <1>2, EndFollows
<1>6. /\ ~IsCancelled(r) /\ IsCancelled(r)' /\ IsTerminal(r)'
      /\ \A q \in Runs \ {r} : IsCancelled(q)' <=> IsCancelled(q)
  BY <1>1 DEF ActiveResult, IsCancelled, IsTerminal, TerminalStates, TableTypeOK
<1>7. HooksFollowCancel'
  <2>1. ASSUME NEW h \in HooksOf(r)
        PROVE  /\ h \in Hooks /\ HookRun[h] = r /\ h \in hooks
               /\ called[h] = 0 /\ \A d \in Callers : h \notin chooks[d]
    <3>1. h \in Hooks /\ HookRun[h] = r /\ h \in hooks
      BY DEF HooksOf, TableTypeOK
    <3>2. called[h] \in Nat /\ called[h] <= 1 /\ called[h] # 1
      BY <1>6, <3>1 DEF TableTypeOK, HooksFollowCancel
    <3> QED
      BY <1>6, <3>1, <3>2 DEF HooksFollowCancel
  <2>2. ASSUME NEW h \in Hooks, h \notin HooksOf(r), NEW d \in Callers, h \in chooks'[d]
        PROVE  h \in chooks[d]
    BY <1>1, <2>2 DEF TableTypeOK
  <2>3. ASSUME NEW h \in HooksOf(r), NEW d \in Callers, h \in chooks'[d]
        PROVE  d = c
    BY <1>1, <2>1, <2>3 DEF TableTypeOK
  <2>4. ASSUME NEW h \in Hooks
        PROVE  /\ called'[h] <= 1
               /\ called'[h] = 1 \/ (\E d \in Callers : h \in chooks'[d]) => IsCancelled(HookRun[h])'
               /\ IsCancelled(HookRun[h])' => h \notin hooks'
               /\ \A d \in Callers : h \in chooks'[d] =>
                      called'[h] = 0 /\ \A e \in Callers \ {d} : h \notin chooks'[e]
    <3>1. CASE h \in HooksOf(r)
      BY <1>1, <1>6, <2>1, <2>3, <3>1
    <3>2. CASE h \notin HooksOf(r)
      <4>1. HookRun[h] \in Runs
        BY TableAssumption
      <4>2. HookRun[h] = r => h \notin hooks
        BY <3>2 DEF HooksOf
      <4> QED
        BY <1>1, <1>6, <2>2, <3>2, <4>1, <4>2 DEF HooksFollowCancel
    <3> QED
      BY <3>1, <3>2
  <2> QED
    BY <2>4 DEF HooksFollowCancel, IsCancelled
<1>8. ASSUME ctodo' \in [Callers -> SUBSET Runs] /\ ctree' \in [Callers -> SUBSET Runs]
      PROVE  TableTypeOK'
  BY <1>1, <1>3, <1>8 DEF TableTypeOK, HooksOf, CallSites
<1> QED
  BY <1>3, <1>4, <1>5, <1>6, <1>7, <1>8

LEMMA CancelInv ==
    ASSUME TableInv, NEW c \in Callers, NEW r \in Runs, Cancel(c, r)
    PROVE  TableInv' /\ KeepsTheLog
<1>1. cpc[c] = "idle" /\ CancelSet(c, r) /\ UNCHANGED <<ctodo, ctree>>
  BY DEF Cancel
<1>2. TableTypeOK /\ TreeIsCancelled
  BY DEF TableInv
<1>3. ctodo' \in [Callers -> SUBSET Runs] /\ ctree' \in [Callers -> SUBSET Runs]
  BY <1>1, <1>2 DEF TableTypeOK
<1>4. TreeIsCancelled'
  BY <1>1, <1>2, CancelSetInv, TreeKept
<1> QED
  BY <1>1, <1>3, <1>4, CancelSetInv DEF TableInv

LEMMA CancelOpsInv ==
    ASSUME TableInv, NEW c \in Callers, CancelOps(c) PROVE TableInv' /\ KeepsTheLog
<1> USE DEF TableInv
<1>1. /\ cpc[c] = "cancelOps" /\ crun[c] \in Runs /\ CancelRun(crun[c])
      /\ cpc' = [cpc EXCEPT ![c] = "callHooks"]
      /\ UNCHANGED <<recVars, hookVars, crun, cevent, chooks, ctodo, ctree>>
  BY DEF CancelOps, TableTypeOK
<1>2. StoreInv'
  BY <1>1, CancelRunInv
<1>3. LogAgreesWithState' /\ KeepsTheLog /\ StatesKept
  BY <1>1, RecordsKept
<1>4. TableTypeOK'
  BY <1>1 DEF TableTypeOK, recVars, hookVars, CallSites
<1>5. StoreFollowsTable'
  BY <1>1, <1>2, MarkFollows DEF StoreInv
<1>6. HooksFollowCancel' /\ TreeIsCancelled'
  BY <1>1, <1>3, HooksKept, TreeKept DEF hookVars, recVars, IsCancelled
<1> QED
  BY <1>2, <1>3, <1>4, <1>5, <1>6

\* Steps of a caller that is on its way to neither mutex.
LEMMA MoveFollows ==
    ASSUME TableTypeOK, StoreFollowsTable, UNCHANGED <<storeVars, recVars>>,
           NEW c \in Callers, cpc[c] \notin {"finishMark", "cancelOps"},
           NEW site \in {"callHooks", "tree"},
           cpc' = [cpc EXCEPT ![c] = site],
           \A d \in Callers \ {c} : crun'[d] = crun[d]
    PROVE  StoreFollowsTable'
<1>1. \A d \in Callers, q \in Runs : Ending(d, q)' <=> Ending(d, q)
  BY DEF Ending, TableTypeOK
<1> QED
  BY <1>1 DEF StoreFollowsTable, storeVars, recVars, IsTerminal

LEMMA CallHookInv ==
    ASSUME TableInv, NEW c \in Callers, NEW h \in Hooks, CallHook(c, h)
    PROVE  TableInv' /\ KeepsTheLog
<1> USE DEF TableInv
<1>1. /\ cpc[c] = "callHooks" /\ h \in chooks[c]
      /\ called' = [called EXCEPT ![h] = @ + 1]
      /\ chooks' = [chooks EXCEPT ![c] = @ \ {h}]
      /\ UNCHANGED <<storeVars, recVars, hooks, cpc, crun, cevent, ctodo, ctree>>
  BY DEF CallHook
<1>2. StoreInv' /\ LogAgreesWithState' /\ KeepsTheLog /\ StatesKept
  BY <1>1, StoreKept, RecordsKept
<1>3. TableTypeOK'
  BY <1>1 DEF TableTypeOK, recVars
<1>4. StoreFollowsTable'
  BY <1>1, <1>2, FollowsKept DEF StoreInv, storeVars, recVars, IsTerminal
<1>5. HooksFollowCancel'
  <2>1. called'[h] = 1 /\ \A g \in Hooks \ {h} : called'[g] = called[g]
    BY <1>1 DEF TableTypeOK, HooksFollowCancel
  <2>2. \A d \in Callers : h \notin chooks'[d]
    BY <1>1 DEF TableTypeOK, HooksFollowCancel
  <2>3. \A d \in Callers, g \in Hooks \ {h} : g \in chooks'[d] <=> g \in chooks[d]
    BY <1>1 DEF TableTypeOK
  <2>4. \A g \in Hooks : IsCancelled(HookRun[g])' <=> IsCancelled(HookRun[g])
    BY <1>1 DEF IsCancelled, recVars
  <2>5. IsCancelled(HookRun[h])
    BY <1>1 DEF HooksFollowCancel
  <2>6. ASSUME NEW g \in Hooks
        PROVE  /\ called'[g] <= 1
               /\ called'[g] = 1 \/ (\E d \in Callers : g \in chooks'[d]) => IsCancelled(HookRun[g])'
               /\ IsCancelled(HookRun[g])' => g \notin hooks'
               /\ \A d \in Callers : g \in chooks'[d] =>
                      called'[g] = 0 /\ \A e \in Callers \ {d} : g \notin chooks'[e]
    <3>1. CASE g = h
      BY <1>1, <2>1, <2>2, <2>4, <2>5, <3>1 DEF HooksFollowCancel
    <3>2. CASE g # h
      BY <1>1, <2>1, <2>3, <2>4, <3>2 DEF HooksFollowCancel
    <3> QED
      BY <3>1, <3>2
  <2> QED
    BY <2>6 DEF HooksFollowCancel, IsCancelled
<1>6. TreeIsCancelled'
  BY <1>1, <1>2, TreeKept
<1> QED
  BY <1>2, <1>3, <1>4, <1>5, <1>6

LEMMA CallerReturnsInv ==
    ASSUME TableInv, NEW c \in Callers, cpc[c] \in {"callHooks", "tree"}, Return(c),
           UNCHANGED <<storeVars, recVars, hookVars>>
    PROVE  TableInv' /\ KeepsTheLog
<1> USE DEF TableInv
<1>1. StoreInv' /\ LogAgreesWithState' /\ KeepsTheLog /\ StatesKept
  BY StoreKept, RecordsKept
<1>2. TableTypeOK' /\ TreeIsCancelled' /\ StoreFollowsTable'
  BY <1>1, ReturnTypeOK, ReturnTree, ReturnFollows
<1>3. HooksFollowCancel'
  BY <1>1, HooksKept DEF Return, hookVars, recVars, IsCancelled
<1> QED
  BY <1>1, <1>2, <1>3

LEMMA CancelReturnInv ==
    ASSUME TableInv, NEW c \in Callers, CancelReturn(c) PROVE TableInv' /\ KeepsTheLog
<1>1. cpc[c] = "callHooks" /\ UNCHANGED <<storeVars, recVars, hookVars>>
  BY DEF CancelReturn
<1>2. CASE ctree[c] = {}
  BY <1>1, <1>2, CallerReturnsInv DEF CancelReturn
<1>3. CASE ctree[c] # {}
  <2> USE DEF TableInv
  <2>1. /\ cpc' = [cpc EXCEPT ![c] = "tree"]
        /\ UNCHANGED <<crun, cevent, chooks, ctodo, ctree>>
    BY <1>3 DEF CancelReturn
  <2>2. StoreInv' /\ LogAgreesWithState' /\ KeepsTheLog /\ StatesKept
    BY <1>1, StoreKept, RecordsKept
  <2>3. TableTypeOK'
    BY <1>1, <2>1 DEF TableTypeOK, recVars, hookVars, CallSites
  <2>4. StoreFollowsTable'
    BY <1>1, <2>1, MoveFollows
  <2>5. HooksFollowCancel' /\ TreeIsCancelled'
    BY <1>1, <2>1, <2>2, HooksKept, TreeKept DEF hookVars, recVars, IsCancelled
  <2> QED
    BY <2>2, <2>3, <2>4, <2>5
<1> QED
  BY <1>2, <1>3

LEMMA TreeStartInv ==
    ASSUME TableInv, NEW c \in Callers, NEW r \in Runs, TreeStart(c, r)
    PROVE  TableInv' /\ KeepsTheLog
<1> USE DEF TableInv
<1>1. /\ cpc[c] = "idle"
      /\ ctodo' = [ctodo EXCEPT ![c] = Tree(r)]
      /\ ctree' = [ctree EXCEPT ![c] = Tree(r)]
      /\ crun' = [crun EXCEPT ![c] = r]
      /\ cpc' = [cpc EXCEPT ![c] = "tree"]
      /\ UNCHANGED <<storeVars, recVars, hookVars, cevent, chooks>>
  BY DEF TreeStart
<1>2. Tree(r) \in SUBSET Runs
  BY DEF Tree
<1> HIDE DEF TableInv
<1>3. StoreInv' /\ LogAgreesWithState' /\ KeepsTheLog /\ StatesKept
  BY <1>1, StoreKept, RecordsKept DEF TableInv
<1>4. TableTypeOK'
  BY <1>1, <1>2 DEF TableInv, TableTypeOK, recVars, hookVars, CallSites
<1>5. StoreFollowsTable'
  <2>1. \A d \in Callers \ {c} : crun'[d] = crun[d]
    BY <1>1 DEF TableInv, TableTypeOK
  <2> QED
    BY <1>1, <2>1, MoveFollows DEF TableInv
<1>6. HooksFollowCancel'
  BY <1>1, <1>3, HooksKept DEF TableInv, hookVars, recVars, IsCancelled
<1>7. TreeIsCancelled'
  BY <1>1, <1>3 DEF TableInv, TableTypeOK, TreeIsCancelled, StatesKept, IsTerminal
<1> QED
  BY <1>3, <1>4, <1>5, <1>6, <1>7 DEF TableInv

LEMMA TreeNextInv ==
    ASSUME TableInv, NEW c \in Callers, NEW r \in Runs, TreeNext(c, r)
    PROVE  TableInv' /\ KeepsTheLog
<1>1. /\ cpc[c] = "tree" /\ r \in ctodo[c]
      /\ ctodo' = [ctodo EXCEPT ![c] = @ \ {r}]
      /\ UNCHANGED ctree
  BY DEF TreeNext
<1>2. TableTypeOK /\ TreeIsCancelled
  BY DEF TableInv
<1>3. ctodo' \in [Callers -> SUBSET Runs] /\ ctree' \in [Callers -> SUBSET Runs]
  BY <1>1, <1>2 DEF TableTypeOK
<1>4. ASSUME StatesKept, IsTerminal(r)' PROVE TreeIsCancelled'
  BY <1>1, <1>2, <1>4 DEF TableTypeOK, TreeIsCancelled, StatesKept, IsTerminal
<1>5. CASE CancelSet(c, r)
  BY <1>1, <1>3, <1>4, <1>5, CancelSetInv DEF TableInv
<1>6. CASE /\ ActiveResult(r) = "RunTerminal"
           /\ UNCHANGED <<storeVars, recVars, hookVars, cpc, crun, cevent, chooks>>
  <2>1. StoreInv' /\ LogAgreesWithState' /\ KeepsTheLog /\ StatesKept
    BY <1>6, StoreKept, RecordsKept DEF TableInv
  <2>2. TableTypeOK'
    BY <1>1, <1>2, <1>3, <1>6 DEF TableTypeOK, recVars, hookVars
  <2>3. StoreFollowsTable'
    BY <1>2, <1>6, <2>1, FollowsKept DEF TableInv, StoreInv, storeVars, recVars, IsTerminal
  <2>4. HooksFollowCancel'
    BY <1>2, <1>6, <2>1, HooksKept DEF TableInv, hookVars, recVars, IsCancelled
  <2>5. IsTerminal(r)'
    BY <1>6 DEF ActiveResult, IsTerminal, recVars
  <2> QED
    BY <1>4, <2>1, <2>2, <2>3, <2>4, <2>5 DEF TableInv
<1> QED
  BY <1>5, <1>6 DEF TreeNext

LEMMA TreeReturnInv ==
    ASSUME TableInv, NEW c \in Callers, TreeReturn(c) PROVE TableInv' /\ KeepsTheLog
  BY CallerReturnsInv DEF TreeReturn

----------------------------------------------------------------------------
(* The theorems.                                                           *)

LEMMA TableNextInv == ASSUME TableInv, TableNext PROVE TableInv' /\ KeepsTheLog
<1>1. ASSUME NEW r \in Runs, RecordCall(r) PROVE TableInv' /\ KeepsTheLog
  BY <1>1, RegisterRunInv, ActiveRecordInv, TableAssumption DEF RecordCall
<1>2. ASSUME NEW c \in Callers, CallerStep(c) PROVE TableInv' /\ KeepsTheLog
  BY <1>2, FinishSetInv, FinishMarkInv, CancelOpsInv, CallHookInv, CancelReturnInv,
     TreeNextInv, TreeReturnInv DEF CallerStep
<1>3. ASSUME NEW c \in Callers, CallerCall(c) PROVE TableInv' /\ KeepsTheLog
  BY <1>3, FinishCheckInv, CancelInv, TreeStartInv DEF CallerCall
<1> QED
  BY <1>1, <1>2, <1>3, RegisterHookInv, StoreCallTableInv DEF TableNext

\* The inductive invariant of the table and its store.
THEOREM TableSafety == TableSpec => []TableInv
<1>1. Init => TableInv
  BY TableInitInv
<1>2. TableInv /\ [TableNext]_vars => TableInv'
  BY TableNextInv, TableStutterInv
<1> QED
  BY <1>1, <1>2, PTL DEF TableSpec

\* Every variable keeps to its type, however calls interleave.
THEOREM TableTypes == TableSpec => []TypeOK
<1>1. TableInv => TypeOK
  BY DEF TableInv, StoreInv, TypeOK
<1> QED
  BY <1>1, TableSafety, PTL

\* The log of a run has one terminal event, which is its last and its state,
\* exactly when the run is over.
THEOREM OneTerminalEvent == TableSpec => []LogAgreesWithState
<1>1. TableInv => LogAgreesWithState
  BY DEF TableInv
<1> QED
  BY <1>1, TableSafety, PTL

\* finish and cancel carry the end of a run from the table to the store.
THEOREM EndReachesStore == TableSpec => []StoreFollowsTable
<1>1. TableInv => StoreFollowsTable
  BY DEF TableInv
<1> QED
  BY <1>1, TableSafety, PTL

\* Hooks are called at most once and for cancelled runs only, and a run that
\* is cancelled has none left that nobody took.
THEOREM CancellationIsThorough == TableSpec => []HooksFollowCancel
<1>1. TableInv => HooksFollowCancel
  BY DEF TableInv
<1> QED
  BY <1>1, TableSafety, PTL

\* cancel_tree passes no run of the tree it saw by, whatever other calls end
\* or start runs between its steps.
THEOREM TreesAreCancelled == TableSpec => []TreeIsCancelled
<1>1. TableInv => TreeIsCancelled
  BY DEF TableInv
<1> QED
  BY <1>1, TableSafety, PTL

\* A run that is over stays as it is and no log is ever rewritten.
THEOREM EndIsFinal == TableSpec => TerminalIsFinal
<1>1. TableInv /\ [TableNext]_vars => [KeepsTheLog]_vars
  BY TableNextInv
<1> QED
  BY <1>1, TableSafety, PTL DEF TableSpec, TerminalIsFinal

-----------------------------------------------------------------------------
(* The coordinator.                                                        *)

TaskOps == OpsOf(Run) \ HostOps

\* Counted, and on its way to an execution that has not started.
PaidSites == {"register", "awaiting", "request", "wait", "waiting", "start", "exec"}

\* A call at one of these may have an operation that is not settled.
OpSites == {"awaiting", "request", "wait", "waiting", "start", "exec", "running",
            "settleOk", "settleErr"}

\* An execution that has started and whose result is not on record.
UnrecordedSites == {"running", "settleOk", "settleErr", "record"}

At(sites) == {k \in Slots : spc[k] \in sites}

----------------------------------------------------------------------------
(* The parts of the inductive invariant.                                   *)

\* A run keeps the limits it was started with.
SameLimits == UNCHANGED <<limits, MaxRounds, MaxInvocations>>

\* Where the loop, its slots and its callers can be: in a turn without
\* parallel calls a call is made when those before it are over and well.
ControlInv ==
    /\ limits \in Limits
    /\ lpc \in LoopSites
    /\ rounds \in 0..MaxRounds /\ invocations \in 0..MaxInvocations
    /\ conts \in [Reasons -> Nat]
    /\ \A reason \in Reasons : conts[reason] \in 0..DefaultLimit[reason]
    /\ spc \in [Slots -> SlotSites]
    /\ sop \in [Slots -> TaskOps \union {NoOp}]
    /\ ledger \subseteq Ids
    /\ execs \in [Ids -> Nat]
    /\ calls \in Seq([id : Ids, tool : Tools]) /\ Len(calls) <= MaxCalls
    /\ \A k \in 1..Len(calls) : PolicyOf[calls[k].tool] # "Unregistered"
    /\ \A k \in Slots : spc[k] # "off" => k <= Len(calls)
    /\ lpc # "tools" => /\ calls = <<>>
                        /\ \A k \in Slots : spc[k] = "off" /\ sop[k] = NoOp
    /\ ~Parallel(calls) => \A j, k \in Slots : j < k /\ spc[k] # "off" => spc[j] = "ok"

\* Who is inside the table: the task to finish the run, the host to cancel it.
CallersInv ==
    /\ \A c \in Callers \ {Task, Host} : cpc[c] = "idle"
    /\ IF lpc = "finishing" THEN cpc[Task] \in {"finishSet", "finishMark"} ELSE cpc[Task] = "idle"
    /\ cpc[Host] \in {"idle", "cancelOps", "callHooks"}
    /\ \A c \in Callers : (cpc[c] # "idle" => crun[c] = Run) /\ ctree[c] = {}
    /\ runState[Run] # "Absent"
    /\ runState[Run] \in {"Completed", "Failed"} => lpc \in {"finishing", "done"}

\* An approval is on record for a blocking operation, a commit for a deferred
\* one, even when a cancellation has overtaken it.
AnswersFitMode ==
    \A o \in Ops : /\ answers[o] = <<"Approve">> => ModeOf[o] = "BlockingApproval"
                   /\ answers[o] = <<"Commit">> => ModeOf[o] = "DeferredCommit"

\* What ExecutesWithApproval asks of a call.
Covered(k) ==
    \/ Policy(k) = "Allow"
    \/ /\ Policy(k) = "RequireApproval"
       /\ sop[k] # NoOp
       /\ answers[sop[k]] = IF AskMode[Tool(k)] = "BlockingApproval" THEN <<"Approve">>
                                                                     ELSE <<"Commit">>

\* A wait that is over was for an operation that had been registered, and one
\* that brought no answer found it settled.
WaitInv ==
    \A o \in TaskOps :
        /\ wpc[o] # "idle" => opState[o] \in States
        /\ wpc[o] = "done" /\ wout[o] \notin Decisions => opState[o] \in SettledStates

\* What slot k knows of its operation.
SlotOK(k) ==
    /\ spc[k] = "register" => Policy(k) = "RequireApproval"
    /\ sop[k] # NoOp => /\ Policy(k) = "RequireApproval"
                        /\ ModeOf[sop[k]] = AskMode[Tool(k)]
    /\ spc[k] \in {"awaiting", "request", "wait", "waiting"} =>
           sop[k] # NoOp /\ opState[sop[k]] \in States
    /\ spc[k] \in {"start"} \union (ExecutingSites \ {"finish"}) => Covered(k)

SlotInv == \A k \in Slots : SlotOK(k)

\* The sites from which the run may still complete.
Following ==
    \/ lpc \in {"top", "turn", "completed"}
    \/ runState[Run] = "Completed"
    \/ lpc = "finishing" /\ cevent[Task] = "Completed"

\* An execution is announced before it starts; a call is paid for until it
\* executes, unless the count is saturated; and unless a call has failed,
\* what is announced and not followed up is being executed.
CountInv ==
    /\ IsFiniteSet(ExecutionsSoFar)
    /\ Executions <= Emitted("ToolStarted")
    /\ (\E k \in Slots : spc[k] = "exec") => Executions < Emitted("ToolStarted")
    /\ invocations # U32Max => Executions + Cardinality(At(PaidSites)) <= invocations
    /\ Following => Emitted("ToolStarted") = Emitted("ToolFinished")
    /\ lpc = "tools" /\ (\A k \in Slots : spc[k] # "err") =>
           Emitted("ToolStarted") = Emitted("ToolFinished") + Cardinality(At(ExecutingSites))

\* An execution without a result on record belongs to a call of this turn
\* that is executing or has failed, or the run cannot complete.
LedgerInv ==
    \A id \in Ids : execs[id] > 0 /\ id \notin ledger =>
        /\ ~Following
        /\ lpc = "tools" =>
               \E k \in Slots : spc[k] \in UnrecordedSites \union {"err"} /\ calls[k].id = id

\* No turn whose calls run side by side names an invocation twice.
NoTwins ==
    \A t \in Turns : Parallel(t.calls) =>
        \A j, k \in 1..Len(t.calls) : t.calls[j].id = t.calls[k].id => j = k

\* A call on its way to its execution is the first for its invocation.
OnceInv ==
    /\ Parallel(calls) => \A j, k \in 1..Len(calls) : calls[j].id = calls[k].id => j = k
    /\ \A id \in Ids : execs[id] <= 1
    /\ \A k \in Slots : spc[k] \in PaidSites => execs[calls[k].id] = 0

\* The run awaits an operation only if some call does or has failed to, and
\* in a turn without parallel calls whenever the call does.
AwaitInv ==
    ~IsTerminal(Run) =>
        /\ runState[Run] = "AwaitingOperation" =>
               /\ lpc \notin {"top", "turn", "completed"}
               /\ lpc = "tools" => \E k \in Slots : spc[k] \in {"request", "wait", "waiting", "err"}
        /\ ~Parallel(calls) =>
               \A k \in Slots : spc[k] \in {"request", "wait", "waiting"} =>
                                    runState[Run] = "AwaitingOperation"

\* An operation of the task that is not settled is the business of a call,
\* unless the run is over; it is none by the time the task ends the run.
OpenInv ==
    /\ ~IsTerminal(Run) =>
           \A o \in TaskOps : opState[o] \in LiveStates =>
                                  \E k \in Slots : sop[k] = o /\ spc[k] \in OpSites
    /\ lpc = "finishing" \/ runState[Run] \in {"Completed", "Failed"} =>
           \A o \in TaskOps : opState[o] \notin LiveStates
    /\ lpc = "done" => IsTerminal(Run) \/ \E o \in HostOps : opState[o] # "Absent"

\* All of it but OnceInv, which the provider has its share in.
CoordInv ==
    /\ TableInv
    /\ ControlInv
    /\ CallersInv
    /\ AnswersFitMode
    /\ WaitInv
    /\ SlotInv
    /\ CountInv
    /\ LedgerInv
    /\ AwaitInv
    /\ OpenInv

----------------------------------------------------------------------------
(* What a step does to the table and its store.                            *)

\* The calls of the store that the task and its hosts make.
StoreMove ==
    \/ \E o \in Ops : Register(o) \/ DeadlinePasses(o) \/ NotifyWaiters(o) \/ WaitRead(o)
    \/ \E o \in Ops : opState[o] \in States /\ WaitCall(o)
    \/ \E r \in Runs, o \in Ops : AnswerStep(r, o) \/ EffectStep(r, o)
    \/ Expire

RecordMove ==
    /\ \/ \E s \in ActiveStates : SetState(Run, s)
       \/ \E kind \in ProgressKinds : Emit(Run, kind)
    /\ UNCHANGED storeVars

TableMove ==
    \/ UNCHANGED vars
    \/ StoreMove /\ UNCHANGED tableVars
    \/ RecordMove
    \/ \E e \in {"Completed", "Failed"} : FinishCheck(Task, Run, e)
    \/ FinishSet(Task) \/ FinishMark(Task)
    \/ Cancel(Host, Run)
    \/ CallerStep(Host)

\* Operations are never forgotten, answers and settlements never taken back,
\* and a wait that is over stays so.
StoreKeeps ==
    \A o \in Ops :
        /\ answers[o] # <<>> => answers'[o] = answers[o]
        /\ opState[o] \in States => opState'[o] \in States
        /\ opState[o] \in SettledStates => opState'[o] \in SettledStates
        /\ opState[o] # "Absent" => opState'[o] # "Absent"

LEMMA CoordFacts ==
    /\ Run \in Runs /\ Task \in Callers /\ Host \in Callers /\ Task # Host
    /\ TaskOps \subseteq Ops /\ NoOp \notin Ops /\ Waiters = Ops
    /\ \A o \in TaskOps : RunOf[o] = Run
    /\ \A o \in Ops : CallOf[o] = [run |-> RunOf[o], op |-> o, mode |-> ModeOf[o]]
                      /\ RunOf[o] \in Runs /\ ModeOf[o] \in Modes
  BY CoordinatorAssumption, BindAssumption DEF TaskOps, OpsOf

LEMMA MoveTableInv == ASSUME TableInv, TableMove PROVE TableInv' /\ KeepsTheLog
<1>1. CASE UNCHANGED vars
  BY <1>1, TableStutterInv, RecordsKept DEF TableInv, vars, tableVars, recVars
<1>2. CASE StoreMove /\ UNCHANGED tableVars
  <2>1. StoreCall
    BY <1>2, CoordFacts DEF StoreMove, StoreCall, WaiterStep
  <2> QED
    BY <1>2, <2>1, StoreCallTableInv
<1>3. CASE RecordMove
  BY <1>3, ActiveRecordInv, CoordFacts DEF RecordMove, EventKinds
<1>4. CASE \E e \in {"Completed", "Failed"} : FinishCheck(Task, Run, e)
  BY <1>4, FinishCheckInv, CoordFacts
<1>5. CASE FinishSet(Task) \/ FinishMark(Task)
  BY <1>5, FinishSetInv, FinishMarkInv, CoordFacts
<1>6. CASE Cancel(Host, Run)
  BY <1>6, CancelInv, CoordFacts
<1>7. CASE CallerStep(Host)
  BY <1>7, CoordFacts, FinishSetInv, FinishMarkInv, CancelOpsInv, CallHookInv, CancelReturnInv,
     TreeNextInv, TreeReturnInv DEF CallerStep
<1> QED
  BY <1>1, <1>2, <1>3, <1>4, <1>5, <1>6, <1>7 DEF TableMove

\* Apart from the store's own calls, only cancel_run changes an operation.
LEMMA MoveStore ==
    ASSUME TableInv, TableMove
    PROVE  UNCHANGED storeVars \/ StoreMove \/ \E r \in Runs : CancelRun(r)
<1>1. CASE FinishSet(Task) \/ FinishMark(Task)
  BY <1>1, CoordFacts DEF FinishSet, FinishMark, TableInv, TableTypeOK
<1>2. CASE CallerStep(Host)
  BY <1>2, CoordFacts DEF CallerStep, FinishSet, FinishMark, CancelOps, CallHook, CancelReturn,
     TreeNext, TreeReturn, CancelSet, TableInv, TableTypeOK
<1> QED
  BY <1>1, <1>2 DEF TableMove, vars, RecordMove, FinishCheck, Cancel, CancelSet

LEMMA MoveStoreKeeps == ASSUME TableInv, TableMove PROVE StoreKeeps
<1> USE DEF TableInv, StoreInv
<1>1. CASE UNCHANGED storeVars
  BY <1>1 DEF storeVars, StoreKeeps
<1>2. CASE \E r \in Runs : CancelRun(r)
  BY <1>2 DEF CancelRun, Cancellable, OpsOf, StoreKeeps, States, SettledStates
<1>3. CASE Expire
  BY <1>3 DEF Expire, Expirable, StoreKeeps, States, SettledStates
<1>4. ASSUME NEW o \in Ops, Register(o) PROVE StoreKeeps
  BY <1>4 DEF Register, RegisterResult, StoreTypeOK, StoreKeeps, States, LiveStates, SettledStates
<1>5. ASSUME NEW o \in Ops, DeadlinePasses(o) \/ NotifyWaiters(o) \/ WaitRead(o) \/ WaitCall(o)
      PROVE  StoreKeeps
  BY <1>5 DEF DeadlinePasses, NotifyWaiters, WaitRead, WaitCall, recordVars, StoreKeeps
<1>6. ASSUME NEW r \in Runs, NEW o \in Ops, AnswerStep(r, o) PROVE StoreKeeps
  <2>1. opState[o] = "Pending" /\ answers[o] = <<>>
    BY <1>6 DEF AnswerStep, Resolve, ResolveResult, BeginCommit, BeginCommitResult, AnswerOnRecord
  <2>2. /\ opState'[o] \in States
        /\ \A p \in Ops \ {o} : opState'[p] = opState[p] /\ answers'[p] = answers[p]
    BY <1>6 DEF AnswerStep, Resolve, BeginCommit, StoreTypeOK, States, LiveStates, SettledStates
  <2> QED
    BY <2>1, <2>2 DEF StoreKeeps, States, LiveStates, SettledStates
<1>7. ASSUME NEW r \in Runs, NEW o \in Ops, EffectStep(r, o) PROVE StoreKeeps
  <2>1. /\ opState'[o] \in SettledStates /\ answers' = answers
        /\ \A p \in Ops \ {o} : opState'[p] = opState[p]
    BY <1>7 DEF EffectStep, FinishBlockingApproval, FinishCommit, StoreTypeOK, SettledStates
  <2> QED
    BY <2>1 DEF StoreKeeps, States, SettledStates
<1> QED
  BY <1>1, <1>2, <1>3, <1>4, <1>5, <1>6, <1>7, MoveStore DEF StoreMove

\* A wait that reads no answer and does not go on reads a settled operation.
LEMMA WaitSettles ==
    ASSUME StoreTypeOK, AnswerOnRecord, NEW o \in Ops, opState[o] \in States,
           WaitResult(CallOf[o]) \notin Decisions \union {"Pending"}
    PROVE  opState[o] \in SettledStates
<1>1. /\ CallOf[o] = [run |-> RunOf[o], op |-> o, mode |-> ModeOf[o]]
      /\ ModeOf[o] \in Modes
  BY CoordFacts
<1>2. CallOf[o].run = RunOf[o] /\ CallOf[o].op = o /\ CallOf[o].mode = ModeOf[o]
  BY <1>1
<1>3. LookupResult(CallOf[o].run, CallOf[o].op) = "Ok"
  BY <1>2 DEF LookupResult, Registered
<1>4. WaitResult(CallOf[o]) =
        CASE opState[o] \in {"Pending", "Cancelled", "Expired"} -> opState[o]
          [] opState[o] = "Failed" -> "CommitFailed"
          [] opState[o] = "Rejected" -> DecisionOnRecord(o)
          [] opState[o] = "Approved" /\ ModeOf[o] = "BlockingApproval" -> DecisionOnRecord(o)
          [] opState[o] = "Committing" /\ ModeOf[o] = "DeferredCommit" -> "Approve"
          [] OTHER -> "InvalidState"
  BY <1>2, <1>3 DEF WaitResult
<1>5. /\ opState[o] = "Approved" => decision[o] = "Approve" /\ ModeOf[o] # "DeferredCommit"
      /\ opState[o] = "Committing" => ModeOf[o] = "DeferredCommit"
  <2>1. <<"Approve">> # <<"Commit">>
    OBVIOUS
  <2> QED
    BY <2>1 DEF AnswerOnRecord
<1>6. CASE opState[o] = "Approved"
  <2>1. WaitResult(CallOf[o]) = "Approve"
    BY <1>1, <1>4, <1>5, <1>6 DEF DecisionOnRecord, Modes
  <2> QED
    BY <2>1 DEF Decisions
<1>7. CASE opState[o] = "Committing"
  <2>1. WaitResult(CallOf[o]) = "Approve"
    BY <1>4, <1>5, <1>7
  <2> QED
    BY <2>1 DEF Decisions
<1>8. opState[o] # "Pending"
  BY <1>4
<1> QED
  BY <1>6, <1>7, <1>8 DEF States, LiveStates

LEMMA MoveFitsMode ==
    ASSUME TableInv, AnswersFitMode, TableMove PROVE AnswersFitMode'
<1> USE DEF TableInv, StoreInv
<1>1. ASSUME NEW r \in Runs, NEW o \in Ops, AnswerStep(r, o) PROVE AnswersFitMode'
  <2>1. opState[o] = "Pending" /\ answers[o] = <<>>
    BY <1>1 DEF AnswerStep, Resolve, ResolveResult, BeginCommit, BeginCommitResult, AnswerOnRecord
  <2>2. \A p \in Ops \ {o} : answers'[p] = answers[p]
    BY <1>1 DEF AnswerStep, Resolve, BeginCommit, StoreTypeOK
  <2>3. \/ answers'[o] = <<"Approve">> /\ ModeOf[o] # "DeferredCommit"
        \/ answers'[o] = <<"Reject">>
        \/ answers'[o] = <<"Commit">> /\ ModeOf[o] = "DeferredCommit"
    BY <1>1, <2>1 DEF AnswerStep, Resolve, ResolveResult, LookupResult, BeginCommit, BeginCommitResult, Decisions, StoreTypeOK
  <2>4. <<"Approve">> # <<"Commit">> /\ <<"Approve">> # <<"Reject">> /\ <<"Commit">> # <<"Reject">>
    OBVIOUS
  <2> QED
    BY <2>2, <2>3, <2>4, CoordFacts DEF AnswersFitMode, Modes
<1>2. ASSUME UNCHANGED answers PROVE AnswersFitMode'
  BY <1>2 DEF AnswersFitMode
<1>3. CASE StoreMove
  BY <1>1, <1>2, <1>3 DEF StoreMove, Register, DeadlinePasses, NotifyWaiters, WaitRead, WaitCall,
     EffectStep, FinishBlockingApproval, FinishCommit, Expire
<1> QED
  BY <1>2, <1>3, MoveStore DEF storeVars, CancelRun

LEMMA MoveWaits ==
    ASSUME TableInv, WaitInv, TableMove PROVE WaitInv'
<1> USE DEF TableInv, StoreInv
<1>1. StoreKeeps /\ TaskOps \subseteq Ops
  BY MoveStoreKeeps, CoordFacts
<1>2. ASSUME \A o \in TaskOps :
                 \/ wpc'[o] = wpc[o]
                 \/ wpc[o] # "idle" /\ wpc'[o] # "done"
                 \/ opState[o] \in States /\ wpc'[o] # "done",
             wout' = wout
      PROVE  WaitInv'
  BY <1>1, <1>2 DEF WaitInv, StoreKeeps
<1>3. ASSUME NEW o \in Ops, WaitRead(o) PROVE WaitInv'
  <2>1. /\ wpc[o] = "read" /\ opState' = opState
        /\ \A p \in Ops \ {o} : wpc'[p] = wpc[p] /\ wout'[p] = wout[p]
        /\ \/ wpc'[o] = "await"
           \/ WaitResult(CallOf[o]) # "Pending" /\ wout'[o] = WaitResult(CallOf[o])
    BY <1>3, CoordFacts DEF WaitRead, recordVars, StoreTypeOK
  <2>2. o \in TaskOps => opState[o] \in States
    BY <2>1 DEF WaitInv
  <2>3. o \in TaskOps /\ wpc'[o] = "done" /\ wout'[o] \notin Decisions => opState[o] \in SettledStates
    BY <2>1, <2>2, WaitSettles
  <2> QED
    BY <1>1, <2>1, <2>2, <2>3 DEF WaitInv
<1>4. ASSUME NEW o \in Ops, opState[o] \in States, WaitCall(o) PROVE WaitInv'
  BY <1>1, <1>2, <1>4, CoordFacts DEF WaitCall, StoreTypeOK
<1>5. ASSUME NEW o \in Ops, NotifyWaiters(o) PROVE WaitInv'
  BY <1>1, <1>2, <1>5, CoordFacts DEF NotifyWaiters
<1>6. ASSUME UNCHANGED waitVars PROVE WaitInv'
  BY <1>2, <1>6 DEF waitVars
<1>7. CASE StoreMove
  BY <1>3, <1>4, <1>5, <1>6, <1>7 DEF StoreMove, Register, DeadlinePasses, Resolve, BeginCommit, AnswerStep,
     EffectStep, FinishBlockingApproval, FinishCommit, Expire
<1> QED
  BY <1>6, <1>7, MoveStore DEF storeVars, waitVars, CancelRun

----------------------------------------------------------------------------
(* Counting: the events of a kind, the slots at some sites, the executions. *)

LEMMA EmittedType ==
    ASSUME TableTypeOK, NEW kind
    PROVE  /\ IsFiniteSet({i \in 1..Len(events[Run]) : events[Run][i].kind = kind})
           /\ Emitted(kind) \in Nat
<1>1. Len(events[Run]) \in Nat
  BY CoordFacts DEF TableTypeOK
<1>2. IsFiniteSet(1..Len(events[Run]))
  BY <1>1, FS_Interval
<1>3. IsFiniteSet({i \in 1..Len(events[Run]) : events[Run][i].kind = kind})
  BY <1>2, FS_Subset
<1> QED
  BY <1>3, FS_CardinalityType DEF Emitted

LEMMA EmittedOneMore ==
    ASSUME TableTypeOK, LogAgreesWithState, ActiveResult(Run) = "Ok",
           NEW e \in EventKinds, events' = Appended(Run, e), NEW kind
    PROVE  Emitted(kind)' = IF e = kind THEN Emitted(kind) + 1 ELSE Emitted(kind)
<1> DEFINE log == events[Run]
           n == Len(log)
           new == Append(log, [seq |-> n + 1, kind |-> e])
           old == {i \in 1..n : log[i].kind = kind}
           now == {i \in 1..n + 1 : new[i].kind = kind}
<1>1. Run \in Runs
  BY CoordFacts
<1>2. log \in Seq(Event) /\ n \in Nat /\ events' = [events EXCEPT ![Run] = new]
  BY <1>1, AppendActive
<1>3. events'[Run] = new
  BY <1>1, <1>2 DEF TableTypeOK
<1>4. /\ Len(new) = n + 1 /\ new[n + 1].kind = e
      /\ \A i \in 1..n : new[i] = log[i]
  BY <1>2, AppendToLog
<1>5. Emitted(kind)' = Cardinality(now) /\ Emitted(kind) = Cardinality(old)
  BY <1>3, <1>4 DEF Emitted
<1>6. IsFiniteSet(old) /\ n + 1 \notin old
  <2>1. IsFiniteSet(old)
    BY EmittedType
  <2>2. n + 1 \notin 1..n
    BY <1>2
  <2> QED
    BY <2>1, <2>2
<1> HIDE DEF log, n, new
<1>7. CASE e = kind
  <2>1. now = old \union {n + 1}
    BY <1>2, <1>4, <1>7
  <2> QED
    BY <1>5, <1>6, <1>7, <2>1, FS_AddElement
<1>8. CASE e # kind
  <2>1. now = old
    BY <1>2, <1>4, <1>8
  <2> QED
    BY <1>5, <1>8, <2>1
<1> QED
  BY <1>7, <1>8

LEMMA SlotsFinite ==
    ASSUME NEW sites
    PROVE  IsFiniteSet(At(sites)) /\ Cardinality(At(sites)) \in Nat
<1>1. IsFiniteSet(Slots)
  BY CoordinatorAssumption, FS_Interval DEF Slots
<1>2. IsFiniteSet(At(sites))
  BY <1>1, FS_Subset DEF At
<1> QED
  BY <1>2, FS_CardinalityType

\* A slot that moves leaves some sites and enters others.
LEMMA SlotsMove ==
    ASSUME NEW k \in Slots, NEW to, DOMAIN spc = Slots, spc' = [spc EXCEPT ![k] = to], NEW sites
    PROVE  /\ Cardinality(At(sites)) \in Nat /\ Cardinality(At(sites))' \in Nat
           /\ spc[k] \in sites /\ to \in sites =>
                  Cardinality(At(sites))' = Cardinality(At(sites))
           /\ spc[k] \notin sites /\ to \notin sites =>
                  Cardinality(At(sites))' = Cardinality(At(sites))
           /\ spc[k] \in sites /\ to \notin sites =>
                  Cardinality(At(sites)) = Cardinality(At(sites))' + 1
           /\ spc[k] \notin sites /\ to \in sites =>
                  Cardinality(At(sites))' = Cardinality(At(sites)) + 1
<1> DEFINE before == At(sites)
           after == {j \in Slots : spc'[j] \in sites}
<1>1. IsFiniteSet(before) /\ Cardinality(before) \in Nat
  BY SlotsFinite
<1>2. At(sites)' = after
  BY DEF At
<1>3. spc'[k] = to /\ \A j \in Slots \ {k} : spc'[j] = spc[j]
  OBVIOUS
<1>4. IF to \in sites THEN after = before \union {k} ELSE after = before \ {k}
  BY <1>3 DEF At
<1>5. k \in before <=> spc[k] \in sites
  BY DEF At
<1>6. /\ Cardinality(before \union {k}) =
             IF k \in before THEN Cardinality(before) ELSE Cardinality(before) + 1
      /\ Cardinality(before \ {k}) =
             IF k \in before THEN Cardinality(before) - 1 ELSE Cardinality(before)
      /\ IsFiniteSet(before \ {k}) /\ IsFiniteSet(before \union {k})
  BY <1>1, FS_AddElement, FS_RemoveElement
<1>7. Cardinality(after) \in Nat
  BY <1>4, <1>6, FS_CardinalityType
<1>8. Cardinality(At(sites))' = Cardinality(after)
  BY <1>2
<1> HIDE DEF before, after
<1>9. CASE to \in sites
  BY <1>1, <1>4, <1>5, <1>6, <1>7, <1>8, <1>9 DEF before
<1>10. CASE to \notin sites
  BY <1>1, <1>4, <1>5, <1>6, <1>7, <1>8, <1>10 DEF before
<1> QED
  BY <1>9, <1>10

\* One more execution.
LEMMA ExecutionsOneMore ==
    ASSUME execs \in [Ids -> Nat], NEW id \in Ids, execs' = [execs EXCEPT ![id] = @ + 1],
           IsFiniteSet(ExecutionsSoFar)
    PROVE  /\ IsFiniteSet(ExecutionsSoFar)'
           /\ Executions \in Nat /\ Executions' = Executions + 1
<1> DEFINE n == execs[id] + 1
<1>1. n \in Nat /\ execs'[id] = n /\ \A i \in Ids \ {id} : execs'[i] = execs[i]
  OBVIOUS
<1>2. ASSUME NEW x \in ExecutionsSoFar' PROVE x \in ExecutionsSoFar \union {<<id, n>>}
  <2>1. PICK i \in Ids : \E m \in 1..execs'[i] : x = <<i, m>>
    BY DEF ExecutionsSoFar
  <2>2. CASE i = id
    BY <1>1, <2>1, <2>2 DEF ExecutionsSoFar
  <2>3. CASE i # id
    BY <1>1, <2>1, <2>3 DEF ExecutionsSoFar
  <2> QED
    BY <2>2, <2>3
<1>3. ASSUME NEW x \in ExecutionsSoFar \union {<<id, n>>} PROVE x \in ExecutionsSoFar'
  <2>1. CASE x = <<id, n>>
    BY <1>1, <2>1 DEF ExecutionsSoFar
  <2>2. CASE x \in ExecutionsSoFar
    <3>1. PICK i \in Ids : \E m \in 1..execs[i] : x = <<i, m>>
      BY <2>2 DEF ExecutionsSoFar
    <3>2. 1..execs[i] \subseteq 1..execs'[i]
      BY <1>1, <3>1
    <3> QED
      BY <3>1, <3>2 DEF ExecutionsSoFar
  <2> QED
    BY <2>1, <2>2
<1>4. ExecutionsSoFar' = ExecutionsSoFar \union {<<id, n>>}
  BY <1>2, <1>3
<1>5. <<id, n>> \notin ExecutionsSoFar
  BY DEF ExecutionsSoFar
<1> HIDE DEF n
<1> QED
  BY <1>4, <1>5, FS_AddElement, FS_CardinalityType DEF Executions

----------------------------------------------------------------------------
(* A step of one slot, told by where it comes from and where it goes.      *)

Edge(from, to) ==
    \/ from = "dispatch" /\ to \in {"ok", "start", "register", "invalidStart"}
    \/ from = "invalidStart" /\ to = "finish"
    \/ from = "register" /\ to = "awaiting"
    \/ from = "awaiting" /\ to = "request"
    \/ from = "request" /\ to = "wait"
    \/ from = "wait" /\ to = "waiting"
    \/ from = "waiting" /\ to \in {"waiting", "start", "ok"}
    \/ from = "start" /\ to = "exec"
    \/ from = "exec" /\ to \in {"running", "settleErr"}
    \/ from = "running" /\ to \in {"settleOk", "settleErr"}
    \/ from = "settleOk" /\ to = "record"
    \/ from = "record" /\ to = "finish"
    \/ from = "finish" /\ to = "ok"
    \/ /\ to = "err"
       /\ from \in {"dispatch", "invalidStart", "register", "awaiting", "request", "waiting",
                    "start", "settleErr", "settleOk", "finish"}

\* What happens to the variables of the task.
SlotTask(k, to) ==
    /\ lpc = "tools" /\ UNCHANGED loopVars
    /\ spc' = [spc EXCEPT ![k] = to] /\ Edge(spc[k], to)
    /\ \A j \in Slots \ {k} : spc[j] \notin BetweenAwaits
    /\ IF spc[k] = "dispatch"
       THEN /\ invocations' \in {invocations, invocations + 1} /\ invocations' <= MaxInvocations
            /\ to # "err" => invocations' = invocations + 1 \/ invocations' = U32Max
            /\ invocations = U32Max => invocations' = U32Max
            /\ to \in PaidSites => Id(k) \notin ledger
            /\ to = "start" => Policy(k) = "Allow"
            /\ to = "register" => Policy(k) = "RequireApproval"
       ELSE invocations' = invocations
    /\ IF spc[k] = "register"
       THEN \E o \in FreshOps(k) : sop' = [sop EXCEPT ![k] = o]
       ELSE sop' = sop
    /\ ledger' = IF spc[k] = "record" THEN ledger \union {Id(k)} ELSE ledger
    /\ execs' = IF to = "running" THEN [execs EXCEPT ![Id(k)] = @ + 1] ELSE execs

\* What happens to the run.
SlotRun(k, to) ==
    /\ UNCHANGED callVars
    /\ IF to = "request" THEN runState' = [runState EXCEPT ![Run] = "AwaitingOperation"]
       ELSE IF spc[k] = "waiting" /\ to \in {"start", "ok"}
       THEN runState' = [runState EXCEPT ![Run] = "Running"]
       ELSE UNCHANGED runState
    /\ Emitted("ToolStarted")' =
           IF to = "exec" \/ (spc[k] = "invalidStart" /\ to = "finish")
           THEN Emitted("ToolStarted") + 1 ELSE Emitted("ToolStarted")
    /\ Emitted("ToolFinished")' =
           IF spc[k] = "finish" /\ to = "ok"
           THEN Emitted("ToolFinished") + 1 ELSE Emitted("ToolFinished")

\* What happens to the operations of the task.
SlotStore(k, to) ==
    /\ spc[k] = "waiting" /\ to = "start" => /\ wpc[sop[k]] = "done"
                                             /\ wout[sop[k]] = "Approve"
    /\ to = "awaiting" => opState'[sop'[k]] = "Pending"
    /\ \A o \in TaskOps : opState'[o] \in LiveStates =>
           opState[o] \in LiveStates \/ (to = "awaiting" /\ o = sop'[k])
    /\ spc[k] \in OpSites /\ to \notin OpSites /\ sop[k] # NoOp =>
           IsTerminal(Run) \/ opState'[sop[k]] \notin LiveStates

LEMMA ElementOf == ASSUME NEW S, NEW s \in Seq(S), NEW i \in 1..Len(s) PROVE s[i] \in S
  OBVIOUS

\* The call of a slot that is in use.
LEMMA SlotCalls ==
    ASSUME ControlInv, NEW k \in Slots, spc[k] # "off"
    PROVE  /\ k \in 1..Len(calls) /\ Id(k) \in Ids /\ Tool(k) \in Tools
           /\ Policy(k) \in Policies /\ Policy(k) # "Unregistered" /\ AskMode[Tool(k)] \in Modes
<1>1. calls \in Seq([id : Ids, tool : Tools]) /\ k <= Len(calls)
  BY DEF ControlInv
<1>2. k \in Nat /\ k >= 1
  BY CoordinatorAssumption DEF Slots
<1>3. k \in 1..Len(calls)
  BY <1>1, <1>2
<1>4. calls[k] \in [id : Ids, tool : Tools]
  BY <1>1, <1>3, ElementOf, Zenon
<1>5. PolicyOf[calls[k].tool] # "Unregistered"
  BY <1>3 DEF ControlInv
<1> QED
  BY <1>3, <1>4, <1>5, CoordinatorAssumption DEF Id, Tool, Policy

\* The steps that emit or set a state.
LEMMA EmitStepMoves ==
    ASSUME NEW k \in Slots, NEW site, NEW kind \in ProgressKinds, NEW next,
           runState[Run] # "Absent", EmitStep(k, site, kind, next)
    PROVE  /\ spc[k] = site /\ UNCHANGED <<storeVars, loopVars, invocations, sop, ledger, execs>>
           /\ \/ spc' = [spc EXCEPT ![k] = next] /\ ActiveResult(Run) = "Ok" /\ Emit(Run, kind)
              \/ spc' = [spc EXCEPT ![k] = "err"] /\ IsTerminal(Run) /\ UNCHANGED vars
<1>1. EmitResult(Run, kind) = ActiveResult(Run)
  BY DEF EmitResult, ProgressKinds, TerminalStates
<1> QED
  BY <1>1 DEF EmitStep, Try, Goto, ActiveResult, vars

LEMMA StateStepMoves ==
    ASSUME NEW k \in Slots, NEW site, NEW s \in ActiveStates, NEW next,
           runState[Run] # "Absent", StateStep(k, site, s, next)
    PROVE  /\ spc[k] = site /\ UNCHANGED <<storeVars, loopVars, invocations, sop, ledger, execs>>
           /\ \/ spc' = [spc EXCEPT ![k] = next] /\ ActiveResult(Run) = "Ok" /\ SetState(Run, s)
              \/ spc' = [spc EXCEPT ![k] = "err"] /\ IsTerminal(Run) /\ UNCHANGED vars
<1>1. SetStateResult(Run, s) = ActiveResult(Run)
  BY DEF SetStateResult, ActiveStates, TerminalStates
<1> QED
  BY <1>1 DEF StateStep, Try, Goto, ActiveResult, vars

\* The end of a wait.
LEMMA DecidedMoves ==
    ASSUME NEW k \in Slots, runState[Run] # "Absent", Decided(k)
    PROVE  /\ spc[k] = "waiting" /\ wpc[sop[k]] = "done"
           /\ UNCHANGED <<storeVars, loopVars, invocations, sop, ledger, execs>>
           /\ \/ /\ spc' = [spc EXCEPT ![k] = IF wout[sop[k]] = "Approve" THEN "start" ELSE "ok"]
                 /\ wout[sop[k]] \in Decisions
                 /\ ActiveResult(Run) = "Ok" /\ SetState(Run, "Running")
              \/ /\ spc' = [spc EXCEPT ![k] = "err"] /\ UNCHANGED vars
                 /\ IsTerminal(Run) \/ wout[sop[k]] \notin Decisions
<1>1. SetStateResult(Run, "Running") = ActiveResult(Run)
  BY DEF SetStateResult, TerminalStates
<1> QED
  BY <1>1 DEF Decided, Try, Goto, ActiveResult, vars

LEMMA LimitsType ==
    ASSUME limits \in Limits
    PROVE  U32Max \in Nat /\ MaxRounds \in 0..U32Max /\ MaxInvocations \in 0..U32Max
BY CoordinatorAssumption DEF MaxRounds, MaxInvocations

LEMMA DispatchMoves ==
    ASSUME ControlInv, NEW k \in Slots, lpc = "tools", Dispatch(k)
    PROVE  /\ spc[k] = "dispatch" /\ UNCHANGED <<vars, loopVars, sop, ledger, execs>>
           /\ invocations' \in {invocations, invocations + 1} /\ invocations' <= MaxInvocations
           /\ invocations = U32Max => invocations' = U32Max
           /\ \/ spc' = [spc EXCEPT ![k] = "err"]
              \/ /\ invocations' = invocations + 1 \/ invocations' = U32Max
                 /\ \E to \in {"ok", "start", "register", "invalidStart", "err"} :
                       /\ spc' = [spc EXCEPT ![k] = to]
                       /\ to \in PaidSites => Id(k) \notin ledger
                       /\ to = "start" => Policy(k) = "Allow"
                       /\ to = "register" => Policy(k) = "RequireApproval"
<1>1. Policy(k) \in Policies /\ Policy(k) # "Unregistered"
  BY SlotCalls DEF Dispatch
<1>2. /\ AfterBudget(k) \in {"ok", "start", "register", "invalidStart", "err"}
      /\ AfterBudget(k) \in PaidSites => Id(k) \notin ledger
      /\ AfterBudget(k) = "start" => Policy(k) = "Allow"
      /\ AfterBudget(k) = "register" => Policy(k) = "RequireApproval"
  BY <1>1 DEF AfterBudget, Cached, Prepared, Evaluated, Policies, PaidSites
<1>3. invocations \in 0..MaxInvocations /\ MaxInvocations \in 0..U32Max /\ U32Max \in Nat
  BY LimitsType DEF ControlInv
<1>4. ~Reached(invocations, MaxInvocations) =>
          /\ OneMore(invocations) \in {invocations, invocations + 1}
          /\ OneMore(invocations) <= MaxInvocations
          /\ OneMore(invocations) = invocations + 1 \/ OneMore(invocations) = U32Max
          /\ invocations = U32Max => OneMore(invocations) = U32Max
  BY <1>3 DEF Reached, OneMore
<1>5. spc[k] = "dispatch" /\ UNCHANGED <<vars, loopVars, sop, ledger, execs>>
      /\ ConsumeToolInvocation(k, AfterBudget(k))
  BY DEF Dispatch
<1>6. CASE Reached(invocations, MaxInvocations) /\ Goto(k, "err") /\ UNCHANGED invocations
  BY <1>3, <1>5, <1>6 DEF Goto
<1>7. CASE /\ ~Reached(invocations, MaxInvocations)
           /\ invocations' = OneMore(invocations)
           /\ Goto(k, AfterBudget(k)) \/ Goto(k, "err")
  BY <1>2, <1>3, <1>4, <1>5, <1>7 DEF Goto
<1> QED
  BY <1>5, <1>6, <1>7 DEF ConsumeToolInvocation

\* A registration, with the operation that it chose.
LEMMA RegisterMoves ==
    ASSUME NEW k \in Slots, RegisterOp(k)
    PROVE  /\ spc[k] = "register" /\ UNCHANGED <<tableVars, loopVars, invocations, ledger, execs>>
           /\ \E o \in FreshOps(k) :
                 /\ sop' = [sop EXCEPT ![k] = o]
                 /\ \/ spc' = [spc EXCEPT ![k] = "awaiting"] /\ Register(o)
                    \/ spc' = [spc EXCEPT ![k] = "err"] /\ UNCHANGED vars
<1> DEFINE o == CHOOSE x \in FreshOps(k) : TRUE
<1>1. o \in FreshOps(k)
  BY DEF RegisterOp
<1>2. /\ spc[k] = "register" /\ sop' = [sop EXCEPT ![k] = o]
      /\ UNCHANGED <<loopVars, invocations, ledger, execs>>
      /\ Try(k, RegisterResult(o), Register(o) /\ UNCHANGED tableVars, "awaiting")
  BY DEF RegisterOp
<1> HIDE DEF o
<1> QED
  BY <1>1, <1>2 DEF Try, Goto, vars

LEMMA SlotTaskStep ==
    ASSUME ControlInv, runState[Run] # "Absent", NEW k \in Slots, SlotStep(k) \/ ExecutionOver(k)
    PROVE  SlotTask(k, spc'[k])
<1>1. /\ lpc = "tools" /\ \A j \in Slots \ {k} : spc[j] \notin BetweenAwaits
      /\ DOMAIN spc = Slots
  BY DEF SlotStep, ExecutionOver, CanStep, ControlInv
<1>2. ASSUME NEW to, spc' = [spc EXCEPT ![k] = to], Edge(spc[k], to),
             UNCHANGED <<loopVars, invocations, sop, ledger, execs>>,
             spc[k] \notin {"dispatch", "register", "record"}, to # "running"
      PROVE  SlotTask(k, spc'[k])
  BY <1>1, <1>2 DEF SlotTask
<1>0. {"ToolStarted", "ToolFinished", "OperationRequested"} \subseteq ProgressKinds
  BY DEF ProgressKinds
<1>3. CASE Dispatch(k)
  <2>1. /\ spc[k] = "dispatch" /\ UNCHANGED <<vars, loopVars, sop, ledger, execs>>
        /\ invocations' \in {invocations, invocations + 1} /\ invocations' <= MaxInvocations
        /\ invocations = U32Max => invocations' = U32Max
        /\ \/ spc' = [spc EXCEPT ![k] = "err"]
           \/ /\ invocations' = invocations + 1 \/ invocations' = U32Max
              /\ \E to \in {"ok", "start", "register", "invalidStart", "err"} :
                    /\ spc' = [spc EXCEPT ![k] = to]
                    /\ to \in PaidSites => Id(k) \notin ledger
                    /\ to = "start" => Policy(k) = "Allow"
                    /\ to = "register" => Policy(k) = "RequireApproval"
    BY <1>1, <1>3, DispatchMoves
  <2>2. CASE spc' = [spc EXCEPT ![k] = "err"]
    BY <1>1, <2>1, <2>2 DEF SlotTask, Edge, PaidSites
  <2>3. CASE spc' # [spc EXCEPT ![k] = "err"]
    <3>1. PICK to \in {"ok", "start", "register", "invalidStart"} :
                    /\ spc' = [spc EXCEPT ![k] = to]
                    /\ to \in PaidSites => Id(k) \notin ledger
                    /\ to = "start" => Policy(k) = "Allow"
                    /\ to = "register" => Policy(k) = "RequireApproval"
      BY <2>1, <2>3
    <3> QED
      BY <1>1, <2>1, <2>3, <3>1 DEF SlotTask, Edge
  <2> QED
    BY <2>1, <2>2, <2>3
<1>4. CASE EmitStep(k, "invalidStart", "ToolStarted", "finish")
  <2>1. /\ spc[k] = "invalidStart" /\ UNCHANGED <<loopVars, invocations, sop, ledger, execs>>
        /\ spc' = [spc EXCEPT ![k] = "finish"] \/ spc' = [spc EXCEPT ![k] = "err"]
    BY <1>4, <1>0, EmitStepMoves
  <2> QED
    BY <1>2, <2>1 DEF Edge
<1>5. CASE RegisterOp(k)
  <2>1. PICK o \in FreshOps(k) :
                 /\ sop' = [sop EXCEPT ![k] = o]
                 /\ \/ spc' = [spc EXCEPT ![k] = "awaiting"]
                    \/ spc' = [spc EXCEPT ![k] = "err"]
    BY <1>5, RegisterMoves
  <2>2. spc[k] = "register" /\ UNCHANGED <<loopVars, invocations, ledger, execs>>
    BY <1>5, RegisterMoves
  <2>3. spc' = [spc EXCEPT ![k] = spc'[k]] /\ spc'[k] \in {"awaiting", "err"}
    BY <1>1, <2>1
  <2> QED
    BY <1>1, <2>1, <2>2, <2>3 DEF SlotTask, Edge
<1>6. CASE StateStep(k, "awaiting", "AwaitingOperation", "request")
  BY <1>2, <1>6, StateStepMoves DEF Edge, ActiveStates
<1>7. CASE EmitStep(k, "request", "OperationRequested", "wait")
  <2>1. /\ spc[k] = "request" /\ UNCHANGED <<loopVars, invocations, sop, ledger, execs>>
        /\ spc' = [spc EXCEPT ![k] = "wait"] \/ spc' = [spc EXCEPT ![k] = "err"]
    BY <1>7, <1>0, EmitStepMoves
  <2> QED
    BY <1>2, <2>1 DEF Edge
<1>8. CASE BeginWait(k)
  BY <1>2, <1>8 DEF BeginWait, Goto, Edge
<1>9. CASE Await(k)
  <2>1. spc[k] = "waiting" /\ spc' = [spc EXCEPT ![k] = "waiting"]
    BY <1>9 DEF Await, coordVars, slotVars, ControlInv
  <2> QED
    BY <1>2, <1>9, <2>1 DEF Await, Edge, coordVars, slotVars
<1>10. CASE Decided(k)
  BY <1>2, <1>10, DecidedMoves DEF Edge
<1>11. CASE EmitStep(k, "start", "ToolStarted", "exec")
  <2>1. /\ spc[k] = "start" /\ UNCHANGED <<loopVars, invocations, sop, ledger, execs>>
        /\ spc' = [spc EXCEPT ![k] = "exec"] \/ spc' = [spc EXCEPT ![k] = "err"]
    BY <1>11, <1>0, EmitStepMoves
  <2> QED
    BY <1>2, <2>1 DEF Edge
<1>12. CASE Execute(k)
  BY <1>1, <1>12 DEF Execute, Goto, SlotTask, Edge
<1>13. CASE SettleErr(k)
  BY <1>2, <1>13 DEF SettleErr, Goto, Edge
<1>14. CASE SettleOk(k)
  BY <1>2, <1>14 DEF SettleOk, Try, Goto, Edge
<1>15. CASE Record(k)
  BY <1>1, <1>15 DEF Record, Goto, SlotTask, Edge
<1>16. CASE EmitStep(k, "finish", "ToolFinished", "ok")
  <2>1. /\ spc[k] = "finish" /\ UNCHANGED <<loopVars, invocations, sop, ledger, execs>>
        /\ spc' = [spc EXCEPT ![k] = "ok"] \/ spc' = [spc EXCEPT ![k] = "err"]
    BY <1>16, <1>0, EmitStepMoves
  <2> QED
    BY <1>2, <2>1 DEF Edge
<1>17. CASE ExecutionOver(k)
  BY <1>2, <1>17 DEF ExecutionOver, Goto, Edge
<1> QED
  BY <1>3, <1>4, <1>5, <1>6, <1>7, <1>8, <1>9, <1>10, <1>11, <1>12, <1>13, <1>14, <1>15, <1>16,
     <1>17 DEF SlotStep

\* The operation of a slot.
LEMMA SlotOperation ==
    ASSUME ControlInv, SlotInv, NEW k \in Slots, sop[k] # NoOp
    PROVE  /\ sop[k] \in TaskOps /\ sop[k] \in Ops /\ RunOf[sop[k]] = Run
           /\ ModeOf[sop[k]] = AskMode[Tool(k)] /\ Policy(k) = "RequireApproval"
  BY CoordFacts DEF ControlInv, SlotInv, SlotOK

\* FinishHostOperation is refused only for an operation that is settled: the
\* one behind an execution has been answered as its mode asks.
LEMMA RefusedIsSettled ==
    ASSUME TableInv, ControlInv, SlotInv, NEW k \in Slots, sop[k] # NoOp, Covered(k),
           opState[sop[k]] \in LiveStates
    PROVE  FinishHostOperationResult(sop[k]) = "Ok"
<1> DEFINE o == sop[k]
<1>1. /\ o \in Ops /\ RunOf[o] = Run /\ ModeOf[o] = AskMode[Tool(k)]
      /\ Policy(k) = "RequireApproval"
  BY SlotOperation
<1>2. answers[o] = IF ModeOf[o] = "BlockingApproval" THEN <<"Approve">> ELSE <<"Commit">>
  BY <1>1 DEF Covered
<1>3. <<"Approve">> # <<"Commit">> /\ <<"Approve">> # <<>> /\ <<"Commit">> # <<>>
  OBVIOUS
<1>4. /\ opState[o] = "Pending" => answers[o] = <<>>
      /\ opState[o] = "Approved" => answers[o] = <<"Approve">>
      /\ opState[o] = "Committing" => answers[o] = <<"Commit">>
  BY <1>1 DEF TableInv, StoreInv, AnswerOnRecord
<1>5. LookupResult(Run, o) = "Ok"
  BY <1>1 DEF LookupResult, Registered, States
<1> HIDE DEF o
<1>6. /\ ModeOf[o] = "BlockingApproval" => opState[o] = "Approved"
      /\ ModeOf[o] # "BlockingApproval" => opState[o] = "Committing"
  BY <1>2, <1>3, <1>4 DEF LiveStates, o
<1>7. FinishHostOperationResult(o) = "Ok"
  BY <1>5, <1>6 DEF FinishHostOperationResult, FinishBlockingApprovalResult, FinishCommitResult
<1> QED
  BY <1>7 DEF o

LEMMA SettleMoves ==
    ASSUME TableInv, NEW o \in Ops, NEW ok \in BOOLEAN, FinishHostOperation(o, ok)
    PROVE  /\ EffectStep(Run, o) /\ UNCHANGED tableVars
           /\ opState'[o] \notin LiveStates /\ \A p \in Ops \ {o} : opState'[p] = opState[p]
<1>1. EffectStep(Run, o) /\ UNCHANGED tableVars
  BY DEF FinishHostOperation, EffectStep
<1>2. /\ opState' = [opState EXCEPT ![o] = IF ok THEN "Committed" ELSE "Failed"]
      /\ opState \in [Ops -> OpStates]
  BY DEF FinishHostOperation, FinishBlockingApproval, FinishCommit, TableInv, StoreInv, StoreTypeOK
<1> QED
  BY <1>1, <1>2 DEF LiveStates

LEMMA SlotTableMove ==
    ASSUME TableInv, ControlInv, CallersInv, SlotInv,
           NEW k \in Slots, SlotStep(k) \/ ExecutionOver(k)
    PROVE  TableMove
<1>0. /\ runState[Run] # "Absent"
      /\ {"ToolStarted", "ToolFinished", "OperationRequested"} \subseteq ProgressKinds
      /\ {"Running", "AwaitingOperation"} \subseteq ActiveStates
  BY DEF CallersInv, ProgressKinds, ActiveStates
<1>1. ASSUME NEW site, NEW kind \in ProgressKinds, NEW next, EmitStep(k, site, kind, next)
      PROVE  TableMove
  <2>1. UNCHANGED storeVars /\ (Emit(Run, kind) \/ UNCHANGED vars)
    BY <1>0, <1>1, EmitStepMoves
  <2> QED
    BY <2>1 DEF TableMove, RecordMove
<1>2. CASE Dispatch(k) \/ Execute(k) \/ Record(k) \/ ExecutionOver(k)
  BY <1>2 DEF Dispatch, Execute, Record, ExecutionOver, TableMove
<1>3. CASE RegisterOp(k)
  <2>1. \E o \in FreshOps(k) : Register(o) \/ UNCHANGED vars
    BY <1>3, RegisterMoves
  <2>2. UNCHANGED tableVars
    BY <1>3, RegisterMoves
  <2> QED
    BY <2>1, <2>2 DEF FreshOps, TableMove, StoreMove
<1>4. CASE StateStep(k, "awaiting", "AwaitingOperation", "request")
  <2>1. UNCHANGED storeVars /\ (SetState(Run, "AwaitingOperation") \/ UNCHANGED vars)
    BY <1>0, <1>4, StateStepMoves
  <2> QED
    BY <1>0, <2>1 DEF TableMove, RecordMove
<1>5. CASE BeginWait(k)
  <2>1. sop[k] \in Ops /\ opState[sop[k]] \in States
    BY <1>5, SlotOperation DEF BeginWait, SlotInv, SlotOK
  <2> QED
    BY <1>5, <2>1 DEF BeginWait, TableMove, StoreMove
<1>6. CASE Await(k)
  <2>1. sop[k] \in Ops
    BY <1>6, SlotOperation DEF Await, SlotInv, SlotOK
  <2> QED
    BY <1>6, <2>1 DEF Await, TableMove, StoreMove
<1>7. CASE Decided(k)
  <2>1. UNCHANGED storeVars /\ (SetState(Run, "Running") \/ UNCHANGED vars)
    BY <1>0, <1>7, DecidedMoves
  <2> QED
    BY <1>0, <2>1 DEF TableMove, RecordMove
<1>8. CASE SettleErr(k) \/ SettleOk(k)
  <2>1. UNCHANGED vars \/ (sop[k] # NoOp /\ \E ok \in BOOLEAN : FinishHostOperation(sop[k], ok))
    BY <1>8 DEF SettleErr, SettleOk, Try
  <2>2. ASSUME sop[k] # NoOp, NEW ok \in BOOLEAN, FinishHostOperation(sop[k], ok)
        PROVE  TableMove
    <3>1. sop[k] \in Ops /\ Run \in Runs
      BY <2>2, SlotOperation, CoordFacts
    <3>2. EffectStep(Run, sop[k]) /\ UNCHANGED tableVars
      BY <2>2, <3>1, SettleMoves
    <3> QED
      BY <3>1, <3>2 DEF TableMove, StoreMove
  <2> QED
    BY <2>1, <2>2 DEF TableMove
<1> QED
  BY <1>0, <1>1, <1>2, <1>3, <1>4, <1>5, <1>6, <1>7, <1>8 DEF SlotStep

LEMMA SlotRunQuiet ==
    ASSUME NEW k \in Slots, NEW to, UNCHANGED tableVars,
           to # "request", to # "exec",
           spc[k] \in {"waiting", "invalidStart", "finish"} => to \in {"waiting", "err"}
    PROVE  SlotRun(k, to)
  BY DEF SlotRun, tableVars, callVars, Emitted

LEMMA SlotRunStep ==
    ASSUME TableInv, ControlInv, CallersInv, SlotInv,
           NEW k \in Slots, SlotStep(k) \/ ExecutionOver(k)
    PROVE  SlotRun(k, spc'[k])
<1>0. /\ runState[Run] # "Absent" /\ TableTypeOK /\ LogAgreesWithState
      /\ {"ToolStarted", "ToolFinished", "OperationRequested"} \subseteq ProgressKinds
      /\ {"Running", "AwaitingOperation"} \subseteq ActiveStates
      /\ ProgressKinds \subseteq EventKinds /\ "StateChanged" \in EventKinds
      /\ DOMAIN spc = Slots
  BY DEF CallersInv, ProgressKinds, ActiveStates, EventKinds, TableInv, ControlInv
<1>1. ASSUME NEW to, spc' = [spc EXCEPT ![k] = to], UNCHANGED tableVars,
             to # "request", to # "exec",
             spc[k] \in {"waiting", "invalidStart", "finish"} => to \in {"waiting", "err"}
      PROVE  SlotRun(k, spc'[k])
  BY <1>0, <1>1, SlotRunQuiet
<1>2. ASSUME NEW kind \in EventKinds, ActiveResult(Run) = "Ok", events' = Appended(Run, kind)
      PROVE  /\ Emitted("ToolStarted")' = IF kind = "ToolStarted"
                     THEN Emitted("ToolStarted") + 1 ELSE Emitted("ToolStarted")
             /\ Emitted("ToolFinished")' = IF kind = "ToolFinished"
                     THEN Emitted("ToolFinished") + 1 ELSE Emitted("ToolFinished")
  BY <1>0, <1>2, EmittedOneMore
<1>3. ASSUME NEW kind \in ProgressKinds, ActiveResult(Run) = "Ok", Emit(Run, kind)
      PROVE  /\ UNCHANGED <<callVars, runState>>
             /\ Emitted("ToolStarted")' = IF kind = "ToolStarted"
                     THEN Emitted("ToolStarted") + 1 ELSE Emitted("ToolStarted")
             /\ Emitted("ToolFinished")' = IF kind = "ToolFinished"
                     THEN Emitted("ToolFinished") + 1 ELSE Emitted("ToolFinished")
  BY <1>0, <1>2, <1>3 DEF Emit
<1>4. ASSUME NEW s \in ActiveStates, ActiveResult(Run) = "Ok", SetState(Run, s)
      PROVE  /\ UNCHANGED callVars /\ runState' = [runState EXCEPT ![Run] = s]
             /\ Emitted("ToolStarted")' = Emitted("ToolStarted")
             /\ Emitted("ToolFinished")' = Emitted("ToolFinished")
  BY <1>0, <1>2, <1>4 DEF SetState
<1>5. CASE Dispatch(k)
  <2>1. spc[k] = "dispatch" /\ UNCHANGED tableVars
    BY <1>5 DEF Dispatch, vars
  <2>2. SlotTask(k, spc'[k])
    BY <1>0, <1>5, SlotTaskStep DEF SlotStep, CanStep
  <2> QED
    BY <2>1, <2>2, SlotRunQuiet DEF SlotTask, Edge
<1>6. CASE Execute(k) \/ Record(k) \/ ExecutionOver(k)
  BY <1>1, <1>6 DEF Execute, Record, ExecutionOver, Goto, vars
<1>7. CASE RegisterOp(k)
  <2>1. /\ spc[k] = "register" /\ UNCHANGED tableVars
        /\ spc' = [spc EXCEPT ![k] = "awaiting"] \/ spc' = [spc EXCEPT ![k] = "err"]
    BY <1>7, RegisterMoves
  <2> QED
    BY <1>1, <2>1
<1>8. CASE BeginWait(k)
  BY <1>1, <1>8 DEF BeginWait, Goto
<1>9. CASE Await(k)
  <2>1. spc[k] = "waiting" /\ spc' = spc /\ UNCHANGED tableVars
    BY <1>9 DEF Await, coordVars, slotVars
  <2> QED
    BY <2>1, SlotRunQuiet
<1>10. CASE SettleErr(k) \/ SettleOk(k)
  <2>1. UNCHANGED tableVars /\ spc[k] \in {"settleErr", "settleOk"}
    BY <1>10 DEF SettleErr, SettleOk, Try, FinishHostOperation, vars
  <2>2. spc' = [spc EXCEPT ![k] = "err"] \/ spc' = [spc EXCEPT ![k] = "record"]
    BY <1>10 DEF SettleErr, SettleOk, Try, Goto
  <2> QED
    BY <1>1, <2>1, <2>2
<1>11. CASE StateStep(k, "awaiting", "AwaitingOperation", "request")
  <2>1. /\ spc[k] = "awaiting"
        /\ \/ /\ spc' = [spc EXCEPT ![k] = "request"] /\ ActiveResult(Run) = "Ok"
              /\ SetState(Run, "AwaitingOperation")
           \/ spc' = [spc EXCEPT ![k] = "err"] /\ UNCHANGED vars
    BY <1>0, <1>11, StateStepMoves
  <2> QED
    BY <1>0, <1>1, <1>4, <2>1 DEF SlotRun, vars
<1>12. CASE Decided(k)
  <2>1. /\ spc[k] = "waiting"
        /\ \/ /\ spc' = [spc EXCEPT ![k] = "start"] \/ spc' = [spc EXCEPT ![k] = "ok"]
              /\ ActiveResult(Run) = "Ok" /\ SetState(Run, "Running")
           \/ spc' = [spc EXCEPT ![k] = "err"] /\ UNCHANGED vars
    BY <1>0, <1>12, DecidedMoves
  <2> QED
    BY <1>0, <1>1, <1>4, <2>1 DEF SlotRun, vars
<1>13. ASSUME NEW site, NEW kind \in ProgressKinds, NEW next, EmitStep(k, site, kind, next)
       PROVE  /\ spc[k] = site
              /\ \/ /\ spc'[k] = next /\ UNCHANGED <<callVars, runState>>
                    /\ Emitted("ToolStarted")' = IF kind = "ToolStarted"
                            THEN Emitted("ToolStarted") + 1 ELSE Emitted("ToolStarted")
                    /\ Emitted("ToolFinished")' = IF kind = "ToolFinished"
                            THEN Emitted("ToolFinished") + 1 ELSE Emitted("ToolFinished")
                 \/ spc'[k] = "err" /\ UNCHANGED tableVars
  <2>1. /\ spc[k] = site
        /\ \/ spc'[k] = next /\ ActiveResult(Run) = "Ok" /\ Emit(Run, kind)
           \/ spc'[k] = "err" /\ UNCHANGED tableVars
    BY <1>0, <1>13, EmitStepMoves DEF vars
  <2> QED
    BY <1>3, <2>1
<1>14. CASE EmitStep(k, "invalidStart", "ToolStarted", "finish")
  <2>1. /\ spc[k] = "invalidStart"
        /\ \/ /\ spc'[k] = "finish" /\ UNCHANGED <<callVars, runState>>
              /\ Emitted("ToolStarted")' = Emitted("ToolStarted") + 1
              /\ Emitted("ToolFinished")' = Emitted("ToolFinished")
           \/ spc'[k] = "err" /\ UNCHANGED tableVars
    BY <1>0, <1>13, <1>14
  <2>2. CASE spc'[k] = "err" /\ UNCHANGED tableVars
    BY <2>2, SlotRunQuiet
  <2>3. CASE ~(spc'[k] = "err" /\ UNCHANGED tableVars)
    BY <2>1, <2>3 DEF SlotRun
  <2> QED
    BY <2>2, <2>3
<1>15. CASE EmitStep(k, "request", "OperationRequested", "wait")
  <2>1. /\ spc[k] = "request"
        /\ \/ /\ spc'[k] = "wait" /\ UNCHANGED <<callVars, runState>>
              /\ Emitted("ToolStarted")' = Emitted("ToolStarted")
              /\ Emitted("ToolFinished")' = Emitted("ToolFinished")
           \/ spc'[k] = "err" /\ UNCHANGED tableVars
    BY <1>0, <1>13, <1>15
  <2>2. CASE spc'[k] = "err" /\ UNCHANGED tableVars
    BY <2>2, SlotRunQuiet
  <2>3. CASE ~(spc'[k] = "err" /\ UNCHANGED tableVars)
    BY <2>1, <2>3 DEF SlotRun
  <2> QED
    BY <2>2, <2>3
<1>16. CASE EmitStep(k, "start", "ToolStarted", "exec")
  <2>1. /\ spc[k] = "start"
        /\ \/ /\ spc'[k] = "exec" /\ UNCHANGED <<callVars, runState>>
              /\ Emitted("ToolStarted")' = Emitted("ToolStarted") + 1
              /\ Emitted("ToolFinished")' = Emitted("ToolFinished")
           \/ spc'[k] = "err" /\ UNCHANGED tableVars
    BY <1>0, <1>13, <1>16
  <2>2. CASE spc'[k] = "err" /\ UNCHANGED tableVars
    BY <2>2, SlotRunQuiet
  <2>3. CASE ~(spc'[k] = "err" /\ UNCHANGED tableVars)
    BY <2>1, <2>3 DEF SlotRun
  <2> QED
    BY <2>2, <2>3
<1>17. CASE EmitStep(k, "finish", "ToolFinished", "ok")
  <2>1. /\ spc[k] = "finish"
        /\ \/ /\ spc'[k] = "ok" /\ UNCHANGED <<callVars, runState>>
              /\ Emitted("ToolStarted")' = Emitted("ToolStarted")
              /\ Emitted("ToolFinished")' = Emitted("ToolFinished") + 1
           \/ spc'[k] = "err" /\ UNCHANGED tableVars
    BY <1>0, <1>13, <1>17
  <2>2. CASE spc'[k] = "err" /\ UNCHANGED tableVars
    BY <2>2, SlotRunQuiet
  <2>3. CASE ~(spc'[k] = "err" /\ UNCHANGED tableVars)
    BY <2>1, <2>3 DEF SlotRun
  <2> QED
    BY <2>2, <2>3
<1> QED
  BY <1>5, <1>6, <1>7, <1>8, <1>9, <1>10, <1>11, <1>12, <1>14, <1>15, <1>16, <1>17 DEF SlotStep

\* A slot whose operation the step leaves alone.
LEMMA SlotStoreQuiet ==
    ASSUME NEW k \in Slots, NEW to, UNCHANGED opState, spc[k] # "waiting", to # "awaiting",
           spc[k] \in OpSites /\ to \notin OpSites => IsTerminal(Run)
    PROVE  SlotStore(k, to)
  BY DEF SlotStore

LEMMA ToldTheAnswer ==
    ASSUME TableInv, NEW o \in Ops
    PROVE  /\ wout[o] = "Approve" => answers[o] \in {<<"Approve">>, <<"Commit">>}
           /\ wout[o] = "Reject" => answers[o] = <<"Reject">>
<1>1. o \in Waiters /\ CallOf[o] = [run |-> RunOf[o], op |-> o, mode |-> ModeOf[o]]
  BY CoordFacts
<1>2. CallOf[o].op = o
  BY <1>1
<1>3. WaiterToldTheAnswer
  BY DEF TableInv, StoreInv
<1> QED
  BY <1>1, <1>2, <1>3 DEF WaiterToldTheAnswer

\* The end of a wait leaves an operation open only behind an approval.
LEMMA DecidedStore ==
    ASSUME TableInv, ControlInv, CallersInv, SlotInv, WaitInv, NEW k \in Slots, Decided(k)
    PROVE  SlotStore(k, spc'[k])
<1>1. /\ spc[k] = "waiting" /\ wpc[sop[k]] = "done" /\ opState' = opState
      /\ \/ spc' = [spc EXCEPT ![k] = IF wout[sop[k]] = "Approve" THEN "start" ELSE "ok"]
            /\ wout[sop[k]] \in Decisions
         \/ /\ spc' = [spc EXCEPT ![k] = "err"]
            /\ IsTerminal(Run) \/ wout[sop[k]] \notin Decisions
  BY DecidedMoves DEF CallersInv, storeVars, vars
<1>2. sop[k] # NoOp /\ sop[k] \in TaskOps /\ sop[k] \in Ops
  BY <1>1, SlotOperation DEF SlotInv, SlotOK
<1>3. DOMAIN spc = Slots
  BY DEF ControlInv
<1>4. "waiting" \in OpSites /\ "start" \in OpSites
  BY DEF OpSites
<1>5. CASE wout[sop[k]] = "Approve" /\ spc' = [spc EXCEPT ![k] = "start"]
  BY <1>1, <1>3, <1>4, <1>5 DEF SlotStore
<1>6. CASE wout[sop[k]] = "Reject" /\ spc' = [spc EXCEPT ![k] = "ok"]
  <2>1. answers[sop[k]] = <<"Reject">>
    BY <1>2, <1>6, ToldTheAnswer
  <2>2. <<"Reject">> # <<>> /\ <<"Reject">> # <<"Approve">> /\ <<"Reject">> # <<"Commit">>
    OBVIOUS
  <2>3. opState[sop[k]] \notin LiveStates
    BY <1>2, <2>1, <2>2 DEF TableInv, StoreInv, AnswerOnRecord, LiveStates
  <2> QED
    BY <1>1, <1>3, <1>6, <2>3 DEF SlotStore
<1>7. CASE /\ spc' = [spc EXCEPT ![k] = "err"]
           /\ IsTerminal(Run) \/ wout[sop[k]] \notin Decisions
  <2>1. IsTerminal(Run) \/ opState[sop[k]] \in SettledStates
    BY <1>1, <1>2, <1>7 DEF WaitInv
  <2>2. IsTerminal(Run) \/ opState[sop[k]] \notin LiveStates
    BY <2>1 DEF SettledStates, LiveStates
  <2> QED
    BY <1>1, <1>3, <1>7, <2>2 DEF SlotStore
<1> QED
  BY <1>1, <1>5, <1>6, <1>7 DEF Decisions

LEMMA SettleStore ==
    ASSUME TableInv, ControlInv, SlotInv, NEW k \in Slots, SettleErr(k) \/ SettleOk(k)
    PROVE  SlotStore(k, spc'[k])
<1>1. /\ spc[k] \in {"settleErr", "settleOk"} /\ DOMAIN spc = Slots
      /\ spc' = [spc EXCEPT ![k] = "err"] \/ spc' = [spc EXCEPT ![k] = "record"]
  BY DEF SettleErr, SettleOk, Try, Goto, ControlInv
<1>2. spc'[k] # "awaiting" /\ spc[k] # "waiting"
  BY <1>1
<1>3. CASE sop[k] = NoOp
  <2>1. opState' = opState
    BY <1>3 DEF SettleErr, SettleOk, vars, storeVars
  <2> QED
    BY <1>2, <1>3, <2>1 DEF SlotStore
<1>4. CASE sop[k] # NoOp
  <2>1. sop[k] \in Ops /\ Covered(k) /\ TaskOps \subseteq Ops
    BY <1>1, <1>4, SlotOperation, CoordFacts DEF SlotInv, SlotOK, ExecutingSites
  <2>2. CASE \E ok \in BOOLEAN : FinishHostOperation(sop[k], ok)
    <3>1. opState'[sop[k]] \notin LiveStates /\ \A p \in Ops \ {sop[k]} : opState'[p] = opState[p]
      BY <2>1, <2>2, SettleMoves
    <3> QED
      BY <1>2, <2>1, <3>1 DEF SlotStore
  <2>3. CASE FinishHostOperationResult(sop[k]) # "Ok" /\ opState' = opState
    <3>1. opState[sop[k]] \notin LiveStates
      BY <1>4, <2>1, <2>3, RefusedIsSettled
    <3> QED
      BY <1>2, <2>3, <3>1 DEF SlotStore
  <2> QED
    BY <1>4, <2>2, <2>3 DEF SettleErr, SettleOk, Try, vars, storeVars
<1> QED
  BY <1>3, <1>4

LEMMA SlotStoreStep ==
    ASSUME TableInv, ControlInv, CallersInv, SlotInv, WaitInv,
           NEW k \in Slots, SlotStep(k) \/ ExecutionOver(k)
    PROVE  SlotStore(k, spc'[k])
<1>0. /\ runState[Run] # "Absent" /\ DOMAIN spc = Slots
      /\ {"ToolStarted", "ToolFinished", "OperationRequested"} \subseteq ProgressKinds
      /\ {"Running", "AwaitingOperation"} \subseteq ActiveStates
  BY DEF CallersInv, ControlInv, ProgressKinds, ActiveStates
<1>1. ASSUME NEW to, spc' = [spc EXCEPT ![k] = to], UNCHANGED opState,
             spc[k] # "waiting", to # "awaiting",
             spc[k] \in OpSites /\ to \notin OpSites => IsTerminal(Run)
      PROVE  SlotStore(k, spc'[k])
  BY <1>0, <1>1, SlotStoreQuiet
<1>2. SlotTask(k, spc'[k])
  BY <1>0, SlotTaskStep
<1>3. CASE Dispatch(k) \/ Execute(k) \/ Record(k) \/ ExecutionOver(k)
  <2>1. opState' = opState /\ spc[k] \in {"dispatch", "exec", "record", "running"}
    BY <1>3 DEF Dispatch, Execute, Record, ExecutionOver, vars, storeVars
  <2>2. Edge(spc[k], spc'[k])
    BY <1>2 DEF SlotTask
  <2> QED
    BY <2>1, <2>2, SlotStoreQuiet DEF Edge, OpSites
<1>4. ASSUME NEW site \in {"invalidStart", "request", "start", "finish"}, NEW kind \in ProgressKinds,
             NEW next \in {"finish", "wait", "exec", "ok"}, EmitStep(k, site, kind, next),
             site \in OpSites => next \in OpSites
      PROVE  SlotStore(k, spc'[k])
  <2>1. /\ spc[k] = site /\ opState' = opState
        /\ \/ spc' = [spc EXCEPT ![k] = next]
           \/ spc' = [spc EXCEPT ![k] = "err"] /\ IsTerminal(Run)
    BY <1>0, <1>4, EmitStepMoves DEF storeVars
  <2> QED
    BY <1>1, <1>4, <2>1
<1>5. CASE \/ EmitStep(k, "invalidStart", "ToolStarted", "finish")
           \/ EmitStep(k, "request", "OperationRequested", "wait")
           \/ EmitStep(k, "start", "ToolStarted", "exec")
           \/ EmitStep(k, "finish", "ToolFinished", "ok")
  BY <1>0, <1>4, <1>5 DEF OpSites
<1>6. CASE RegisterOp(k)
  <2>1. PICK o \in FreshOps(k) :
                 /\ sop' = [sop EXCEPT ![k] = o]
                 /\ \/ spc' = [spc EXCEPT ![k] = "awaiting"] /\ Register(o)
                    \/ spc' = [spc EXCEPT ![k] = "err"] /\ UNCHANGED vars
    BY <1>6, RegisterMoves
  <2>2. spc[k] = "register"
    BY <1>6, RegisterMoves
  <2>3. CASE spc' = [spc EXCEPT ![k] = "err"] /\ UNCHANGED vars
    BY <1>1, <2>2, <2>3 DEF vars, storeVars, OpSites
  <2>4. CASE spc' = [spc EXCEPT ![k] = "awaiting"] /\ Register(o)
    <3>1. o \in Ops /\ sop'[k] = o /\ TaskOps \subseteq Ops
      BY <2>1, CoordFacts DEF FreshOps, ControlInv
    <3>2. opState'[o] = "Pending" /\ \A p \in Ops \ {o} : opState'[p] = opState[p]
      BY <2>4, <3>1 DEF Register, TableInv, StoreInv, StoreTypeOK
    <3>3. spc[k] \notin OpSites /\ spc'[k] = "awaiting" /\ spc[k] # "waiting"
      BY <1>0, <2>2, <2>4 DEF OpSites
    <3> QED
      BY <3>1, <3>2, <3>3 DEF SlotStore
  <2> QED
    BY <2>1, <2>3, <2>4
<1>7. CASE StateStep(k, "awaiting", "AwaitingOperation", "request")
  <2>1. /\ spc[k] = "awaiting" /\ opState' = opState
        /\ \/ spc' = [spc EXCEPT ![k] = "request"]
           \/ spc' = [spc EXCEPT ![k] = "err"] /\ IsTerminal(Run)
    BY <1>0, <1>7, StateStepMoves DEF storeVars
  <2> QED
    BY <1>1, <2>1 DEF OpSites
<1>8. CASE BeginWait(k)
  BY <1>1, <1>8 DEF BeginWait, WaitCall, recordVars, Goto, OpSites
<1>9. CASE Await(k)
  <2>1. spc[k] = "waiting" /\ spc' = spc /\ opState' = opState
    BY <1>9 DEF Await, WaitRead, recordVars, coordVars, slotVars
  <2> QED
    BY <2>1 DEF SlotStore, OpSites
<1>10. CASE Decided(k)
  BY <1>10, DecidedStore
<1>11. CASE SettleErr(k) \/ SettleOk(k)
  BY <1>11, SettleStore
<1> QED
  BY <1>3, <1>5, <1>6, <1>7, <1>8, <1>9, <1>10, <1>11 DEF SlotStep

----------------------------------------------------------------------------
(* The steps of the hosts, and those the provider makes while it streams.  *)

\* The task stays where it is; its run may be cancelled, its operations
\* answered, settled or refused, and nothing that counts is logged.
Aside ==
    /\ UNCHANGED coordVars
    /\ cpc'[Task] = cpc[Task] /\ cevent'[Task] = cevent[Task]
    /\ runState'[Run] \in {runState[Run], "Cancelled"}
    /\ Emitted("ToolStarted")' = Emitted("ToolStarted")
    /\ Emitted("ToolFinished")' = Emitted("ToolFinished")
    /\ \A o \in TaskOps : opState'[o] \in LiveStates => opState[o] \in LiveStates

\* None of these opens an operation of the task.
LEMMA OperationsAside ==
    ASSUME StoreTypeOK,
           \/ \E o \in Ops : DeadlinePasses(o) \/ NotifyWaiters(o) \/ AnswerStep(RunOf[o], o)
           \/ \E o \in HostOps : Register(o) \/ EffectStep(RunOf[o], o)
           \/ Expire
           \/ \E r \in Runs : CancelRun(r)
           \/ UNCHANGED opState
    PROVE  \A o \in TaskOps : opState'[o] \in LiveStates => opState[o] \in LiveStates
<1>0. TaskOps \subseteq Ops \ HostOps /\ HostOps \subseteq Ops /\ opState \in [Ops -> OpStates]
  BY CoordinatorAssumption DEF TaskOps, OpsOf, StoreTypeOK
<1>1. CASE UNCHANGED opState
  BY <1>1
<1>2. CASE \E o \in Ops : DeadlinePasses(o) \/ NotifyWaiters(o)
  BY <1>2 DEF DeadlinePasses, NotifyWaiters, recordVars
<1>3. ASSUME NEW o \in Ops, AnswerStep(RunOf[o], o) PROVE opState[o] \in LiveStates
  BY <1>3 DEF AnswerStep, Resolve, ResolveResult, BeginCommit, BeginCommitResult, LiveStates
<1>4. ASSUME NEW o \in Ops, AnswerStep(RunOf[o], o)
      PROVE  \A p \in Ops \ {o} : opState'[p] = opState[p]
  BY <1>0, <1>4 DEF AnswerStep, Resolve, BeginCommit
<1>5. ASSUME NEW o \in HostOps, Register(o) \/ EffectStep(RunOf[o], o)
      PROVE  \A p \in Ops \ {o} : opState'[p] = opState[p]
  BY <1>0, <1>5 DEF Register, EffectStep, FinishBlockingApproval, FinishCommit
<1>6. CASE Expire
  BY <1>0, <1>6 DEF Expire, LiveStates
<1>7. CASE \E r \in Runs : CancelRun(r)
  BY <1>0, <1>7 DEF CancelRun, LiveStates
<1>8. CASE \E o \in Ops : AnswerStep(RunOf[o], o)
  BY <1>0, <1>3, <1>4, <1>8
<1>9. CASE \E o \in HostOps : Register(o) \/ EffectStep(RunOf[o], o)
  BY <1>0, <1>5, <1>9
<1> QED
  BY <1>1, <1>2, <1>6, <1>7, <1>8, <1>9

LEMMA CallersKept ==
    ASSUME CallersInv, UNCHANGED <<runState, cpc, crun, ctree, lpc>> PROVE CallersInv'
  BY DEF CallersInv

LEMMA StoreAside ==
    ASSUME TableInv, CallersInv, UNCHANGED <<tableVars, coordVars>>,
           \/ \E o \in Ops : DeadlinePasses(o) \/ Notify(o) \/ HostAnswer(o) \/ HostFinishes(o)
           \/ \E o \in HostOps : Register(o)
           \/ Expire
           \/ UNCHANGED storeVars
    PROVE  TableMove /\ Aside /\ CallersInv'
<1>1. CallersInv'
  BY CallersKept DEF tableVars, coordVars, loopVars
<1>2. \A o \in TaskOps : opState'[o] \in LiveStates => opState[o] \in LiveStates
  <2>1. \/ \E o \in Ops : DeadlinePasses(o) \/ NotifyWaiters(o) \/ AnswerStep(RunOf[o], o)
        \/ \E o \in HostOps : Register(o) \/ EffectStep(RunOf[o], o)
        \/ Expire
        \/ UNCHANGED opState
    BY DEF Notify, HostAnswer, HostFinishes, storeVars
  <2> QED
    BY <2>1, OperationsAside DEF TableInv, StoreInv
<1>3. Aside
  BY <1>2 DEF Aside, tableVars, Emitted
<1>4. StoreMove \/ UNCHANGED storeVars
  BY CoordFacts, CoordinatorAssumption DEF Notify, HostAnswer, HostFinishes, StoreMove
<1> QED
  BY <1>1, <1>3, <1>4 DEF TableMove, vars

LEMMA StreamsAside ==
    ASSUME TableInv, CallersInv, TurnStreams PROVE TableMove /\ Aside /\ CallersInv'
<1>1. /\ Emit(Run, "Progress") /\ UNCHANGED <<storeVars, coordVars, runState, callVars>>
      /\ EmitResult(Run, "Progress") = "Ok" /\ events' = Appended(Run, "Progress")
  BY DEF TurnStreams, Emit
<1>2. ActiveResult(Run) = "Ok" /\ "Progress" \in ProgressKinds /\ "Progress" \in EventKinds
  BY <1>1 DEF EmitResult, ProgressKinds, EventKinds
<1>3. /\ Emitted("ToolStarted")' = Emitted("ToolStarted")
      /\ Emitted("ToolFinished")' = Emitted("ToolFinished")
  BY <1>1, <1>2, EmittedOneMore DEF TableInv
<1>4. CallersInv'
  BY <1>1, CallersKept DEF callVars, coordVars, loopVars
<1> QED
  BY <1>1, <1>2, <1>3, <1>4 DEF TableMove, RecordMove, Aside, callVars, storeVars

LEMMA CancelAside ==
    ASSUME TableInv, CallersInv, Cancel(Host, Run), UNCHANGED coordVars
    PROVE  TableMove /\ Aside /\ CallersInv'
<1>1. /\ cpc[Host] = "idle" /\ ActiveResult(Run) = "Ok"
      /\ runState' = [runState EXCEPT ![Run] = "Cancelled"]
      /\ events' = Appended(Run, "Cancelled")
      /\ crun' = [crun EXCEPT ![Host] = Run] /\ cpc' = [cpc EXCEPT ![Host] = "cancelOps"]
      /\ UNCHANGED <<storeVars, cevent, ctodo, ctree>>
  BY DEF Cancel, CancelSet
<1>2. /\ TableTypeOK /\ LogAgreesWithState /\ "Cancelled" \in EventKinds
      /\ runState \in [Runs -> RunStates] /\ DOMAIN cpc = Callers /\ DOMAIN crun = Callers
  BY DEF TableInv, TableTypeOK, EventKinds, TerminalStates
<1>3. /\ Emitted("ToolStarted")' = Emitted("ToolStarted")
      /\ Emitted("ToolFinished")' = Emitted("ToolFinished")
  BY <1>1, <1>2, EmittedOneMore
<1>4. /\ runState'[Run] = "Cancelled" /\ cpc'[Host] = "cancelOps" /\ crun'[Host] = Run
      /\ \A c \in Callers \ {Host} : cpc'[c] = cpc[c] /\ crun'[c] = crun[c]
  BY <1>1, <1>2, CoordFacts
<1>5. CallersInv'
  BY <1>1, <1>4, CoordFacts DEF CallersInv, coordVars, loopVars
<1>6. Aside
  BY <1>1, <1>3, <1>4, CoordFacts DEF Aside, storeVars
<1> QED
  BY <1>5, <1>6 DEF TableMove

LEMMA CallerAside ==
    ASSUME TableInv, CallersInv, CallerStep(Host), UNCHANGED coordVars
    PROVE  TableMove /\ Aside /\ CallersInv'
<1>1. /\ DOMAIN cpc = Callers /\ DOMAIN crun = Callers /\ DOMAIN cevent = Callers
      /\ DOMAIN ctree = Callers /\ StoreTypeOK
      /\ cpc[Host] # "idle" => crun[Host] \in Runs
  BY CoordFacts DEF TableInv, TableTypeOK, StoreInv
<1>2. cpc[Host] \in {"idle", "cancelOps", "callHooks"} /\ ctree[Host] = {}
  BY CoordFacts DEF CallersInv
<1>3. \/ CancelOps(Host) \/ (\E h \in Hooks : CallHook(Host, h))
      \/ CancelReturn(Host) /\ Return(Host)
  BY <1>2 DEF CallerStep, FinishSet, FinishMark, TreeNext, TreeReturn, CancelReturn
<1>4. /\ UNCHANGED recVars
      /\ \E r \in Runs : CancelRun(r) \/ UNCHANGED storeVars
  BY <1>1, <1>3, CoordFacts DEF CancelOps, CallHook, CancelReturn
<1>5. \A c \in Callers \ {Host} : /\ cpc'[c] = cpc[c] /\ crun'[c] = crun[c]
                                  /\ cevent'[c] = cevent[c] /\ ctree'[c] = ctree[c]
  BY <1>1, <1>3 DEF CancelOps, CallHook, Return
<1>6. /\ cpc'[Host] \in {"idle", "callHooks"} /\ ctree'[Host] = {}
      /\ cpc'[Host] # "idle" => cpc[Host] # "idle" /\ crun'[Host] = crun[Host]
  BY <1>1, <1>2, <1>3, CoordFacts DEF CancelOps, CallHook, Return
<1>7. CallersInv'
  BY <1>4, <1>5, <1>6, CoordFacts DEF CallersInv, coordVars, loopVars, recVars
<1>8. \A o \in TaskOps : opState'[o] \in LiveStates => opState[o] \in LiveStates
  BY <1>1, <1>4, OperationsAside DEF storeVars
<1>9. Aside
  BY <1>4, <1>5, <1>8, CoordFacts DEF Aside, recVars, Emitted
<1> QED
  BY <1>7, <1>9 DEF TableMove

\* What everybody but the task does.
Elsewhere ==
    \/ TurnStreams \/ HostStep \/ HostGoesOn
    \/ \E o \in Ops : HostAnswer(o) \/ HostFinishes(o) \/ Notify(o)
    \/ UNCHANGED allVars

LEMMA ElsewhereAside ==
    ASSUME TableInv, CallersInv, Elsewhere PROVE TableMove /\ Aside /\ CallersInv'
<1>1. CASE HostStep
  BY <1>1, CancelAside, StoreAside DEF HostStep
<1>2. CASE HostGoesOn
  BY <1>2, CallerAside DEF HostGoesOn
<1>3. CASE \E o \in Ops : HostAnswer(o) \/ HostFinishes(o) \/ Notify(o)
  <2>1. UNCHANGED <<tableVars, coordVars>>
    BY <1>3 DEF HostAnswer, HostFinishes, Notify
  <2> QED
    BY <1>3, <2>1, StoreAside
<1>4. CASE UNCHANGED allVars
  <2>1. UNCHANGED <<tableVars, coordVars>> /\ UNCHANGED storeVars
    BY <1>4 DEF allVars, vars
  <2> QED
    BY <2>1, StoreAside
<1> QED
  BY <1>1, <1>2, <1>3, <1>4, StreamsAside DEF Elsewhere

LEMMA MoveKeeps ==
    ASSUME TableInv, AnswersFitMode, WaitInv, TableMove
    PROVE  /\ TableInv' /\ AnswersFitMode' /\ WaitInv' /\ StoreKeeps
           /\ IsTerminal(Run) => IsTerminal(Run)' /\ runState'[Run] = runState[Run]
<1>1. TableInv' /\ KeepsTheLog
  BY MoveTableInv
<1> QED
  BY <1>1, CoordFacts, MoveFitsMode, MoveWaits, MoveStoreKeeps DEF KeepsTheLog, IsTerminal

\* A slot that stays where it is, whatever happens to its operation.
LEMMA SlotKept ==
    ASSUME ControlInv, StoreKeeps, NEW k \in Slots, SlotOK(k),
           spc'[k] = spc[k], sop'[k] = sop[k], calls' = calls
    PROVE  SlotOK(k)'
<1>1. Policy(k)' = Policy(k) /\ Tool(k)' = Tool(k)
  BY DEF Policy, Tool
<1>2. sop[k] # NoOp => sop[k] \in Ops
  BY CoordFacts DEF ControlInv
<1>3. Covered(k) => Covered(k)'
  <2>1. <<"Approve">> # <<>> /\ <<"Commit">> # <<>>
    OBVIOUS
  <2> QED
    BY <1>1, <1>2, <2>1 DEF Covered, StoreKeeps
<1> QED
  BY <1>1, <1>2, <1>3 DEF SlotOK, StoreKeeps

LEMMA AsideInv ==
    ASSUME CoordInv, SameLimits, TableMove, Aside, CallersInv' PROVE CoordInv'
<1> USE DEF CoordInv
<1>1. /\ TableInv' /\ AnswersFitMode' /\ WaitInv' /\ StoreKeeps
      /\ IsTerminal(Run) => IsTerminal(Run)' /\ runState'[Run] = runState[Run]
  BY MoveKeeps
<1>2. UNCHANGED <<lpc, rounds, conts, calls, invocations, spc, sop, ledger, execs>>
  BY DEF Aside, coordVars, loopVars, slotVars
<1>3. ControlInv'
  BY <1>2 DEF ControlInv, Parallel, SameLimits
<1>4. SlotInv'
  BY <1>1, <1>2, SlotKept DEF SlotInv
<1>5. Following' => Following
  BY <1>2 DEF Following, Aside
<1>6. /\ ExecutionsSoFar' = ExecutionsSoFar
      /\ At(PaidSites)' = At(PaidSites) /\ At(ExecutingSites)' = At(ExecutingSites)
  BY <1>2 DEF ExecutionsSoFar, At
<1>7. CountInv'
  BY <1>2, <1>5, <1>6 DEF CountInv, Executions, Aside
<1>8. LedgerInv'
  BY <1>2, <1>5 DEF LedgerInv
<1>9. ~IsTerminal(Run)' => ~IsTerminal(Run) /\ runState'[Run] = runState[Run]
  BY <1>1 DEF Aside, IsTerminal, TerminalStates
<1>10. AwaitInv'
  BY <1>2, <1>9 DEF AwaitInv, Parallel
<1>11. OpenInv'
  <2>1. HostOps \subseteq Ops
    BY CoordinatorAssumption
  <2> QED
    BY <1>1, <1>2, <1>9, <2>1 DEF OpenInv, Aside, StoreKeeps
<1> QED
  BY <1>1, <1>3, <1>4, <1>7, <1>8, <1>10, <1>11

----------------------------------------------------------------------------
(* The steps of the loop.                                                  *)

\* The loop goes on by itself: neither the table nor a call has a part in it.
LoopAlone ==
    /\ UNCHANGED <<vars, calls, slotVars>>
    /\ rounds' \in 0..MaxRounds /\ conts' \in [Reasons -> Nat]
    /\ \A reason \in Reasons : conts'[reason] \in 0..DefaultLimit[reason]
    /\ \/ lpc \in {"top", "turn"} /\ lpc' \in {"top", "turn", "completed", "failed"}
       \/ lpc = "failed" /\ lpc' = "finishFailed"
       \/ lpc = "failed" /\ lpc' = "done" /\ IsCancelled(Run)

\* The loop begins to execute the calls of a turn.
LoopCalls(t) ==
    /\ lpc = "turn" /\ lpc' = "tools" /\ calls' = t.calls
    /\ \A k \in 1..Len(t.calls) : PolicyOf[t.calls[k].tool] # "Unregistered"
    /\ spc' = [k \in Slots |->
                  IF k <= Len(t.calls) /\ (k = 1 \/ Parallel(t.calls)) THEN "dispatch" ELSE "off"]
    /\ UNCHANGED <<vars, rounds, invocations, sop, ledger, execs>>
    /\ conts' \in [Reasons -> Nat]
    /\ \A reason \in Reasons : conts'[reason] \in 0..DefaultLimit[reason]

LEMMA LimitsAdd ==
    /\ \A reason \in Reasons : DefaultLimit[reason] \in Nat
    /\ \A n \in Nat : \A m \in 0..n : ~(m >= n) => m + 1 \in 0..n
  BY DEF DefaultLimit, Reasons

LEMMA TopAlone == ASSUME ControlInv, LoopTop PROVE LoopAlone
<1>1. lpc = "top" /\ UNCHANGED <<vars, conts, calls, slotVars>>
  BY DEF LoopTop
<1>2. rounds \in 0..MaxRounds /\ MaxRounds \in 0..U32Max /\ U32Max \in Nat
  BY LimitsType DEF ControlInv
<1>4. ~Reached(rounds, MaxRounds) => OneMore(rounds) \in 0..MaxRounds
  BY <1>2 DEF Reached, OneMore
<1>3. rounds' \in 0..MaxRounds /\ lpc' \in {"turn", "failed"}
  BY <1>2, <1>4 DEF LoopTop, ConsumeModelRound
<1> QED
  BY <1>1, <1>3 DEF LoopAlone, ControlInv

LEMMA TurnGoesOn ==
    ASSUME ControlInv, TurnReturns PROVE LoopAlone \/ \E t \in Turns : LoopCalls(t)
<1>1. PICK t \in Turns : Continues(t) \/ Replies(t) \/ CallsTools(t)
  BY DEF TurnReturns
<1>2. lpc = "turn" /\ UNCHANGED <<vars, rounds, invocations, sop, ledger, execs>>
  BY DEF TurnReturns
<1>3. /\ rounds \in 0..MaxRounds /\ conts \in [Reasons -> Nat]
      /\ \A reason \in Reasons : conts[reason] \in 0..DefaultLimit[reason]
  BY DEF ControlInv
<1>4. CASE Continues(t)
  <2>1. /\ t.terminal \in Reasons /\ UNCHANGED <<calls, spc>>
        /\ \/ lpc' \in {"top", "failed"} /\ conts' = conts
           \/ /\ lpc' = "top" /\ conts' = [conts EXCEPT ![t.terminal] = @ + 1]
              /\ ~(conts[t.terminal] >= DefaultLimit[t.terminal])
    BY <1>4 DEF Continues
  <2>2. \A reason \in Reasons : conts'[reason] \in 0..DefaultLimit[reason]
    <3> TAKE reason \in Reasons
    <3>1. CASE reason = t.terminal /\ conts' # conts
      <4>1. conts'[reason] \in {conts[reason], conts[reason] + 1}
        BY <1>3, <2>1, <3>1
      <4> QED
        BY <1>3, <2>1, <3>1, <4>1, LimitsAdd
    <3>2. CASE ~(reason = t.terminal /\ conts' # conts)
      <4>1. conts'[reason] = conts[reason]
        BY <1>3, <2>1, <3>2
      <4> QED
        BY <1>3, <4>1
    <3> QED
      BY <3>1, <3>2
  <2>3. conts' \in [Reasons -> Nat]
    BY <1>3, <2>1
  <2> QED
    BY <1>2, <1>3, <2>1, <2>2, <2>3 DEF LoopAlone, slotVars
<1>5. CASE Replies(t)
  BY <1>2, <1>3, <1>5 DEF Replies, LoopAlone, slotVars
<1>6. CASE CallsTools(t)
  <2>1. \A reason \in Reasons : conts'[reason] \in 0..DefaultLimit[reason]
    <3> TAKE reason \in Reasons
    <3>1. conts'[reason] \in {conts[reason], 0}
      BY <1>3, <1>6 DEF CallsTools
    <3>2. 0 \in 0..DefaultLimit[reason]
      BY LimitsAdd
    <3> QED
      BY <1>3, <3>1, <3>2
  <2>2. conts' \in [Reasons -> Nat]
    BY <1>3, <1>6 DEF CallsTools
  <2>3. CASE \E k \in 1..Len(t.calls) : PolicyOf[t.calls[k].tool] = "Unregistered"
    <3>1. lpc' = "failed" /\ UNCHANGED <<calls, spc>>
      BY <1>6, <2>3 DEF CallsTools
    <3> QED
      BY <1>2, <1>3, <2>1, <2>2, <3>1 DEF LoopAlone, slotVars
  <2>4. CASE ~(\E k \in 1..Len(t.calls) : PolicyOf[t.calls[k].tool] = "Unregistered")
    BY <1>2, <1>6, <2>1, <2>4, <2>2 DEF CallsTools, LoopCalls
  <2> QED
    BY <2>3, <2>4
<1> QED
  BY <1>1, <1>4, <1>5, <1>6

LEMMA FailsAlone == ASSUME ControlInv, TurnFails \/ FailedSnapshot PROVE LoopAlone
<1>1. CASE TurnFails
  BY <1>1 DEF TurnFails, LoopAlone, ControlInv
<1>2. CASE FailedSnapshot
  BY <1>2 DEF FailedSnapshot, GoOn, LoopAlone, ControlInv
<1> QED
  BY <1>1, <1>2

\* What the parts on the table and the store make of a step that leaves both.
LEMMA VarsKept ==
    ASSUME CoordInv, UNCHANGED vars
    PROVE  /\ TableMove /\ TableInv' /\ AnswersFitMode' /\ WaitInv' /\ StoreKeeps
           /\ runState' = runState /\ opState' = opState /\ answers' = answers
           /\ cpc' = cpc /\ crun' = crun /\ cevent' = cevent /\ ctree' = ctree
           /\ Emitted("ToolStarted")' = Emitted("ToolStarted")
           /\ Emitted("ToolFinished")' = Emitted("ToolFinished")
<1>1. TableMove
  BY DEF TableMove
<1> QED
  BY <1>1, MoveKeeps DEF CoordInv, vars, storeVars, tableVars, Emitted

LEMMA AloneInv == ASSUME CoordInv, SameLimits, LoopAlone PROVE CoordInv'
<1> USE DEF CoordInv
<1>1. UNCHANGED <<calls, invocations, spc, sop, ledger, execs, vars>>
  BY DEF LoopAlone, slotVars
<1>2. /\ TableInv' /\ AnswersFitMode' /\ WaitInv' /\ StoreKeeps
      /\ runState' = runState /\ opState' = opState
      /\ cpc' = cpc /\ crun' = crun /\ cevent' = cevent /\ ctree' = ctree
      /\ Emitted("ToolStarted")' = Emitted("ToolStarted")
      /\ Emitted("ToolFinished")' = Emitted("ToolFinished")
  BY <1>1, VarsKept
<1>3. /\ lpc \in {"top", "turn", "failed"}
      /\ lpc' \in {"top", "turn", "completed", "failed", "finishFailed", "done"}
      /\ lpc = "failed" => lpc' \in {"finishFailed", "done"}
      /\ lpc' = "done" => IsCancelled(Run)
  BY DEF LoopAlone
<1>4. ControlInv'
  <2>1. lpc' \in LoopSites
    BY <1>3 DEF LoopSites
  <2>2. /\ rounds' \in 0..MaxRounds /\ conts' \in [Reasons -> Nat]
        /\ \A reason \in Reasons : conts'[reason] \in 0..DefaultLimit[reason]
    BY DEF LoopAlone
  <2> QED
    BY <1>1, <1>3, <2>1, <2>2 DEF ControlInv, Parallel, SameLimits
<1>5. CallersInv'
  BY <1>2, <1>3 DEF CallersInv
<1>6. SlotInv'
  BY <1>1, <1>2, SlotKept DEF SlotInv
<1>7. Following' => Following
  BY <1>2, <1>3 DEF Following
<1>8. /\ ExecutionsSoFar' = ExecutionsSoFar
      /\ At(PaidSites)' = At(PaidSites) /\ At(ExecutingSites)' = At(ExecutingSites)
  BY <1>1 DEF ExecutionsSoFar, At
<1>9. CountInv'
  BY <1>1, <1>2, <1>3, <1>7, <1>8 DEF CountInv, Executions
<1>10. LedgerInv'
  BY <1>1, <1>3, <1>7 DEF LedgerInv
<1>11. AwaitInv'
  BY <1>1, <1>2, <1>3 DEF AwaitInv, Parallel, IsTerminal
<1>12. OpenInv'
  BY <1>1, <1>2, <1>3 DEF OpenInv, IsTerminal, IsCancelled, TerminalStates
<1> QED
  BY <1>2, <1>4, <1>5, <1>6, <1>9, <1>10, <1>11, <1>12

\* No slot is at one of the sites after the step.
LEMMA NoneLeft ==
    ASSUME NEW sites, \A k \in Slots : spc'[k] \notin sites
    PROVE  Cardinality(At(sites))' = 0
<1>1. At(sites)' = {}
  BY DEF At
<1> QED
  BY <1>1, FS_EmptySet

LEMMA CallsInv == ASSUME CoordInv, SameLimits, NEW t \in Turns, LoopCalls(t) PROVE CoordInv'
<1> USE DEF CoordInv
<1>1. /\ lpc = "turn" /\ lpc' = "tools" /\ calls' = t.calls
      /\ UNCHANGED <<vars, rounds, invocations, sop, ledger, execs>>
  BY DEF LoopCalls
<1>2. /\ TableInv' /\ AnswersFitMode' /\ WaitInv' /\ StoreKeeps
      /\ runState' = runState /\ opState' = opState
      /\ cpc' = cpc /\ crun' = crun /\ cevent' = cevent /\ ctree' = ctree
      /\ Emitted("ToolStarted")' = Emitted("ToolStarted")
      /\ Emitted("ToolFinished")' = Emitted("ToolFinished")
  BY <1>1, VarsKept
<1>3. \A k \in Slots : /\ spc'[k] \in {"off", "dispatch"} /\ sop'[k] = NoOp /\ sop[k] = NoOp
                       /\ spc[k] = "off"
                       /\ spc'[k] # "off" => k <= Len(calls') /\ (k = 1 \/ Parallel(calls'))
  BY <1>1 DEF LoopCalls, ControlInv
<1>4. ControlInv'
  <2>1. /\ calls' \in Seq([id : Ids, tool : Tools]) /\ Len(calls') <= MaxCalls
        /\ \A k \in 1..Len(calls') : PolicyOf[calls'[k].tool] # "Unregistered"
    BY <1>1, CoordinatorAssumption DEF LoopCalls
  <2>2. spc' \in [Slots -> SlotSites]
    BY DEF LoopCalls, SlotSites
  <2>3. ASSUME ~Parallel(calls'), NEW j \in Slots, NEW k \in Slots, j < k, spc'[k] # "off"
        PROVE  spc'[j] = "ok"
    <3>1. k = 1 /\ j \in Nat /\ j >= 1
      BY <1>3, <2>3, CoordinatorAssumption DEF Slots
    <3> QED
      BY <2>3, <3>1
  <2>4. (~Parallel(calls))' => ~Parallel(calls')
    BY DEF Parallel
  <2> QED
    BY <1>1, <1>3, <2>1, <2>2, <2>3, <2>4 DEF ControlInv, LoopCalls, LoopSites, SameLimits
<1>5. CallersInv'
  BY <1>1, <1>2 DEF CallersInv
<1>6. SlotInv'
  BY <1>3 DEF SlotInv, SlotOK, ExecutingSites
<1>7. Following
  BY <1>1 DEF Following
<1>8. /\ Cardinality(At(PaidSites))' = 0 /\ Cardinality(At(ExecutingSites))' = 0
      /\ ExecutionsSoFar' = ExecutionsSoFar
  BY <1>1, <1>3, NoneLeft DEF PaidSites, ExecutingSites, ExecutionsSoFar
<1>9. CountInv'
  <2>1. /\ Executions \in Nat /\ Executions' = Executions
        /\ Emitted("ToolFinished") \in Nat /\ invocations \in Nat
        /\ Cardinality(At(PaidSites)) \in Nat
    <3>1. IsFiniteSet(ExecutionsSoFar) /\ TableTypeOK /\ MaxInvocations \in 0..U32Max
          /\ invocations \in 0..MaxInvocations /\ U32Max \in Nat
      BY LimitsType DEF CountInv, TableInv, ControlInv
    <3>2. Executions \in Nat /\ Executions' = Executions
      BY <1>8, <3>1, FS_CardinalityType DEF Executions
    <3>3. Emitted("ToolFinished") \in Nat
      BY <3>1, EmittedType
    <3>4. Cardinality(At(PaidSites)) \in Nat
      BY SlotsFinite
    <3> QED
      BY <3>1, <3>2, <3>3, <3>4
  <2>2. invocations # U32Max => Executions + 0 <= invocations
    BY <2>1 DEF CountInv
  <2>3. Emitted("ToolStarted") = Emitted("ToolFinished") + 0
    BY <1>7, <2>1 DEF CountInv
  <2>4. ~\E k \in Slots : spc'[k] = "exec"
    BY <1>3
  <2> QED
    BY <1>1, <1>2, <1>7, <1>8, <2>1, <2>2, <2>3, <2>4 DEF CountInv
<1>10. LedgerInv'
  BY <1>1, <1>7 DEF LedgerInv
<1>11. AwaitInv'
  BY <1>1, <1>2, <1>3 DEF AwaitInv, IsTerminal
<1>12. OpenInv'
  BY <1>1, <1>2, <1>3, CoordFacts DEF OpenInv, IsTerminal, OpSites
<1> QED
  BY <1>2, <1>4, <1>5, <1>6, <1>9, <1>10, <1>11, <1>12

\* The calls of the turn are over: none is about to execute or executing.
LEMMA TurnOver ==
    ASSUME ControlInv, ToolsDone \/ ToolsFail
    PROVE  /\ \A k \in Slots : spc[k] \in {"off", "ok", "err"}
           /\ ToolsDone => \A k \in Slots : spc[k] # "err"
<1>1. /\ MaxCalls \in Nat /\ Len(calls) \in Nat /\ Len(calls) <= MaxCalls
      /\ \A k \in Slots : spc[k] # "off" => k \in 1..Len(calls)
  <2>1. MaxCalls \in Nat /\ Len(calls) \in Nat /\ Len(calls) <= MaxCalls
    BY CoordinatorAssumption DEF ControlInv
  <2> QED
    BY <2>1 DEF ControlInv, Slots
<1>2. CASE ToolsDone
  BY <1>1, <1>2 DEF ToolsDone
<1>3. CASE ToolsFail
  <2>1. PICK k \in 1..Len(calls) : spc[k] = "err"
    BY <1>3 DEF ToolsFail
  <2>2. CASE Parallel(calls)
    <3>1. ~ToolsDone
      BY <2>1 DEF ToolsDone
    <3> QED
      BY <1>1, <1>3, <2>2, <3>1 DEF ToolsFail, Over
  <2>3. CASE ~Parallel(calls)
    <3>1. ASSUME NEW j \in Slots PROVE spc[j] \in {"off", "ok", "err"}
      <4>1. k \in Slots /\ j \in Nat /\ k \in Nat
        BY <1>1, <2>1 DEF Slots
      <4>2. j < k \/ j = k \/ k < j
        BY <4>1
      <4> QED
        BY <2>1, <2>3, <4>1, <4>2 DEF ControlInv
    <3>2. ~ToolsDone
      BY <2>1 DEF ToolsDone
    <3> QED
      BY <3>1, <3>2
  <2> QED
    BY <2>2, <2>3
<1> QED
  BY <1>2, <1>3

LEMMA CountsType ==
    ASSUME TableInv, ControlInv, CountInv
    PROVE  /\ Executions \in Nat /\ invocations \in Nat
           /\ Emitted("ToolStarted") \in Nat /\ Emitted("ToolFinished") \in Nat
           /\ Cardinality(At(PaidSites)) \in Nat /\ Cardinality(At(ExecutingSites)) \in Nat
<1>1. IsFiniteSet(ExecutionsSoFar) /\ TableTypeOK /\ MaxInvocations \in 0..U32Max
      /\ invocations \in 0..MaxInvocations /\ U32Max \in Nat
  BY LimitsType DEF CountInv, TableInv, ControlInv
<1>2. Executions \in Nat
  BY <1>1, FS_CardinalityType DEF Executions
<1>3. Emitted("ToolFinished") \in Nat /\ Emitted("ToolStarted") \in Nat
  BY <1>1, EmittedType
<1>4. Cardinality(At(PaidSites)) \in Nat /\ Cardinality(At(ExecutingSites)) \in Nat
  BY SlotsFinite
<1> QED
  BY <1>1, <1>2, <1>3, <1>4

LEMMA LeaveInv == ASSUME CoordInv, SameLimits, ToolsDone \/ ToolsFail PROVE CoordInv'
<1> USE DEF CoordInv
<1>1. /\ lpc = "tools" /\ lpc' \in {"top", "failed"} /\ (lpc' = "top" => ToolsDone)
      /\ calls' = <<>>
      /\ spc' = [k \in Slots |-> "off"] /\ sop' = [k \in Slots |-> NoOp]
      /\ UNCHANGED <<vars, rounds, conts, invocations, ledger, execs>>
  BY DEF ToolsDone, ToolsFail, LeaveTools
<1>2. /\ TableInv' /\ AnswersFitMode' /\ WaitInv' /\ StoreKeeps
      /\ runState' = runState /\ opState' = opState
      /\ cpc' = cpc /\ crun' = crun /\ cevent' = cevent /\ ctree' = ctree
      /\ Emitted("ToolStarted")' = Emitted("ToolStarted")
      /\ Emitted("ToolFinished")' = Emitted("ToolFinished")
  BY <1>1, VarsKept
<1>3. /\ \A k \in Slots : spc[k] \in {"off", "ok", "err"}
      /\ lpc' = "top" => \A k \in Slots : spc[k] # "err"
  BY <1>1, TurnOver
<1>4. \A k \in Slots : spc'[k] = "off" /\ sop'[k] = NoOp
  BY <1>1
<1>5. ControlInv'
  <2>1. <<>> \in Seq([id : Ids, tool : Tools]) /\ Len(<<>>) = 0 /\ MaxCalls \in Nat
    BY CoordinatorAssumption
  <2>2. spc' \in [Slots -> SlotSites] /\ sop' \in [Slots -> TaskOps \union {NoOp}]
    BY <1>1 DEF SlotSites
  <2> QED
    BY <1>1, <1>4, <2>1, <2>2 DEF ControlInv, LoopSites, SameLimits
<1>6. CallersInv'
  BY <1>1, <1>2 DEF CallersInv
<1>7. SlotInv'
  BY <1>4 DEF SlotInv, SlotOK, ExecutingSites
<1>8. Following' => lpc' = "top"
  BY <1>1, <1>2 DEF Following, CallersInv
<1>9. /\ Cardinality(At(PaidSites))' = 0 /\ Cardinality(At(ExecutingSites))' = 0
      /\ ExecutionsSoFar' = ExecutionsSoFar
  BY <1>1, <1>4, NoneLeft DEF PaidSites, ExecutingSites, ExecutionsSoFar
<1>10. At(ExecutingSites) = {}
  BY <1>3 DEF At, ExecutingSites
<1>11. CountInv'
  <2>1. /\ Executions \in Nat /\ Executions' = Executions /\ invocations \in Nat
        /\ Emitted("ToolFinished") \in Nat /\ Cardinality(At(PaidSites)) \in Nat
    BY <1>9, CountsType DEF Executions
  <2>2. invocations # U32Max => Executions + 0 <= invocations
    BY <2>1 DEF CountInv
  <2>3. Following' => Emitted("ToolStarted") = Emitted("ToolFinished")
    <3>1. Cardinality(At(ExecutingSites)) = 0
      BY <1>10, FS_EmptySet
    <3>2. lpc' = "top" => Emitted("ToolStarted") = Emitted("ToolFinished") + 0
      BY <1>1, <1>3, <3>1 DEF CountInv
    <3> QED
      BY <1>8, <2>1, <3>2
  <2>4. ~\E k \in Slots : spc'[k] = "exec"
    BY <1>4
  <2> QED
    BY <1>1, <1>2, <1>9, <2>1, <2>2, <2>3, <2>4 DEF CountInv
<1>12. LedgerInv'
  BY <1>1, <1>3, <1>8 DEF LedgerInv, UnrecordedSites
<1>13. AwaitInv'
  BY <1>1, <1>2, <1>3, <1>4 DEF AwaitInv, IsTerminal
<1>14. OpenInv'
  BY <1>1, <1>2, <1>3 DEF OpenInv, IsTerminal, OpSites
<1> QED
  BY <1>2, <1>5, <1>6, <1>7, <1>11, <1>12, <1>13, <1>14

LEMMA NextCallInv == ASSUME CoordInv, SameLimits, NEW i \in Slots, NextCall(i) PROVE CoordInv'
<1> USE DEF CoordInv
<1> DEFINE k == i + 1
<1>1. /\ lpc = "tools" /\ ~Parallel(calls) /\ spc[i] = "ok" /\ i < Len(calls)
      /\ spc[k] = "off" /\ spc' = [spc EXCEPT ![k] = "dispatch"]
      /\ UNCHANGED <<vars, loopVars, invocations, sop, ledger, execs>>
  BY DEF NextCall
<1>2. k \in Slots /\ i \in Nat /\ k <= Len(calls)
  BY <1>1, CoordinatorAssumption DEF Slots, ControlInv
<1>3. /\ DOMAIN spc = Slots /\ spc'[k] = "dispatch" /\ \A j \in Slots \ {k} : spc'[j] = spc[j]
      /\ UNCHANGED <<lpc, rounds, conts, calls>>
  BY <1>1, <1>2 DEF ControlInv, loopVars
<1>4. /\ TableInv' /\ AnswersFitMode' /\ WaitInv' /\ StoreKeeps
      /\ runState' = runState /\ opState' = opState
      /\ cpc' = cpc /\ crun' = crun /\ cevent' = cevent /\ ctree' = ctree
      /\ Emitted("ToolStarted")' = Emitted("ToolStarted")
      /\ Emitted("ToolFinished")' = Emitted("ToolFinished")
  BY <1>1, VarsKept
<1> HIDE DEF k
<1>5. ControlInv'
  <2>1. spc' \in [Slots -> SlotSites]
    BY <1>1, <1>2 DEF ControlInv, SlotSites
  <2>2. ASSUME NEW j \in Slots, NEW l \in Slots, j < l, spc'[l] # "off" PROVE spc'[j] = "ok"
    <3>1. CASE l = k
      <4>1. j = i \/ j < i
        BY <1>2, <2>2, <3>1, CoordinatorAssumption DEF Slots, k
      <4>2. spc[j] = "ok" /\ j # k
        BY <1>1, <1>2, <2>2, <3>1, <4>1, CoordinatorAssumption DEF ControlInv, Slots
      <4> QED
        BY <1>3, <4>2
    <3>2. CASE l # k
      <4>1. spc[l] # "off" /\ spc[j] = "ok"
        BY <1>1, <1>3, <2>2, <3>2 DEF ControlInv
      <4> QED
        BY <1>1, <1>3, <4>1
    <3> QED
      BY <3>1, <3>2
  <2>3. \A l \in Slots : spc'[l] # "off" => l <= Len(calls)
    BY <1>2, <1>3 DEF ControlInv
  <2> QED
    BY <1>1, <1>3, <2>1, <2>2, <2>3 DEF ControlInv, SameLimits
<1>6. CallersInv'
  BY <1>3, <1>4 DEF CallersInv
<1>7. SlotInv'
  <2>1. ASSUME NEW j \in Slots PROVE SlotOK(j)'
    <3>1. CASE j # k
      BY <1>1, <1>3, <1>4, <3>1, SlotKept DEF SlotInv
    <3>2. CASE j = k
      BY <1>1, <1>3, <1>4, <3>2 DEF SlotInv, SlotOK, ExecutingSites, Policy, Tool
    <3> QED
      BY <3>1, <3>2
  <2> QED
    BY <2>1 DEF SlotInv
<1>8. Following' <=> Following
  BY <1>3, <1>4 DEF Following
<1>9. /\ At(PaidSites)' = At(PaidSites) /\ At(ExecutingSites)' = At(ExecutingSites)
      /\ ExecutionsSoFar' = ExecutionsSoFar
  BY <1>1, <1>3 DEF At, PaidSites, ExecutingSites, ExecutionsSoFar
<1>10. CountInv'
  <2>1. \A j \in Slots : /\ spc'[j] = "exec" <=> spc[j] = "exec"
                         /\ spc'[j] = "err" <=> spc[j] = "err"
    BY <1>1, <1>3
  <2> QED
    BY <1>1, <1>3, <1>4, <1>8, <1>9, <2>1 DEF CountInv, Executions
<1>11. LedgerInv'
  <2>1. \A j \in Slots : spc[j] \in UnrecordedSites \union {"err"} => spc'[j] = spc[j]
    BY <1>1, <1>3 DEF UnrecordedSites
  <2> QED
    BY <1>1, <1>3, <1>8, <2>1 DEF LedgerInv
<1>12. AwaitInv'
  BY <1>1, <1>3, <1>4 DEF AwaitInv, IsTerminal
<1>13. OpenInv'
  <2>1. \A j \in Slots : spc[j] \in OpSites => spc'[j] = spc[j]
    BY <1>1, <1>3 DEF OpSites
  <2> QED
    BY <1>1, <1>3, <1>4, <2>1 DEF OpenInv, IsTerminal
<1> QED
  BY <1>4, <1>5, <1>6, <1>7, <1>10, <1>11, <1>12, <1>13

----------------------------------------------------------------------------
(* The task ends its run.                                                  *)

\* The slots are done, nothing that counts is logged, and only a loop that
\* could complete the run before can complete it afterwards.
Ends ==
    /\ UNCHANGED <<rounds, conts, calls, slotVars>>
    /\ lpc \in {"completed", "finishFailed", "finishing"} /\ lpc' \in {"finishing", "done"}
    /\ Emitted("ToolStarted")' = Emitted("ToolStarted")
    /\ Emitted("ToolFinished")' = Emitted("ToolFinished")
    /\ Following' => Following

LEMMA CheckEnds ==
    ASSUME CoordInv, NEW site, NEW e, FinishCheck(Task, Run, e), GoOn("finishing"), lpc = site,
           \/ site = "completed" /\ e \in {"Completed", "Failed"}
           \/ site = "finishFailed" /\ e = "Failed"
    PROVE  TableMove /\ Ends /\ CallersInv' /\ OpenInv'
<1>1. /\ cpc[Task] = "idle" /\ NoLiveOps(Run) /\ lpc' = "finishing"
      /\ cpc' = [cpc EXCEPT ![Task] = "finishSet"] /\ crun' = [crun EXCEPT ![Task] = Run]
      /\ cevent' = [cevent EXCEPT ![Task] = e] /\ UNCHANGED <<rounds, conts, calls, slotVars>>
      /\ UNCHANGED <<storeVars, recVars, hookVars, chooks, ctodo, ctree>>
  BY DEF FinishCheck, GoOn
<1>2. DOMAIN cpc = Callers /\ DOMAIN crun = Callers /\ DOMAIN cevent = Callers
  BY DEF CoordInv, TableInv, TableTypeOK
<1>3. /\ cpc'[Task] = "finishSet" /\ crun'[Task] = Run /\ cevent'[Task] = e
      /\ \A c \in Callers \ {Task} : cpc'[c] = cpc[c] /\ crun'[c] = crun[c]
  BY <1>1, <1>2, CoordFacts
<1>4. runState' = runState /\ events' = events /\ opState' = opState
  BY <1>1 DEF recVars, storeVars
<1>5. CallersInv'
  BY <1>1, <1>3, <1>4, CoordFacts DEF CoordInv, CallersInv
<1>6. \A o \in TaskOps : opState[o] \notin LiveStates
  BY <1>1 DEF NoLiveOps, TaskOps
<1>7. OpenInv'
  BY <1>1, <1>4, <1>6 DEF OpenInv
<1>8. Following' => Following
  BY <1>1, <1>3, <1>4 DEF Following
<1>9. Ends
  BY <1>1, <1>4, <1>8 DEF Ends, Emitted
<1> QED
  BY <1>5, <1>7, <1>9 DEF TableMove

LEMMA RefusedEnds ==
    ASSUME CoordInv, ~NoLiveOps(Run), GoOn("done"), UNCHANGED vars,
           lpc \in {"completed", "finishFailed"}
    PROVE  TableMove /\ Ends /\ CallersInv' /\ OpenInv'
<1> USE DEF CoordInv
<1>1. lpc' = "done" /\ UNCHANGED <<rounds, conts, calls, slotVars>>
  BY DEF GoOn
<1>2. /\ TableMove /\ runState' = runState /\ opState' = opState
      /\ cpc' = cpc /\ crun' = crun /\ cevent' = cevent /\ ctree' = ctree
      /\ Emitted("ToolStarted")' = Emitted("ToolStarted")
      /\ Emitted("ToolFinished")' = Emitted("ToolFinished")
  BY VarsKept
<1>3. CallersInv'
  BY <1>1, <1>2 DEF CallersInv
<1>4. \A k \in Slots : spc[k] = "off"
  BY DEF ControlInv
<1>5. ~IsTerminal(Run) => \A o \in TaskOps : opState[o] \notin LiveStates
  BY <1>4 DEF OpenInv, OpSites
<1>6. IsTerminal(Run) \/ \E o \in HostOps : opState[o] # "Absent"
  <2>1. PICK o \in OpsOf(Run) : opState[o] \in LiveStates
    BY DEF NoLiveOps
  <2> QED
    BY <1>5, <2>1 DEF TaskOps, LiveStates
<1>7. OpenInv'
  BY <1>1, <1>2, <1>5, <1>6 DEF OpenInv, IsTerminal
<1>8. Following' => Following
  BY <1>1, <1>2 DEF Following
<1> QED
  BY <1>1, <1>2, <1>3, <1>7, <1>8 DEF Ends

LEMMA SetEnds ==
    ASSUME CoordInv, lpc = "finishing", FinishSet(Task),
           GoOn(IF cpc'[Task] = "idle" THEN "done" ELSE "finishing")
    PROVE  TableMove /\ Ends /\ CallersInv' /\ OpenInv'
<1> USE DEF CoordInv
<1>1. /\ cpc[Task] = "finishSet" /\ crun[Task] = Run /\ runState[Run] # "Absent"
      /\ UNCHANGED <<storeVars, rounds, conts, calls, slotVars>>
      /\ lpc' = IF cpc'[Task] = "idle" THEN "done" ELSE "finishing"
  BY CoordFacts DEF FinishSet, GoOn, CallersInv
<1>2. /\ DOMAIN cpc = Callers /\ DOMAIN crun = Callers /\ DOMAIN ctree = Callers
      /\ DOMAIN runState = Runs /\ cevent[Task] \in {"Completed", "Failed"}
      /\ TableTypeOK /\ LogAgreesWithState /\ {"Completed", "Failed"} \subseteq EventKinds
  BY <1>1, CoordFacts DEF TableInv, TableTypeOK, EventKinds, TerminalStates
<1>3. \A o \in TaskOps : opState[o] \notin LiveStates
  BY DEF OpenInv
<1>4. opState' = opState /\ TableMove
  BY <1>1 DEF storeVars, TableMove
<1>5. CASE ActiveResult(Run) = "Ok"
  <2>1. /\ runState' = [runState EXCEPT ![Run] = cevent[Task]]
        /\ events' = Appended(Run, cevent[Task])
        /\ cpc' = [cpc EXCEPT ![Task] = "finishMark"]
        /\ UNCHANGED <<crun, cevent, ctree>>
    BY <1>1, <1>5 DEF FinishSet
  <2>2. /\ cpc'[Task] = "finishMark" /\ lpc' = "finishing"
        /\ runState'[Run] = cevent[Task]
        /\ \A c \in Callers \ {Task} : cpc'[c] = cpc[c]
    BY <1>1, <1>2, <2>1, CoordFacts
  <2>3. /\ Emitted("ToolStarted")' = Emitted("ToolStarted")
        /\ Emitted("ToolFinished")' = Emitted("ToolFinished")
    BY <1>2, <1>5, <2>1, EmittedOneMore
  <2>4. CallersInv'
    BY <1>1, <1>2, <2>1, <2>2, CoordFacts DEF CallersInv
  <2>5. OpenInv'
    BY <1>2, <1>3, <1>4, <2>2 DEF OpenInv
  <2>6. Following' => Following
    BY <2>1, <2>2 DEF Following
  <2> QED
    BY <1>1, <1>4, <2>2, <2>3, <2>4, <2>5, <2>6 DEF Ends
<1>6. CASE ActiveResult(Run) # "Ok"
  <2>1. Return(Task) /\ UNCHANGED recVars
    BY <1>1, <1>6 DEF FinishSet
  <2>2. /\ cpc'[Task] = "idle" /\ lpc' = "done" /\ ctree'[Task] = {}
        /\ \A c \in Callers \ {Task} : cpc'[c] = cpc[c] /\ crun'[c] = crun[c] /\ ctree'[c] = ctree[c]
    BY <1>1, <1>2, <2>1, CoordFacts DEF Return
  <2>3. IsTerminal(Run) /\ IsTerminal(Run)' /\ runState' = runState /\ events' = events
    BY <1>1, <1>6, <2>1 DEF ActiveResult, IsTerminal, recVars
  <2>4. CallersInv'
    BY <1>1, <2>2, <2>3, CoordFacts DEF CallersInv
  <2>5. OpenInv'
    BY <1>3, <1>4, <2>2, <2>3 DEF OpenInv
  <2>6. Following' => Following
    BY <2>2, <2>3 DEF Following
  <2> QED
    BY <1>1, <1>4, <2>2, <2>3, <2>4, <2>5, <2>6 DEF Ends, Emitted
<1> QED
  BY <1>5, <1>6

LEMMA MarkEnds ==
    ASSUME CoordInv, lpc = "finishing", FinishMark(Task), GoOn("done")
    PROVE  TableMove /\ Ends /\ CallersInv' /\ OpenInv'
<1> USE DEF CoordInv
<1>1. /\ cpc[Task] = "finishMark" /\ crun[Task] = Run /\ CancelRun(Run) /\ Return(Task)
      /\ UNCHANGED <<recVars, rounds, conts, calls, slotVars>> /\ lpc' = "done"
  BY CoordFacts DEF FinishMark, GoOn, CallersInv
<1>2. /\ DOMAIN cpc = Callers /\ DOMAIN crun = Callers /\ DOMAIN ctree = Callers
      /\ StoreTypeOK
  BY DEF TableInv, TableTypeOK, StoreInv
<1>3. /\ cpc'[Task] = "idle" /\ ctree'[Task] = {}
      /\ \A c \in Callers \ {Task} : cpc'[c] = cpc[c] /\ crun'[c] = crun[c] /\ ctree'[c] = ctree[c]
  BY <1>1, <1>2, CoordFacts DEF Return
<1>4. IsTerminal(Run) /\ IsTerminal(Run)' /\ runState' = runState /\ events' = events
  BY <1>1, CoordFacts DEF TableInv, StoreFollowsTable, Ending, recVars, IsTerminal
<1>5. CallersInv'
  BY <1>1, <1>3, <1>4, CoordFacts DEF CallersInv
<1>6. \A o \in TaskOps : opState[o] \notin LiveStates /\ opState'[o] \notin LiveStates
  BY <1>1, <1>2, CoordFacts, OperationsAside DEF OpenInv
<1>7. OpenInv'
  BY <1>4, <1>6 DEF OpenInv
<1>8. Following' => Following
  BY <1>1, <1>4 DEF Following
<1> QED
  BY <1>1, <1>4, <1>5, <1>7, <1>8 DEF Ends, Emitted, TableMove

LEMMA EndsInv ==
    ASSUME CoordInv, SameLimits, TableMove, Ends, CallersInv', OpenInv' PROVE CoordInv'
<1> USE DEF CoordInv
<1>1. TableInv' /\ AnswersFitMode' /\ WaitInv' /\ StoreKeeps
  BY MoveKeeps
<1>2. /\ UNCHANGED <<rounds, conts, calls, invocations, spc, sop, ledger, execs>>
      /\ lpc \in {"completed", "finishFailed", "finishing"} /\ lpc' \in {"finishing", "done"}
      /\ Emitted("ToolStarted")' = Emitted("ToolStarted")
      /\ Emitted("ToolFinished")' = Emitted("ToolFinished")
      /\ Following' => Following
  BY DEF Ends, slotVars
<1>3. ControlInv'
  <2>1. lpc' \in LoopSites
    BY <1>2 DEF LoopSites
  <2> QED
    BY <1>2, <2>1 DEF ControlInv, Parallel, SameLimits
<1>4. SlotInv'
  BY <1>1, <1>2, SlotKept DEF SlotInv
<1>5. /\ ExecutionsSoFar' = ExecutionsSoFar
      /\ At(PaidSites)' = At(PaidSites) /\ At(ExecutingSites)' = At(ExecutingSites)
  BY <1>2 DEF ExecutionsSoFar, At
<1>6. CountInv'
  BY <1>2, <1>5 DEF CountInv, Executions
<1>7. LedgerInv'
  BY <1>2 DEF LedgerInv
<1>8. AwaitInv'
  <2>1. \A k \in Slots : spc'[k] = "off"
    BY <1>2 DEF ControlInv
  <2> QED
    BY <1>2, <2>1 DEF AwaitInv
<1> QED
  BY <1>1, <1>3, <1>4, <1>6, <1>7, <1>8

LEMMA EndInv ==
    ASSUME CoordInv, SameLimits,
           \/ \E e \in {"Completed", "Failed"} : FinishRun("completed", e)
           \/ FinishRun("finishFailed", "Failed")
           \/ Finishing
    PROVE  CoordInv'
<1>1. ASSUME NEW site, NEW e, FinishRun(site, e),
             \/ site = "completed" /\ e \in {"Completed", "Failed"}
             \/ site = "finishFailed" /\ e = "Failed"
      PROVE  TableMove /\ Ends /\ CallersInv' /\ OpenInv'
  BY <1>1, CheckEnds, RefusedEnds DEF FinishRun
<1>2. CASE Finishing
  BY <1>2, SetEnds, MarkEnds, EndsInv DEF Finishing
<1>3. CASE FinishRun("finishFailed", "Failed")
  BY <1>1, <1>3, EndsInv
<1>4. ASSUME NEW e \in {"Completed", "Failed"}, FinishRun("completed", e) PROVE CoordInv'
  <2>1. TableMove /\ Ends /\ CallersInv' /\ OpenInv'
    BY <1>1, <1>4
  <2> QED
    BY <2>1, EndsInv
<1> QED
  BY <1>2, <1>3, <1>4

----------------------------------------------------------------------------
(* A step of a slot.                                                       *)

SlotMove(k, to) == SlotTask(k, to) /\ SlotRun(k, to) /\ SlotStore(k, to)

LEMMA SlotFrame ==
    ASSUME ControlInv, NEW k \in Slots, NEW to, SlotTask(k, to)
    PROVE  /\ spc'[k] = to /\ \A j \in Slots \ {k} : spc'[j] = spc[j]
           /\ spc[k] \notin {"off", "ok", "err"} /\ to \in SlotSites \ {"off"}
           /\ lpc = "tools" /\ UNCHANGED <<lpc, rounds, conts, calls>>
           /\ k \in 1..Len(calls) /\ Id(k) \in Ids /\ Id(k)' = Id(k)
           /\ \A j \in Slots \ {k} : sop'[j] = sop[j]
           /\ spc[k] # "register" => sop'[k] = sop[k]
           /\ ~Parallel(calls) => \A j \in Slots \ {k} : spc[j] \in {"off", "ok"}
<1>1. /\ spc' = [spc EXCEPT ![k] = to] /\ Edge(spc[k], to) /\ DOMAIN spc = Slots
      /\ lpc = "tools" /\ UNCHANGED <<lpc, rounds, conts, calls>>
      /\ DOMAIN sop = Slots
  BY DEF SlotTask, loopVars, ControlInv
<1>2. spc[k] \notin {"off", "ok", "err"} /\ to \in SlotSites \ {"off"}
  BY <1>1 DEF Edge, SlotSites, BetweenAwaits
<1>3. k \in 1..Len(calls) /\ Id(k) \in Ids
  BY <1>2, SlotCalls
<1>4. ASSUME ~Parallel(calls), NEW j \in Slots, j # k PROVE spc[j] \in {"off", "ok"}
  <2>1. j < k \/ k < j
    BY <1>4, CoordinatorAssumption DEF Slots
  <2> QED
    BY <1>2, <1>4, <2>1 DEF ControlInv
<1>5. /\ \A j \in Slots \ {k} : sop'[j] = sop[j]
      /\ spc[k] # "register" => sop'[k] = sop[k]
  BY <1>1 DEF SlotTask
<1>6. spc'[k] = to /\ \A j \in Slots \ {k} : spc'[j] = spc[j]
  BY <1>1
<1> QED
  BY <1>1, <1>2, <1>3, <1>4, <1>5, <1>6 DEF Id

LEMMA SlotControl ==
    ASSUME ControlInv, SameLimits, NEW k \in Slots, NEW to, SlotTask(k, to) PROVE ControlInv'
<1>1. /\ spc'[k] = to /\ \A j \in Slots \ {k} : spc'[j] = spc[j]
      /\ spc[k] \notin {"off", "ok", "err"} /\ to \in SlotSites \ {"off"}
      /\ lpc = "tools" /\ UNCHANGED <<lpc, rounds, conts, calls>>
      /\ k \in 1..Len(calls) /\ Id(k) \in Ids
      /\ ~Parallel(calls) => \A j \in Slots \ {k} : spc[j] \in {"off", "ok"}
  BY SlotFrame
<1>2. spc' \in [Slots -> SlotSites]
  BY <1>1 DEF SlotTask, ControlInv
<1>3. sop' \in [Slots -> TaskOps \union {NoOp}]
  <2>1. CASE spc[k] = "register"
    <3>1. PICK o \in FreshOps(k) : sop' = [sop EXCEPT ![k] = o]
      BY <2>1 DEF SlotTask
    <3>2. o \in TaskOps
      BY <3>1 DEF FreshOps, TaskOps, OpsOf
    <3> QED
      BY <3>1, <3>2 DEF ControlInv
  <2>2. CASE spc[k] # "register"
    BY <2>2 DEF SlotTask, ControlInv
  <2> QED
    BY <2>1, <2>2
<1>4. invocations' \in 0..MaxInvocations
  <2>1. invocations \in 0..MaxInvocations /\ MaxInvocations \in 0..U32Max /\ U32Max \in Nat
    BY LimitsType DEF ControlInv
  <2>2. \/ invocations' = invocations
        \/ invocations' = invocations + 1 /\ invocations' <= MaxInvocations
    BY DEF SlotTask
  <2> QED
    BY <2>1, <2>2
<1>5. ledger' \subseteq Ids /\ execs' \in [Ids -> Nat]
  BY <1>1 DEF SlotTask, ControlInv
<1>6. \A j \in Slots : spc'[j] # "off" => j <= Len(calls)
  BY <1>1 DEF ControlInv
<1>7. ASSUME ~Parallel(calls), NEW i \in Slots, NEW j \in Slots, i < j, spc'[j] # "off"
      PROVE  spc'[i] = "ok"
  <2>1. CASE j = k
    <3>1. spc[i] = "ok" /\ i # k
      BY <1>1, <1>7, <2>1, CoordinatorAssumption DEF ControlInv, Slots
    <3> QED
      BY <1>1, <3>1
  <2>2. CASE j # k
    <3>1. spc[j] # "off" /\ spc[i] = "ok"
      BY <1>1, <1>7, <2>2 DEF ControlInv
    <3> QED
      BY <1>1, <3>1
  <2> QED
    BY <2>1, <2>2
<1>8. (~Parallel(calls))' <=> ~Parallel(calls)
  BY <1>1 DEF Parallel
<1> QED
  BY <1>1, <1>2, <1>3, <1>4, <1>5, <1>6, <1>7, <1>8 DEF ControlInv, SameLimits

LEMMA SlotCallers ==
    ASSUME ControlInv, CallersInv, NEW k \in Slots, NEW to, SlotTask(k, to), SlotRun(k, to),
           runState \in [Runs -> RunStates]
    PROVE  CallersInv'
<1>1. runState'[Run] \in {runState[Run], "AwaitingOperation", "Running"}
  BY CoordFacts DEF SlotRun
<1>2. UNCHANGED <<cpc, crun, ctree, lpc>> /\ lpc = "tools"
  BY SlotFrame DEF SlotRun, callVars
<1> QED
  BY <1>1, <1>2 DEF CallersInv

\* What a slot comes to know of its operation.
LEMMA SlotKnows ==
    ASSUME CoordInv, StoreKeeps, NEW k \in Slots, NEW to, SlotMove(k, to)
    PROVE  SlotInv'
<1> USE DEF CoordInv
<1>1. /\ spc'[k] = to /\ \A j \in Slots \ {k} : spc'[j] = spc[j]
      /\ UNCHANGED calls /\ \A j \in Slots \ {k} : sop'[j] = sop[j]
      /\ spc[k] # "register" => sop'[k] = sop[k]
  BY SlotFrame DEF SlotMove
<1>2. \A j \in Slots \ {k} : SlotOK(j)'
  BY <1>1, SlotKept DEF SlotInv
<1>3. SlotOK(k) /\ Edge(spc[k], to) /\ Policy(k)' = Policy(k) /\ Tool(k)' = Tool(k)
  BY <1>1 DEF SlotInv, SlotMove, SlotTask, Policy, Tool
<1>4. to = "register" => Policy(k) = "RequireApproval"
  BY <1>3 DEF SlotMove, SlotTask, Edge
<1>5. /\ sop'[k] # NoOp => /\ Policy(k) = "RequireApproval"
                           /\ ModeOf[sop'[k]] = AskMode[Tool(k)]
      /\ spc[k] = "register" => sop'[k] # NoOp /\ sop'[k] \in Ops
  <2>1. CASE spc[k] = "register"
    <3>1. PICK o \in FreshOps(k) : sop' = [sop EXCEPT ![k] = o]
      BY <2>1 DEF SlotMove, SlotTask
    <3>2. sop'[k] = o /\ o \in Ops /\ ModeOf[o] = AskMode[Tool(k)]
      BY <3>1 DEF FreshOps, ControlInv
    <3> QED
      BY <1>3, <2>1, <3>2, CoordFacts DEF SlotOK
  <2>2. CASE spc[k] # "register"
    BY <1>1, <1>3, <2>2 DEF SlotOK
  <2> QED
    BY <2>1, <2>2
<1>6. to \in {"awaiting", "request", "wait", "waiting"} =>
          sop'[k] # NoOp /\ opState'[sop'[k]] \in States
  <2>1. CASE to = "awaiting"
    <3>1. opState'[sop'[k]] = "Pending" /\ spc[k] = "register"
      BY <1>3, <2>1 DEF SlotMove, SlotStore, Edge
    <3> QED
      BY <1>5, <3>1 DEF States, LiveStates
  <2>2. CASE to \in {"request", "wait", "waiting"}
    <3>1. spc[k] \in {"awaiting", "request", "wait", "waiting"}
      BY <1>3, <2>2 DEF Edge
    <3>2. sop'[k] = sop[k] /\ sop[k] # NoOp /\ opState[sop[k]] \in States /\ sop[k] \in Ops
      BY <1>1, <1>3, <3>1, SlotOperation DEF SlotOK
    <3> QED
      BY <3>2 DEF StoreKeeps
  <2> QED
    BY <2>1, <2>2
<1>7. Covered(k) /\ sop'[k] = sop[k] => Covered(k)'
  <2>1. <<"Approve">> # <<>> /\ <<"Commit">> # <<>>
    OBVIOUS
  <2>2. sop[k] # NoOp => sop[k] \in Ops
    BY SlotOperation
  <2> QED
    BY <1>3, <2>1, <2>2 DEF Covered, StoreKeeps
<1>8. to \in {"start"} \union (ExecutingSites \ {"finish"}) => Covered(k)'
  <2>1. CASE spc[k] = "dispatch" /\ to = "start"
    BY <1>3, <2>1 DEF SlotMove, SlotTask, Covered
  <2>2. CASE spc[k] = "waiting" /\ to = "start"
    <3>1. wout[sop[k]] = "Approve" /\ sop'[k] = sop[k] /\ sop[k] # NoOp
      BY <1>1, <1>3, <2>2 DEF SlotMove, SlotStore, SlotOK
    <3>2. /\ sop[k] \in Ops /\ ModeOf[sop[k]] = AskMode[Tool(k)]
          /\ Policy(k) = "RequireApproval"
      BY <3>1, SlotOperation
    <3>3. answers[sop[k]] \in {<<"Approve">>, <<"Commit">>}
      BY <3>1, <3>2, ToldTheAnswer
    <3>4. /\ answers[sop[k]] = <<"Approve">> => ModeOf[sop[k]] = "BlockingApproval"
          /\ answers[sop[k]] = <<"Commit">> => ModeOf[sop[k]] = "DeferredCommit"
      BY <3>2 DEF AnswersFitMode
    <3>5. answers[sop[k]] = IF AskMode[Tool(k)] = "BlockingApproval" THEN <<"Approve">>
                                                                     ELSE <<"Commit">>
      BY <3>2, <3>3, <3>4
    <3>6. Covered(k)
      BY <3>1, <3>2, <3>5 DEF Covered
    <3> QED
      BY <1>7, <3>1, <3>6
  <2>3. CASE spc[k] \in {"start"} \union (ExecutingSites \ {"finish"})
    <3>1. Covered(k) /\ sop'[k] = sop[k]
      BY <1>1, <1>3, <2>3 DEF SlotOK, ExecutingSites
    <3> QED
      BY <1>7, <3>1
  <2> QED
    BY <1>3, <2>1, <2>2, <2>3 DEF Edge, ExecutingSites
<1>9. SlotOK(k)'
  BY <1>1, <1>3, <1>4, <1>5, <1>6, <1>8 DEF SlotOK
<1> QED
  BY <1>2, <1>9 DEF SlotInv

LEMMA SlotFollowing ==
    ASSUME ControlInv, CallersInv, NEW k \in Slots, NEW to, SlotMove(k, to),
           runState \in [Runs -> RunStates]
    PROVE  ~Following /\ ~Following'
<1>1. lpc = "tools" /\ lpc' = "tools"
  BY SlotFrame DEF SlotMove
<1>2. runState[Run] # "Completed" /\ runState'[Run] # "Completed"
  BY <1>1, CoordFacts DEF CallersInv, SlotMove, SlotRun
<1> QED
  BY <1>1, <1>2 DEF Following

LEMMA BudgetSum ==
    ASSUME NEW e \in Nat, NEW p \in Nat, NEW i \in Nat, e + p <= i,
           NEW e1, NEW p1 \in Nat, NEW i1,
           \/ e1 = e + 1 /\ p = p1 + 1 /\ i1 = i
           \/ e1 = e /\ p1 = p + 1 /\ i1 = i + 1
           \/ e1 = e /\ (p1 = p \/ p = p1 + 1) /\ i1 \in {i, i + 1}
    PROVE  e1 + p1 <= i1
  OBVIOUS

\* No execution without its announcement and its place in the budget.
LEMMA SlotCounts ==
    ASSUME CoordInv, NEW k \in Slots, NEW to, SlotMove(k, to)
    PROVE  CountInv'
<1> USE DEF CoordInv
<1>1. /\ spc'[k] = to /\ \A j \in Slots \ {k} : spc'[j] = spc[j]
      /\ spc[k] \notin {"off", "ok", "err"}
      /\ lpc = "tools" /\ UNCHANGED <<lpc, calls>> /\ Id(k) \in Ids
  BY SlotFrame DEF SlotMove
<1>2. Edge(spc[k], to) /\ spc' = [spc EXCEPT ![k] = to] /\ DOMAIN spc = Slots
      /\ \A j \in Slots \ {k} : spc[j] # "exec"
  BY DEF SlotMove, SlotTask, ControlInv, BetweenAwaits
<1>3. ~Following /\ ~Following'
  BY SlotFollowing DEF TableInv, TableTypeOK
<1> DEFINE E == Executions
           S == Emitted("ToolStarted")
           F == Emitted("ToolFinished")
           P == Cardinality(At(PaidSites))
           X == Cardinality(At(ExecutingSites))
<1>4. /\ E \in Nat /\ S \in Nat /\ F \in Nat /\ P \in Nat /\ X \in Nat /\ invocations \in Nat
      /\ E <= S /\ (spc[k] = "exec" => E < S) /\ (invocations # U32Max => E + P <= invocations)
  BY CountsType DEF CountInv
<1>5. /\ IsFiniteSet(ExecutionsSoFar)'
      /\ E' = IF to = "running" THEN E + 1 ELSE E
  <2>1. CASE to = "running"
    <3>1. execs' = [execs EXCEPT ![Id(k)] = @ + 1] /\ execs \in [Ids -> Nat]
      BY <2>1 DEF SlotMove, SlotTask, ControlInv
    <3> QED
      BY <1>1, <2>1, <3>1, ExecutionsOneMore DEF CountInv
  <2>2. CASE to # "running"
    <3>1. ExecutionsSoFar' = ExecutionsSoFar
      BY <2>2 DEF SlotMove, SlotTask, ExecutionsSoFar
    <3> QED
      BY <2>2, <3>1 DEF Executions, CountInv
  <2> QED
    BY <2>1, <2>2
<1>6. /\ S' = IF to = "exec" \/ (spc[k] = "invalidStart" /\ to = "finish") THEN S + 1 ELSE S
      /\ F' = IF spc[k] = "finish" /\ to = "ok" THEN F + 1 ELSE F
  BY DEF SlotMove, SlotRun
<1>7. /\ P' \in Nat
      /\ (spc[k] \in PaidSites <=> to \in PaidSites) => P' = P
      /\ spc[k] \in PaidSites /\ to \notin PaidSites => P = P' + 1
      /\ spc[k] \notin PaidSites /\ to \in PaidSites => P' = P + 1
  BY <1>2, SlotsMove
<1>8. /\ X' \in Nat
      /\ (spc[k] \in ExecutingSites <=> to \in ExecutingSites) => X' = X
      /\ spc[k] \in ExecutingSites /\ to \notin ExecutingSites => X = X' + 1
      /\ spc[k] \notin ExecutingSites /\ to \in ExecutingSites => X' = X + 1
  BY <1>2, SlotsMove
<1>9. /\ invocations' \in {invocations, invocations + 1}
      /\ spc[k] # "dispatch" => invocations' = invocations
      /\ spc[k] = "dispatch" /\ to # "err" =>
             invocations' = invocations + 1 \/ invocations' = U32Max
      /\ invocations = U32Max => invocations' = U32Max
  BY DEF SlotMove, SlotTask
<1>10. (\A j \in Slots : spc'[j] # "err") => to # "err" /\ S = F + X
  <2>1. ASSUME \A j \in Slots : spc'[j] # "err" PROVE \A j \in Slots : spc[j] # "err"
    BY <1>1, <2>1
  <2> QED
    BY <1>1, <2>1 DEF CountInv
<1>11. (\E j \in Slots : spc'[j] = "exec") => to = "exec"
  BY <1>1, <1>2
<1>12. E' <= S' /\ (to = "exec" => E' < S')
  <2>1. CASE to = "running"
    <3>1. spc[k] = "exec"
      BY <1>2, <2>1 DEF Edge
    <3> HIDE DEF E, S
    <3> QED
      BY <1>4, <1>5, <1>6, <2>1, <3>1
  <2>2. CASE to # "running"
    <3> HIDE DEF E, S
    <3> QED
      BY <1>4, <1>5, <1>6, <2>2
  <2> QED
    BY <2>1, <2>2
<1>13. ASSUME invocations' # U32Max PROVE E' + P' <= invocations'
  <2>1. /\ to = "running" => spc[k] \in PaidSites /\ to \notin PaidSites /\ spc[k] # "dispatch"
        /\ spc[k] \notin PaidSites /\ to \in PaidSites => spc[k] = "dispatch" /\ to # "err"
    BY <1>2 DEF Edge, PaidSites
  <2>2. \/ E' = E + 1 /\ P = P' + 1 /\ invocations' = invocations
        \/ E' = E /\ P' = P + 1 /\ invocations' = invocations + 1
        \/ E' = E /\ (P' = P \/ P = P' + 1) /\ invocations' \in {invocations, invocations + 1}
    BY <1>5, <1>7, <1>9, <1>13, <2>1
  <2>3. E \in Nat /\ P \in Nat /\ P' \in Nat /\ invocations \in Nat /\ E + P <= invocations
    BY <1>4, <1>7, <1>9, <1>13
  <2> HIDE DEF E, P
  <2> QED
    BY <2>2, <2>3, BudgetSum
<1>14. to # "err" /\ S = F + X => S' = F' + X'
  <2>1. ASSUME to # "err"
        PROVE  /\ spc[k] \notin ExecutingSites /\ to \in ExecutingSites <=>
                      to = "exec" \/ (spc[k] = "invalidStart" /\ to = "finish")
               /\ spc[k] \in ExecutingSites /\ to \notin ExecutingSites <=>
                      spc[k] = "finish" /\ to = "ok"
    BY <1>2, <2>1 DEF Edge, ExecutingSites
  <2> HIDE DEF S, F, X
  <2>2. ASSUME to # "err", S = F + X, spc[k] \notin ExecutingSites, to \in ExecutingSites
        PROVE  S' = F' + X'
    <3>1. S' = S + 1 /\ F' = F /\ X' = X + 1
      BY <1>6, <1>8, <2>1, <2>2 DEF ExecutingSites
    <3> QED
      BY <1>4, <2>2, <3>1
  <2>3. ASSUME to # "err", S = F + X, spc[k] \in ExecutingSites, to \notin ExecutingSites
        PROVE  S' = F' + X'
    <3>1. S' = S /\ F' = F + 1 /\ X = X' + 1
      BY <1>6, <1>8, <2>1, <2>3
    <3> QED
      BY <1>4, <1>8, <2>3, <3>1
  <2>4. ASSUME to # "err", S = F + X, spc[k] \in ExecutingSites <=> to \in ExecutingSites
        PROVE  S' = F' + X'
    <3>1. S' = S /\ F' = F /\ X' = X
      BY <1>6, <1>8, <2>1, <2>4
    <3> QED
      BY <2>4, <3>1
  <2> QED
    BY <2>2, <2>3, <2>4
<1> QED
  BY <1>1, <1>3, <1>5, <1>10, <1>11, <1>12, <1>13, <1>14 DEF CountInv

\* An execution is at its call until its result is on record.
LEMMA SlotLedger ==
    ASSUME CoordInv, NEW k \in Slots, NEW to, SlotMove(k, to)
    PROVE  LedgerInv'
<1> USE DEF CoordInv
<1>1. /\ spc'[k] = to /\ \A j \in Slots \ {k} : spc'[j] = spc[j]
      /\ lpc = "tools" /\ UNCHANGED <<lpc, calls>> /\ Id(k) \in Ids
  BY SlotFrame DEF SlotMove
<1>2. ~Following /\ ~Following'
  BY SlotFollowing DEF TableInv, TableTypeOK
<1>3. /\ Edge(spc[k], to) /\ execs \in [Ids -> Nat]
      /\ ledger' = IF spc[k] = "record" THEN ledger \union {Id(k)} ELSE ledger
      /\ execs' = IF to = "running" THEN [execs EXCEPT ![Id(k)] = @ + 1] ELSE execs
  BY DEF SlotMove, SlotTask, ControlInv
<1>4. ASSUME NEW id \in Ids, execs'[id] > 0, id \notin ledger'
      PROVE  \E j \in Slots : spc'[j] \in UnrecordedSites \union {"err"} /\ calls[j].id = id
  <2>1. CASE to = "running" /\ id = Id(k)
    BY <1>1, <2>1 DEF UnrecordedSites, Id
  <2>2. CASE ~(to = "running" /\ id = Id(k))
    <3>1. execs[id] > 0 /\ id \notin ledger
      BY <1>1, <1>3, <1>4, <2>2
    <3>2. PICK j \in Slots : spc[j] \in UnrecordedSites \union {"err"} /\ calls[j].id = id
      BY <1>1, <3>1 DEF LedgerInv
    <3>3. j = k => to \in UnrecordedSites \union {"err"} \/ spc[k] = "record"
      BY <1>3, <3>2 DEF Edge, UnrecordedSites
    <3>4. spc[k] = "record" => id # Id(k)
      BY <1>3, <1>4
    <3>5. j = k => to \in UnrecordedSites \union {"err"}
      BY <3>2, <3>3, <3>4 DEF Id
    <3> QED
      BY <1>1, <3>2, <3>5
  <2> QED
    BY <2>1, <2>2
<1> QED
  BY <1>1, <1>2, <1>4 DEF LedgerInv

LEMMA SlotAwaits ==
    ASSUME CoordInv, NEW k \in Slots, NEW to, SlotMove(k, to),
           IsTerminal(Run) => IsTerminal(Run)'
    PROVE  AwaitInv'
<1> USE DEF CoordInv
<1>1. /\ spc'[k] = to /\ \A j \in Slots \ {k} : spc'[j] = spc[j]
      /\ spc[k] \notin {"off", "ok", "err"}
      /\ lpc = "tools" /\ UNCHANGED <<lpc, calls>>
      /\ ~Parallel(calls) => \A j \in Slots \ {k} : spc[j] \in {"off", "ok"}
  BY SlotFrame DEF SlotMove
<1>2. Edge(spc[k], to)
  BY DEF SlotMove, SlotTask
<1>3. runState'[Run] = IF to = "request" THEN "AwaitingOperation"
                       ELSE IF spc[k] = "waiting" /\ to \in {"start", "ok"} THEN "Running"
                       ELSE runState[Run]
  BY CoordFacts DEF SlotMove, SlotRun, TableInv, TableTypeOK
<1>4. ASSUME ~IsTerminal(Run)', runState'[Run] = "AwaitingOperation"
      PROVE  \E j \in Slots : spc'[j] \in {"request", "wait", "waiting", "err"}
  <2>1. CASE to = "request"
    BY <1>1, <2>1
  <2>2. CASE to # "request"
    <3>1. /\ runState[Run] = "AwaitingOperation" /\ ~IsTerminal(Run)
          /\ ~(spc[k] = "waiting" /\ to \in {"start", "ok"})
      BY <1>3, <1>4, <2>2
    <3>2. PICK j \in Slots : spc[j] \in {"request", "wait", "waiting", "err"}
      BY <1>1, <3>1 DEF AwaitInv
    <3>3. j = k => to \in {"wait", "waiting", "err"}
      BY <1>1, <1>2, <3>1, <3>2 DEF Edge
    <3> QED
      BY <1>1, <3>2, <3>3
  <2> QED
    BY <2>1, <2>2
<1>5. ASSUME ~IsTerminal(Run)', ~Parallel(calls), NEW j \in Slots,
             spc'[j] \in {"request", "wait", "waiting"}
      PROVE  runState'[Run] = "AwaitingOperation"
  <2>1. j = k
    BY <1>1, <1>5
  <2>2. CASE to = "request"
    BY <1>3, <2>2
  <2>3. CASE to \in {"wait", "waiting"}
    <3>1. spc[k] \in {"request", "wait", "waiting"}
      BY <1>2, <2>3 DEF Edge
    <3> QED
      BY <1>3, <1>5, <2>3, <3>1 DEF AwaitInv
  <2> QED
    BY <1>1, <1>5, <2>1, <2>2, <2>3
<1>6. (~Parallel(calls))' <=> ~Parallel(calls)
  BY <1>1 DEF Parallel
<1> QED
  BY <1>1, <1>4, <1>5, <1>6 DEF AwaitInv

LEMMA SlotOpens ==
    ASSUME CoordInv, NEW k \in Slots, NEW to, SlotMove(k, to),
           IsTerminal(Run) => IsTerminal(Run)'
    PROVE  OpenInv'
<1> USE DEF CoordInv
<1>1. /\ spc'[k] = to /\ \A j \in Slots \ {k} : spc'[j] = spc[j]
      /\ lpc = "tools" /\ lpc' = lpc /\ \A j \in Slots \ {k} : sop'[j] = sop[j]
      /\ spc[k] # "register" => sop'[k] = sop[k]
  BY SlotFrame DEF SlotMove
<1>2. runState'[Run] \notin {"Completed", "Failed"}
  BY <1>1, CoordFacts DEF SlotMove, SlotRun, TableInv, TableTypeOK, CallersInv
<1>3. ASSUME ~IsTerminal(Run)', NEW o \in TaskOps, opState'[o] \in LiveStates
      PROVE  \E j \in Slots : sop'[j] = o /\ spc'[j] \in OpSites
  <2>1. CASE to = "awaiting" /\ o = sop'[k]
    BY <1>1, <2>1 DEF OpSites
  <2>2. CASE ~(to = "awaiting" /\ o = sop'[k])
    <3>1. opState[o] \in LiveStates
      BY <1>3, <2>2 DEF SlotMove, SlotStore
    <3>2. PICK j \in Slots : sop[j] = o /\ spc[j] \in OpSites
      BY <1>3, <3>1 DEF OpenInv
    <3>3. CASE j = k
      <4>1. sop'[k] = o /\ sop[k] = o /\ o # NoOp
        BY <1>1, <3>2, <3>3, CoordFacts DEF OpSites
      <4>2. to \in OpSites
        BY <1>3, <3>2, <3>3, <4>1 DEF SlotMove, SlotStore
      <4> QED
        BY <1>1, <4>1, <4>2
    <3>4. CASE j # k
      BY <1>1, <3>2, <3>4
    <3> QED
      BY <3>3, <3>4
  <2> QED
    BY <2>1, <2>2
<1> QED
  BY <1>1, <1>2, <1>3 DEF OpenInv

LEMMA SlotStepInv ==
    ASSUME CoordInv, SameLimits, NEW k \in Slots, SlotStep(k) \/ ExecutionOver(k)
    PROVE  CoordInv' /\ SlotMove(k, spc'[k])
<1>1. /\ TableInv /\ ControlInv /\ CallersInv /\ SlotInv /\ WaitInv /\ AnswersFitMode
      /\ runState[Run] # "Absent" /\ runState \in [Runs -> RunStates]
  BY DEF CoordInv, CallersInv, TableInv, TableTypeOK
<1>2. SlotMove(k, spc'[k])
  BY <1>1, SlotTaskStep, SlotRunStep, SlotStoreStep DEF SlotMove
<1>3. TableMove
  BY <1>1, SlotTableMove
<1>4. /\ TableInv' /\ AnswersFitMode' /\ WaitInv' /\ StoreKeeps
      /\ IsTerminal(Run) => IsTerminal(Run)'
  BY <1>1, <1>3, MoveKeeps
<1>5. ControlInv' /\ CallersInv'
  BY <1>1, <1>2, SlotControl, SlotCallers DEF SlotMove
<1> QED
  BY <1>2, <1>4, <1>5, SlotKnows, SlotCounts, SlotLedger, SlotAwaits, SlotOpens DEF CoordInv

----------------------------------------------------------------------------
(* The theorems.                                                           *)

LEMMA CoordinatorInitInv == CoordinatorInit => CoordInv
<1> SUFFICES ASSUME CoordinatorInit PROVE CoordInv
  OBVIOUS
<1>1. /\ StoreInv /\ runState = [r \in Runs |-> "Running"]
      /\ events = [r \in Runs |-> <<[seq |-> 1, kind |-> "RunStarted"]>>]
      /\ hooks = {} /\ called = [h \in Hooks |-> 0]
      /\ cpc = [c \in Callers |-> "idle"] /\ crun = [c \in Callers |-> NoRun]
      /\ cevent = [c \in Callers |-> "None"] /\ chooks = [c \in Callers |-> {}]
      /\ ctodo = [c \in Callers |-> {}] /\ ctree = [c \in Callers |-> {}]
  BY StoreInitInv DEF CoordinatorInit
<1>2. /\ opState = [o \in Ops |-> "Absent"] /\ answers = [o \in Ops |-> <<>>]
      /\ wpc = [o \in Ops |-> "idle"] /\ terminalRuns = {}
  BY CoordFacts DEF CoordinatorInit, StoreInit
<1>3. /\ lpc = "top" /\ rounds = 0 /\ invocations = 0 /\ conts = [reason \in Reasons |-> 0]
      /\ calls = <<>> /\ spc = [k \in Slots |-> "off"] /\ sop = [k \in Slots |-> NoOp]
      /\ ledger = {} /\ execs = [id \in Ids |-> 0]
  BY DEF CoordinatorInit
<1>4. TableInv
  <2> DEFINE started == [seq |-> 1, kind |-> "RunStarted"]
  <2>1. started \in Event /\ <<started>> \in Seq(Event) /\ "RunStarted" \notin TerminalStates
    BY DEF Event, EventKinds, TerminalStates
  <2>2. Len(<<started>>) = 1 /\ <<started>>[1] = started /\ <<started>> # <<>>
    OBVIOUS
  <2>3. "Running" \in RunStates /\ "Running" \notin TerminalStates
    BY DEF RunStates, ActiveStates, TerminalStates
  <2>4. \A r \in Runs : events[r] = <<started>> /\ runState[r] = "Running"
    BY <1>1
  <2>5. TableTypeOK
    BY <1>1, <2>1, <2>3 DEF TableTypeOK, CallSites
  <2>6. LogAgreesWithState
    <3> SUFFICES ASSUME NEW r \in Runs
                 PROVE  /\ events[r] # <<>>
                        /\ events[r][1].kind = "RunStarted"
                        /\ \A i \in 1..Len(events[r]) : events[r][i].seq = i
                        /\ \A i \in 1..Len(events[r]) - 1 : events[r][i].kind \notin TerminalStates
                        /\ ~IsTerminal(r) /\ LastEvent(r).kind \notin TerminalStates
      BY DEF LogAgreesWithState
    <3> HIDE DEF started
    <3>1. started.seq = 1 /\ started.kind = "RunStarted"
      BY DEF started
    <3>2. events[r] = <<started>> /\ Len(events[r]) = 1 /\ events[r][1] = started
          /\ events[r] # <<>>
      BY <2>2, <2>4
    <3>3. 1..1 = {1} /\ 1..1 - 1 = {}
      OBVIOUS
    <3>4. ~IsTerminal(r) /\ LastEvent(r) = started
      BY <2>3, <2>4, <3>2 DEF IsTerminal, LastEvent
    <3> QED
      BY <2>1, <3>1, <3>2, <3>3, <3>4
  <2>7. StoreFollowsTable
    BY <1>1, <1>2, <2>3, <2>4 DEF StoreFollowsTable, IsTerminal, Ending
  <2>8. HooksFollowCancel /\ TreeIsCancelled
    BY <1>1, <2>4, TableAssumption DEF HooksFollowCancel, TreeIsCancelled, IsCancelled
  <2> QED
    BY <1>1, <2>5, <2>6, <2>7, <2>8 DEF TableInv
<1>5. ControlInv
  <2>1. /\ <<>> \in Seq([id : Ids, tool : Tools]) /\ Len(<<>>) = 0
        /\ MaxCalls \in Nat /\ limits \in Limits /\ 0 \in 0..MaxRounds /\ 0 \in 0..MaxInvocations
    BY CoordinatorAssumption, LimitsType DEF CoordinatorInit
  <2>2. \A reason \in Reasons : conts[reason] \in 0..DefaultLimit[reason]
    BY <1>3, LimitsAdd
  <2>3. spc \in [Slots -> SlotSites] /\ sop \in [Slots -> TaskOps \union {NoOp}]
    BY <1>3 DEF SlotSites
  <2> QED
    BY <1>3, <2>1, <2>2, <2>3 DEF ControlInv, LoopSites
<1>6. CallersInv
  BY <1>1, <1>3, CoordFacts DEF CallersInv
<1>7. AnswersFitMode /\ WaitInv
  <2>1. <<>> # <<"Approve">> /\ <<>> # <<"Commit">>
    OBVIOUS
  <2> QED
    BY <1>2, <2>1, CoordFacts DEF AnswersFitMode, WaitInv
<1>8. SlotInv
  BY <1>3 DEF SlotInv, SlotOK, ExecutingSites
<1>9. CountInv
  <2>1. ExecutionsSoFar = {}
    BY <1>3 DEF ExecutionsSoFar
  <2>2. At(PaidSites) = {} /\ At(ExecutingSites) = {}
    BY <1>3 DEF At, PaidSites, ExecutingSites
  <2>3. \A kind \in {"ToolStarted", "ToolFinished"} : Emitted(kind) = 0
    <3> TAKE kind \in {"ToolStarted", "ToolFinished"}
    <3>1. events[Run] = <<[seq |-> 1, kind |-> "RunStarted"]>>
      BY <1>1, CoordFacts
    <3>2. \A i \in 1..Len(events[Run]) : events[Run][i].kind = "RunStarted"
      BY <3>1
    <3>3. {i \in 1..Len(events[Run]) : events[Run][i].kind = kind} = {}
      BY <3>2
    <3> QED
      BY <3>3, FS_EmptySet DEF Emitted
  <2>4. IsFiniteSet(ExecutionsSoFar) /\ Executions = 0 /\ Cardinality(At(PaidSites)) = 0
    BY <2>1, <2>2, FS_EmptySet DEF Executions
  <2> QED
    BY <1>3, <2>3, <2>4 DEF CountInv
<1>10. LedgerInv /\ AwaitInv
  BY <1>1, <1>3, CoordFacts DEF LedgerInv, AwaitInv
<1>11. OpenInv
  BY <1>1, <1>2, <1>3, CoordFacts DEF OpenInv, LiveStates
<1> QED
  BY <1>4, <1>5, <1>6, <1>7, <1>8, <1>9, <1>10, <1>11 DEF CoordInv

\* Every step is one of a slot, one that begins a turn's calls, one of the
\* loop or one that happens elsewhere.
LEMMA CoordinatorSteps ==
    ASSUME ControlInv, [CoordinatorNext]_<<allVars, limits>>
    PROVE  \/ \E k \in Slots : SlotStep(k) \/ ExecutionOver(k)
           \/ \E t \in Turns : LoopCalls(t)
           \/ LoopAlone \/ ToolsDone \/ ToolsFail
           \/ \E k \in Slots : NextCall(k)
           \/ \E e \in {"Completed", "Failed"} : FinishRun("completed", e)
           \/ FinishRun("finishFailed", "Failed") \/ Finishing
           \/ Elsewhere
  BY TopAlone, TurnGoesOn, FailsAlone DEF CoordinatorNext, LoopStep, TurnStep, Elsewhere

LEMMA CoordinatorNextInv ==
    ASSUME CoordInv, [CoordinatorNext]_<<allVars, limits>> PROVE CoordInv'
<1>3. SameLimits
  BY DEF CoordinatorNext, SameLimits, MaxRounds, MaxInvocations
<1>1. TableInv /\ ControlInv /\ CallersInv
  BY DEF CoordInv
<1>2. Elsewhere => CoordInv'
  BY <1>1, <1>3, ElsewhereAside, AsideInv
<1> QED
  BY <1>1, <1>2, <1>3, CoordinatorSteps, SlotStepInv, CallsInv, AloneInv, LeaveInv, NextCallInv, EndInv

\* The inductive invariant of the task, its run table and its store.
THEOREM CoordinatorSafety == CoordinatorSpec => []CoordInv
<1>1. CoordInv /\ [CoordinatorNext]_<<allVars, limits>> => CoordInv'
  BY CoordinatorNextInv
<1> QED
  BY <1>1, CoordinatorInitInv, PTL DEF CoordinatorSpec

\* Every variable keeps to its type.
THEOREM CoordinatorTypes == CoordinatorSpec => []CoordinatorTypeOK
<1>1. CoordInv => CoordinatorTypeOK
  <2> SUFFICES ASSUME CoordInv PROVE CoordinatorTypeOK
    OBVIOUS
  <2>1. TypeOK
    BY DEF CoordInv, TableInv, StoreInv, TypeOK
  <2>2. sop \in [Slots -> Ops \union {NoOp}]
    BY CoordFacts DEF CoordInv, ControlInv
  <2> QED
    BY <2>1, <2>2 DEF CoordInv, ControlInv, CoordinatorTypeOK
<1> QED
  BY <1>1, CoordinatorSafety, PTL

\* A tool executes only under a policy that allows it or on a host's answer
\* to the operation of that very call; every execution was announced in the
\* log and counted before, as far as the count goes; and none of the limits
\* that are not disabled is passed.
THEOREM EveryExecutionIsCovered == CoordinatorSpec => []ExecutionsAreCovered
<1>1. CoordInv => ExecutionsAreCovered
  <2> SUFFICES ASSUME CoordInv PROVE ExecutionsAreCovered
    OBVIOUS
  <2>1. ExecutesWithApproval
    BY DEF CoordInv, SlotInv, SlotOK, Covered, ExecutesWithApproval
  <2>2. ExecutionsAnnouncedAndPaid
    <3>1. /\ Executions \in Nat /\ Cardinality(At(PaidSites)) \in Nat /\ invocations \in Nat
          /\ Executions <= Emitted("ToolStarted")
          /\ invocations # U32Max => Executions + Cardinality(At(PaidSites)) <= invocations
      BY CountsType DEF CoordInv, CountInv
    <3> QED
      BY <3>1 DEF ExecutionsAnnouncedAndPaid
  <2>3. LimitsAreKept
    <3>1. U32Max \in Nat /\ MaxRounds \in 0..U32Max /\ MaxInvocations \in 0..U32Max
      BY LimitsType DEF CoordInv, ControlInv
    <3>2. \A reason \in Reasons : DefaultLimit[reason] \in Nat
      BY LimitsAdd
    <3>3. rounds \in 0..MaxRounds /\ invocations \in 0..MaxInvocations
      BY DEF CoordInv, ControlInv
    <3>4. Executions \in Nat /\ (Executions <= invocations \/ invocations = U32Max)
      BY <2>2, CountsType DEF CoordInv, ExecutionsAnnouncedAndPaid
    <3>5. \A reason \in Reasons : conts[reason] <= DefaultLimit[reason]
      BY <3>2 DEF CoordInv, ControlInv
    <3>6. MaxInvocations # U32Max => invocations <= MaxInvocations /\ Executions <= MaxInvocations
      BY <3>1, <3>3, <3>4
    <3> QED
      BY <3>1, <3>3, <3>5, <3>6 DEF LimitsAreKept
  <2> QED
    BY <2>1, <2>2, <2>3 DEF ExecutionsAreCovered
<1> QED
  BY <1>1, CoordinatorSafety, PTL

\* A round is over only with every result on record and every start in the
\* log followed up; while calls are made one after the other the state of the
\* run tells who is awaited; and a task that is over leaves neither its run
\* nor an operation open, but for what the code leaves to hosts.
THEOREM NothingIsLeftOpen == CoordinatorSpec => []NothingStaysOpen
<1>1. CoordInv => NothingStaysOpen
  <2> SUFFICES ASSUME CoordInv PROVE NothingStaysOpen
    OBVIOUS
  <2> USE DEF CoordInv
  <2>1. NothingLeftBehind
    BY DEF NothingLeftBehind, CountInv, LedgerInv, Following, ControlInv
  <2>2. StateSaysWhoIsAwaited
    <3> SUFFICES ASSUME ~IsTerminal(Run), ~Parallel(calls)
                 PROVE  /\ (\E k \in Slots : spc[k] = "waiting") =>
                               runState[Run] = "AwaitingOperation"
                        /\ lpc \in {"top", "turn", "completed"} => runState[Run] = "Running"
                        /\ \A k \in Slots : spc[k] \in ExecutingSites => runState[Run] = "Running"
      BY DEF StateSaysWhoIsAwaited
    <3>1. runState[Run] \in {"Running", "AwaitingOperation"}
      BY CoordFacts DEF TableInv, TableTypeOK, RunStates, ActiveStates, IsTerminal, CallersInv
    <3>2. (\E k \in Slots : spc[k] = "waiting") => runState[Run] = "AwaitingOperation"
      BY DEF AwaitInv
    <3>3. lpc \in {"top", "turn", "completed"} => runState[Run] = "Running"
      BY <3>1 DEF AwaitInv
    <3>4. ASSUME NEW k \in Slots, spc[k] \in ExecutingSites, runState[Run] = "AwaitingOperation"
          PROVE  FALSE
      <4>1. lpc = "tools"
        BY <3>4 DEF ControlInv, ExecutingSites
      <4>2. PICK j \in Slots : spc[j] \in {"request", "wait", "waiting", "err"}
        BY <3>4, <4>1 DEF AwaitInv
      <4>3. /\ spc[k] # "off" /\ spc[k] # "ok" /\ spc[j] # "off" /\ spc[j] # "ok" /\ j # k
        BY <3>4, <4>2 DEF ExecutingSites
      <4>4. j < k \/ k < j
        BY <4>3, CoordinatorAssumption DEF Slots
      <4> QED
        BY <4>3, <4>4 DEF ControlInv
    <3> QED
      BY <3>1, <3>2, <3>3, <3>4
  <2>3. TaskLeavesNothingOpen
    <3> SUFFICES ASSUME lpc = "done", cpc[Host] = "idle", NEW o \in TaskOps
                 PROVE  /\ opState[o] \notin {"Pending", "Approved"}
                        /\ opState[o] = "Committing" => IsCancelled(Run)
      BY DEF TaskLeavesNothingOpen, OpenInv, TaskOps
    <3>1. \A k \in Slots : spc[k] = "off"
      BY DEF ControlInv
    <3>2. CASE ~IsTerminal(Run)
      BY <3>1, <3>2 DEF OpenInv, OpSites, LiveStates
    <3>3. CASE IsTerminal(Run)
      <4>1. \A c \in Callers : ~Ending(c, Run)
        BY DEF CallersInv, Ending
      <4>2. opState[o] \notin {"Pending", "Approved"}
        BY <3>3, <4>1, CoordFacts DEF TableInv, StoreFollowsTable, TaskOps
      <4>3. runState[Run] \in {"Completed", "Failed"} => opState[o] \notin LiveStates
        BY DEF OpenInv
      <4> QED
        BY <3>3, <4>2, <4>3 DEF IsTerminal, TerminalStates, IsCancelled, LiveStates
    <3> QED
      BY <3>2, <3>3
  <2> QED
    BY <2>1, <2>2, <2>3 DEF NothingStaysOpen
<1> QED
  BY <1>1, CoordinatorSafety, PTL

----------------------------------------------------------------------------
(* At most one execution of an invocation.                                 *)

\* A call that gets past the ledger is the first of its invocation, and so
\* is one that executes, if the calls of a turn tell themselves apart.
LEMMA SlotOnce ==
    ASSUME CoordInv, OnceInv, NEW k \in Slots, NEW to, SlotMove(k, to)
    PROVE  OnceInv'
<1> USE DEF CoordInv
<1>1. /\ spc'[k] = to /\ \A j \in Slots \ {k} : spc'[j] = spc[j]
      /\ spc[k] \notin {"off", "ok", "err"}
      /\ lpc = "tools" /\ UNCHANGED calls /\ k \in 1..Len(calls) /\ Id(k) \in Ids
      /\ ~Parallel(calls) => \A j \in Slots \ {k} : spc[j] \in {"off", "ok"}
  BY SlotFrame DEF SlotMove
<1>2. /\ Edge(spc[k], to) /\ execs \in [Ids -> Nat]
      /\ execs' = IF to = "running" THEN [execs EXCEPT ![Id(k)] = @ + 1] ELSE execs
      /\ spc[k] = "dispatch" /\ to \in PaidSites => Id(k) \notin ledger
  BY DEF SlotMove, SlotTask, ControlInv
<1>3. ASSUME NEW j \in Slots, j # k, spc[j] \notin {"off", "ok"} PROVE calls[j].id # Id(k)
  <2>1. Parallel(calls) /\ j \in 1..Len(calls)
    BY <1>1, <1>3, SlotCalls
  <2> QED
    BY <1>1, <1>3, <2>1 DEF OnceInv, Id
<1>4. spc[k] = "dispatch" /\ to \in PaidSites => execs[Id(k)] = 0
  <2> SUFFICES ASSUME spc[k] = "dispatch", to \in PaidSites, execs[Id(k)] # 0 PROVE FALSE
    OBVIOUS
  <2>1. execs[Id(k)] > 0 /\ Id(k) \notin ledger
    BY <1>1, <1>2
  <2>2. PICK j \in Slots : spc[j] \in UnrecordedSites \union {"err"} /\ calls[j].id = Id(k)
    BY <1>1, <2>1 DEF LedgerInv
  <2>3. j # k /\ spc[j] \notin {"off", "ok"}
    BY <2>2 DEF UnrecordedSites
  <2> QED
    BY <1>3, <2>2, <2>3
<1>5. to = "running" => execs[Id(k)] = 0 /\ execs'[Id(k)] = 1
  BY <1>1, <1>2 DEF Edge, OnceInv, PaidSites, Id
<1>6. \A id \in Ids : execs'[id] = execs[id] \/ (to = "running" /\ id = Id(k))
  BY <1>1, <1>2
<1>7. \A id \in Ids : execs'[id] <= 1
  BY <1>5, <1>6 DEF OnceInv
<1>8. ASSUME NEW j \in Slots, spc'[j] \in PaidSites PROVE execs'[calls[j].id] = 0
  <2>1. CASE j = k
    <3>1. to \in PaidSites /\ to # "running"
      BY <1>1, <1>8, <2>1 DEF PaidSites
    <3>2. spc[k] \in PaidSites \union {"dispatch"}
      BY <1>2, <3>1 DEF Edge, PaidSites
    <3>3. execs[Id(k)] = 0
      BY <1>4, <3>1, <3>2 DEF OnceInv, Id
    <3> QED
      BY <1>2, <2>1, <3>1, <3>3 DEF Id
  <2>2. CASE j # k
    <3>1. spc[j] \in PaidSites /\ spc[j] \notin {"off", "ok"}
      BY <1>1, <1>8, <2>2 DEF PaidSites
    <3>2. calls[j].id # Id(k) /\ calls[j].id \in Ids /\ execs[calls[j].id] = 0
      BY <1>3, <2>2, <3>1, SlotCalls DEF OnceInv, Id
    <3> QED
      BY <1>6, <3>2
  <2> QED
    BY <2>1, <2>2
<1>9. Parallel(calls)' <=> Parallel(calls)
  BY <1>1 DEF Parallel
<1> QED
  BY <1>1, <1>7, <1>8, <1>9 DEF OnceInv

LEMMA OnceNext ==
    ASSUME NoTwins, CoordInv, OnceInv, [CoordinatorNext]_<<allVars, limits>> PROVE OnceInv'
<1> USE DEF CoordInv
<1>1. ASSUME NEW k \in Slots, SlotStep(k) \/ ExecutionOver(k) PROVE OnceInv'
  <2>1. SameLimits
    BY DEF CoordinatorNext, SameLimits, MaxRounds, MaxInvocations
  <2> QED
    BY <1>1, <2>1, SlotStepInv, SlotOnce
<1>2. ASSUME NEW t \in Turns, LoopCalls(t) PROVE OnceInv'
  <2>1. /\ calls' = t.calls /\ execs' = execs
        /\ \A k \in Slots : spc'[k] \in {"off", "dispatch"}
    BY <1>2 DEF LoopCalls
  <2> QED
    BY <2>1 DEF OnceInv, NoTwins, PaidSites, Parallel
<1>3. ASSUME UNCHANGED <<calls, execs, spc>> PROVE OnceInv'
  BY <1>3 DEF OnceInv, Parallel
<1>4. CASE LoopAlone
  BY <1>3, <1>4 DEF LoopAlone, slotVars
<1>5. CASE ToolsDone \/ ToolsFail
  <2>1. /\ calls' = <<>> /\ execs' = execs /\ \A k \in Slots : spc'[k] = "off"
    BY <1>5 DEF ToolsDone, ToolsFail, LeaveTools
  <2>2. ~Parallel(<<>>)
    BY DEF Parallel
  <2> QED
    BY <2>1, <2>2 DEF OnceInv, PaidSites, Parallel
<1>6. ASSUME NEW i \in Slots, NextCall(i) PROVE OnceInv'
  <2>1. /\ spc' = [spc EXCEPT ![i + 1] = "dispatch"] /\ UNCHANGED <<calls, execs>>
    BY <1>6 DEF NextCall, loopVars
  <2>2. \A j \in Slots : spc'[j] \in PaidSites => spc[j] \in PaidSites
    BY <2>1 DEF PaidSites, ControlInv
  <2> QED
    BY <2>1, <2>2 DEF OnceInv, Parallel
<1>7. CASE \/ \E e \in {"Completed", "Failed"} : FinishRun("completed", e)
           \/ FinishRun("finishFailed", "Failed") \/ Finishing
  BY <1>3, <1>7 DEF FinishRun, Finishing, GoOn, slotVars
<1>8. CASE Elsewhere
  <2>1. UNCHANGED coordVars
    BY <1>8, ElsewhereAside DEF Aside
  <2> QED
    BY <1>3, <2>1 DEF coordVars, loopVars, slotVars
<1> QED
  BY <1>1, <1>2, <1>4, <1>5, <1>6, <1>7, <1>8, CoordinatorSteps

\* If no turn whose calls run side by side names an invocation twice, the
\* executor of an invocation starts at most once, however often the provider
\* repeats the call: the ledger answers a later one.
THEOREM EachInvocationExecutesOnce ==
    ASSUME NoTwins PROVE CoordinatorSpec => []ExecutesAtMostOnce
<1>1. CoordinatorInit => OnceInv
  BY DEF CoordinatorInit, OnceInv, Parallel, PaidSites
<1>2. CoordInv /\ OnceInv /\ [CoordinatorNext]_<<allVars, limits>> => OnceInv'
  BY OnceNext
<1>3. OnceInv => ExecutesAtMostOnce
  BY DEF OnceInv, ExecutesAtMostOnce
<1> QED
  BY <1>1, <1>2, <1>3, CoordinatorSafety, PTL DEF CoordinatorSpec
=============================================================================
