---------------------------- MODULE LaunchProofs ----------------------------
(***************************************************************************)
(* What launch stores of a run, for any number of runs and sessions, any   *)
(* providers and file names, faults of the stores, cancellations, deleted  *)
(* sessions and a restart.                                                 *)
(*                                                                         *)
(* The argument: the copy of the session that a run carries is a beginning *)
(* of what is stored, unless the session was deleted; so the save that     *)
(* finds its revision unchanged finds its messages unchanged too, and no   *)
(* save drops a message.  The rest follows the run: what it has stored by  *)
(* each step of launch and of the task, and who wrote what it was given.   *)
(***************************************************************************)
EXTENDS Launch, SequenceTheorems, TLAPS

\* Nobody has touched these of a run yet.
Unstarted == {"new", "load", "start"}
Unsaved == {"new"} \union LaunchSteps

\* Between the save of the session and the end of a run that completes.
SavedSteps == {"saveState", "saveCheckpoint", "complete"}

(* A run that was accepted has a request for good.                         *)
RequestInv ==
    \A r \in Runs :
        /\ IF pc[r] = "new" THEN request[r] = NoRequest ELSE request[r] \in Requests
        /\ pc[r] \in {"saveSession", "saveState"} => HasSession(r)

(* State, snapshot and checkpoint of a run along its steps.                *)
RunInv ==
    \A r \in Runs :
        /\ pc[r] \in Unstarted /\ r \notin Attached => runState[r] = "Absent"
        /\ pc[r] \in Unsaved => checkpoints[r] = "none" /\ snapshot[r] = "Absent"
        /\ pc[r] = "complete" => checkpoints[r] = "Completed"
        /\ runState[r] = "Completed" =>
               pc[r] = "done" /\ (crashed \/ checkpoints[r] = "Completed")
        /\ snapshot[r] = "Cancelled" \/ checkpoints[r] = "Cancelled" =>
               runState[r] = "Cancelled"

(* A record has one message per revision, and what a run has loaded of a   *)
(* session that nobody deletes is a beginning of what is stored.           *)
Whole(record) == Len(record.messages) = record.revision

Behind(old, new) ==
    /\ old.revision <= new.revision
    /\ \A i \in 1 .. Len(old.messages) : old.messages[i] = new.messages[i]

SessionInv ==
    /\ \A s \in Sessions : Whole(sessions[s])
    /\ \A r \in Runs : Whole(copy[r]) /\ (pc[r] = "new" => copy[r] = Fresh)
    /\ \A r \in Runs : HasSession(r) /\ SessionOf(r) \notin deleted =>
                          Behind(copy[r], sessions[SessionOf(r)])

(* What was saved is there.                                                *)
WrittenInv ==
    \A r \in Runs :
        /\ HasSession(r) /\ SessionOf(r) \notin deleted
        /\ pc[r] \in SavedSteps \/ runState[r] = "Completed"
        => r \in WrittenBy(SessionOf(r))

(* A file of provider state is of a run of the session it is named after.  *)
FileInv ==
    \A k \in Sessions \X Stems :
        LET f == stateFiles[k] IN
        f # NoState =>
            /\ f.by \in Runs /\ pc[f.by] # "new"
            /\ SessionOf(f.by) = k[1] /\ ProviderOf(f.by) = f.provider
            /\ k[1] \notin deleted => f.by \in WrittenBy(k[1])

(* The state a request carries is of a run like its own.                   *)
OpaqueInv ==
    \A r \in Runs :
        opaque[r] # NoRun =>
            /\ pc[r] # "new" /\ pc[opaque[r]] # "new"
            /\ SessionOf(opaque[r]) = SessionOf(r)
            /\ ProviderOf(opaque[r]) = ProviderOf(r)

LaunchInv ==
    /\ LaunchTypeOK
    /\ RequestInv
    /\ RunInv
    /\ SessionInv
    /\ WrittenInv
    /\ FileInv
    /\ OpaqueInv

----------------------------------------------------------------------------
(* What is known of the data.                                              *)

Steps == {"new"} \union LaunchSteps \union TaskSteps \union Over

Records == [revision : Nat, messages : Seq(Runs)]

LEMMA RequestFacts ==
    ASSUME LaunchTypeOK, RequestInv, NEW r \in Runs, pc[r] # "new"
    PROVE  /\ HasSession(r) => SessionOf(r) \in Sessions
           /\ ProviderOf(r) \in Providers
           /\ Stem[ProviderOf(r)] \in Stems
           /\ HasSession(r) => FileOf(r) \in Sessions \X Stems
<1>1. request[r] \in [session : Sessions \union {NoSession}, provider : Providers]
  BY LaunchAssumption DEF RequestInv
<1> QED
  BY <1>1 DEF SessionOf, HasSession, ProviderOf, Stems, FileOf

\* Where a run has no session it is not counted among those of any.
LEMMA SessionIsReal ==
    ASSUME LaunchTypeOK, RequestInv, NEW r \in Runs, HasSession(r)
    PROVE  pc[r] # "new" /\ SessionOf(r) \in Sessions
<1>1. pc[r] # "new"
  BY DEF RequestInv, HasSession, SessionOf, NoRequest
<1> QED
  BY <1>1, RequestFacts

LEMMA SavedFacts ==
    ASSUME LaunchTypeOK, SessionInv, NEW r \in Runs
    PROVE  /\ SessionSaved(r) \in Records
           /\ SessionSaved(r).revision = copy[r].revision + 1
           /\ SessionSaved(r).messages = Append(copy[r].messages, r)
           /\ Whole(SessionSaved(r)) /\ Behind(copy[r], SessionSaved(r))
           /\ Len(SessionSaved(r).messages) = copy[r].revision + 1
           /\ SessionSaved(r).messages[copy[r].revision + 1] = r
<1> DEFINE m == copy[r].messages
           v == copy[r].revision
<1>1. m \in Seq(Runs) /\ v \in Nat /\ Len(m) = v
  BY DEF LaunchTypeOK, SessionInv, Whole
<1> HIDE DEF m, v
<1>2. /\ Append(m, r) \in Seq(Runs) /\ Len(Append(m, r)) = v + 1
      /\ Append(m, r)[v + 1] = r
      /\ \A i \in 1 .. v : Append(m, r)[i] = m[i]
  BY <1>1, AppendProperties
<1>3. SessionSaved(r) = [revision |-> v + 1, messages |-> Append(m, r)]
  BY DEF SessionSaved, m, v
<1>4. /\ SessionSaved(r).revision = v + 1 /\ SessionSaved(r).messages = Append(m, r)
      /\ SessionSaved(r) \in Records
  BY <1>1, <1>2, <1>3 DEF Records
<1>5. /\ copy[r].revision = v /\ copy[r].messages = m
  BY DEF m, v
<1>6. Behind(copy[r], SessionSaved(r))
  BY <1>1, <1>2, <1>4, <1>5 DEF Behind
<1> QED
  BY <1>1, <1>2, <1>4, <1>5, <1>6 DEF Whole

\* A record at the revision of a whole one that is behind it is that one.
LEMMA SameRevision ==
    ASSUME NEW old \in Records, NEW new \in Records, Whole(old), Whole(new),
           Behind(old, new), old.revision = new.revision
    PROVE  old.messages = new.messages
<1>1. /\ old.messages \in Seq(Runs) /\ new.messages \in Seq(Runs)
      /\ Len(old.messages) = Len(new.messages)
      /\ \A i \in 1 .. Len(old.messages) : old.messages[i] = new.messages[i]
  BY DEF Records, Whole, Behind
<1> QED
  BY <1>1, SeqEqual

LEMMA BehindTrans ==
    ASSUME NEW a \in Records, NEW b \in Records, NEW c \in Records,
           Whole(a), Whole(b), Behind(a, b), Behind(b, c)
    PROVE  Behind(a, c)
<1>1. /\ a.revision \in Nat /\ b.revision \in Nat /\ c.revision \in Nat
      /\ Len(a.messages) = a.revision /\ Len(b.messages) = b.revision
  BY DEF Records, Whole
<1>2. a.revision <= b.revision /\ b.revision <= c.revision
  BY DEF Behind
<1>3. \A i \in 1 .. Len(a.messages) : a.messages[i] = c.messages[i]
  <2> SUFFICES ASSUME NEW i \in 1 .. Len(a.messages) PROVE a.messages[i] = c.messages[i]
      OBVIOUS
  <2>1. i \in 1 .. Len(b.messages)
    BY <1>1, <1>2
  <2> QED
    BY <2>1 DEF Behind
<1> QED
  BY <1>1, <1>2, <1>3 DEF Behind

----------------------------------------------------------------------------
(* What a step does.                                                       *)

\* A step of a run touches nothing of another run but what they share.
LEMMA OneRun ==
    ASSUME LaunchTypeOK, NEW r \in Runs, LaunchStep(r) \/ TaskStep(r)
    PROVE  /\ crashed' = crashed
           /\ \A q \in Runs \ {r} :
                  /\ pc'[q] = pc[q] /\ request'[q] = request[q]
                  /\ runState'[q] = runState[q] /\ copy'[q] = copy[q]
                  /\ opaque'[q] = opaque[q] /\ snapshot'[q] = snapshot[q]
                  /\ checkpoints'[q] = checkpoints[q]
<1> USE DEF LaunchTypeOK, Goto
<1>1. CASE Accept(r)
  BY <1>1 DEF Accept
<1>2. CASE LoadSession(r)
  BY <1>2 DEF LoadSession
<1>3. CASE StartRun(r)
  BY <1>3 DEF StartRun
<1>4. CASE LoadState(r)
  BY <1>4 DEF LoadState
<1>5. CASE FirstCheckpoint(r) \/ LastCheckpoint(r) \/ FailureCheckpoint(r)
  BY <1>5 DEF FirstCheckpoint, LastCheckpoint, FailureCheckpoint, Checkpoint, CheckpointFails
<1>6. CASE LoopReturns(r) \/ SaveSession(r) \/ SaveState(r)
  BY <1>6 DEF LoopReturns, SaveSession, SaveState
<1>7. CASE Finish(r, "complete", "Completed") \/ Finish(r, "fail", "Failed")
  BY <1>7 DEF Finish
<1>8. CASE TakeSnapshot(r)
  BY <1>8 DEF TakeSnapshot
<1> QED
  BY <1>1, <1>2, <1>3, <1>4, <1>5, <1>6, <1>7, <1>8 DEF LaunchStep, TaskStep

\* Once accepted, a run has its request for good.
LEMMA RequestsStay ==
    ASSUME LaunchTypeOK, LaunchNext, NEW r \in Runs, pc[r] # "new"
    PROVE  request'[r] = request[r] /\ pc'[r] # "new"
<1> USE DEF LaunchTypeOK, Goto
<1>1. CASE Restart
  BY <1>1 DEF Restart, Over
<1>2. CASE \/ \E q \in Runs : Cancel(q)
           \/ \E s \in Sessions : DeleteSession(s)
  BY <1>2 DEF Cancel, DeleteSession
<1>3. ASSUME NEW q \in Runs, LaunchStep(q) \/ TaskStep(q), q # r
      PROVE  request'[r] = request[r] /\ pc'[r] # "new"
  BY <1>3, OneRun
<1>4. CASE LaunchStep(r)
  BY <1>4 DEF LaunchStep, Accept, LoadSession, StartRun, LoadState, FirstCheckpoint
<1>5. CASE TaskStep(r)
  BY <1>5 DEF TaskStep, LoopReturns, SaveSession, SaveState, LastCheckpoint, Finish,
              TakeSnapshot, FailureCheckpoint
<1> QED
  BY <1>1, <1>2, <1>3, <1>4, <1>5 DEF LaunchNext

----------------------------------------------------------------------------
(* Types.                                                                  *)

LEMMA LaunchInitTypes == LaunchInit => LaunchTypeOK
<1> SUFFICES ASSUME LaunchInit PROVE LaunchTypeOK
    OBVIOUS
<1>1. Fresh \in Records
  BY DEF Fresh, Records
<1>2. /\ copy \in [Runs -> Records] /\ sessions \in [Sessions -> Records]
  BY <1>1 DEF LaunchInit
<1> QED
  BY <1>2 DEF LaunchInit, LaunchTypeOK, Records, Ended

LEMMA StepTypes ==
    ASSUME LaunchTypeOK, RequestInv, SessionInv, NEW r \in Runs, LaunchStep(r) \/ TaskStep(r)
    PROVE  LaunchTypeOK'
<1> USE DEF LaunchTypeOK, Goto
<1>1. CASE Accept(r)
  <2>1. /\ pc' \in [Runs -> Steps] /\ request' \in [Runs -> Requests \union {NoRequest}]
    BY <1>1 DEF Accept, Steps, LaunchSteps, Over
  <2> QED
    BY <1>1, <2>1 DEF Accept, Steps
<1>2. CASE LoadSession(r)
  <2>1. IF HasSession(r) THEN sessions[SessionOf(r)] \in Records ELSE TRUE
    BY <1>2, RequestFacts DEF LoadSession, Records
  <2>2. Fresh \in Records
    BY DEF Fresh, Records
  <2> DEFINE loaded == IF HasSession(r) THEN sessions[SessionOf(r)] ELSE Fresh
  <2>3. pc' \in [Runs -> Steps]
    BY <1>2 DEF LoadSession, Steps, LaunchSteps, Over
  <2>4. copy' = [copy EXCEPT ![r] = loaded] \/ copy' = copy
    BY <1>2 DEF LoadSession
  <2>5. loaded \in Records
    BY <2>1, <2>2
  <2> HIDE DEF loaded
  <2>6. copy' \in [Runs -> Records]
    BY <2>4, <2>5 DEF Records
  <2> QED
    BY <1>2, <2>3, <2>6 DEF LoadSession, Steps, Records
<1>3. CASE StartRun(r)
  <2>1. /\ pc' \in [Runs -> Steps] /\ runState' \in [Runs -> {"Absent", "Live"} \union Ended]
    BY <1>3 DEF StartRun, Steps, LaunchSteps, Over
  <2> QED
    BY <1>3, <2>1 DEF StartRun, Steps
<1>4. CASE LoadState(r)
  <2>1. /\ UNCHANGED <<request, runState, copy, snapshot, sessions, checkpoints, crashed, deleted>>
        /\ pc' \in [Runs -> Steps]
    BY <1>4 DEF LoadState, Steps, LaunchSteps, Over
  <2>2. stateFiles' \in [Sessions \X Stems -> {NoState} \union [provider : Providers, by : Runs]]
    BY <1>4 DEF LoadState
  <2>3. HasSession(r) =>
            stateFiles[FileOf(r)] \in {NoState} \union [provider : Providers, by : Runs]
    BY <1>4, RequestFacts DEF LoadState
  <2>4. HasSession(r) => stateFiles[FileOf(r)].by \in Runs \union {NoRun}
    BY <2>3 DEF NoState, NoRun
  <2>5. opaque' \in [Runs -> Runs \union {NoRun}]
    BY <1>4, <2>4 DEF LoadState
  <2> QED
    BY <2>1, <2>2, <2>5 DEF Steps
<1>5. CASE FirstCheckpoint(r) \/ LastCheckpoint(r) \/ FailureCheckpoint(r)
  <2>1. /\ pc' \in [Runs -> Steps]
        /\ checkpoints' \in [Runs -> {"none", "Running"} \union Ended]
    BY <1>5 DEF FirstCheckpoint, LastCheckpoint, FailureCheckpoint, Checkpoint, CheckpointFails,
                Steps, TaskSteps, LaunchSteps, Over, Ended
  <2> QED
    BY <1>5, <2>1 DEF FirstCheckpoint, LastCheckpoint, FailureCheckpoint, Steps
<1>6. CASE LoopReturns(r)
  <2>1. pc' \in [Runs -> Steps]
    BY <1>6 DEF LoopReturns, Steps, TaskSteps
  <2> QED
    BY <1>6, <2>1 DEF LoopReturns, Steps
<1>7. CASE SaveSession(r)
  <2>1. pc' \in [Runs -> Steps]
    BY <1>7 DEF SaveSession, Steps, TaskSteps
  <2>2. sessions' \in [Sessions -> Records]
    <3>1. SessionSaved(r) \in Records
      BY SavedFacts
    <3> QED
      BY <1>7, <3>1 DEF SaveSession, Records
  <2> QED
    BY <1>7, <2>1, <2>2 DEF SaveSession, Steps, Records
<1>8. CASE SaveState(r)
  <2>1. pc' \in [Runs -> Steps]
    BY <1>8 DEF SaveState, Steps, TaskSteps
  <2>2. stateFiles' \in [Sessions \X Stems -> {NoState} \union [provider : Providers, by : Runs]]
    <3>1. [provider |-> ProviderOf(r), by |-> r] \in [provider : Providers, by : Runs]
      BY <1>8, RequestFacts DEF SaveState
    <3> QED
      BY <1>8, <3>1 DEF SaveState
  <2> QED
    BY <1>8, <2>1, <2>2 DEF SaveState, Steps
<1>9. CASE Finish(r, "complete", "Completed") \/ Finish(r, "fail", "Failed")
  <2>1. pc' \in [Runs -> Steps] /\ runState' \in [Runs -> {"Absent", "Live"} \union Ended]
    BY <1>9 DEF Finish, Steps, Over, Ended
  <2> QED
    BY <1>9, <2>1 DEF Finish, Steps
<1>10. CASE TakeSnapshot(r)
  <2>1. pc' \in [Runs -> Steps] /\ snapshot' \in [Runs -> {"Absent", "Live"} \union Ended]
    BY <1>10 DEF TakeSnapshot, Steps, TaskSteps
  <2> QED
    BY <1>10, <2>1 DEF TakeSnapshot, Steps
<1> QED
  BY <1>1, <1>2, <1>3, <1>4, <1>5, <1>6, <1>7, <1>8, <1>9, <1>10 DEF LaunchStep, TaskStep

LEMMA NextTypes ==
    ASSUME LaunchTypeOK, RequestInv, SessionInv, LaunchNext PROVE LaunchTypeOK'
<1>1. ASSUME NEW r \in Runs, Cancel(r) PROVE LaunchTypeOK'
  BY <1>1 DEF Cancel, LaunchTypeOK, Ended
<1>2. CASE Restart
  <2>1. /\ pc' \in [Runs -> Steps] /\ runState' \in [Runs -> {"Absent", "Live"} \union Ended]
        /\ checkpoints' \in [Runs -> {"none", "Running"} \union Ended]
    BY <1>2 DEF Restart, LaunchTypeOK, Steps, Over, Ended
  <2> QED
    BY <1>2, <2>1 DEF Restart, LaunchTypeOK, Steps
<1>3. ASSUME NEW s \in Sessions, DeleteSession(s) PROVE LaunchTypeOK'
  <2>1. Fresh \in Records
    BY DEF Fresh, Records
  <2>2. sessions' \in [Sessions -> Records]
    BY <1>3, <2>1 DEF DeleteSession, LaunchTypeOK, Records
  <2> QED
    BY <1>3, <2>2 DEF DeleteSession, LaunchTypeOK, Records
<1> QED
  BY <1>1, <1>2, <1>3, StepTypes DEF LaunchNext

----------------------------------------------------------------------------
(* The run and its request.                                                *)

LEMMA RequestNext == ASSUME LaunchTypeOK, RequestInv, LaunchNext PROVE RequestInv'
<1> USE DEF LaunchTypeOK, Goto
<1>1. \A q \in Runs : pc[q] # "new" => request'[q] = request[q] /\ pc'[q] # "new"
  BY RequestsStay
<1>2. ASSUME NEW q \in Runs, pc[q] = "new"
      PROVE  /\ IF pc'[q] = "new" THEN request'[q] = NoRequest ELSE request'[q] \in Requests
             /\ pc'[q] \in {"new", "load", "refused"}
  <2>1. request[q] = NoRequest
    BY <1>2 DEF RequestInv
  <2>2. CASE Restart
    BY <1>2, <2>1, <2>2 DEF Restart
  <2>3. CASE \/ \E r \in Runs : Cancel(r)
             \/ \E s \in Sessions : DeleteSession(s)
    <3>1. pc' = pc /\ request' = request
      BY <2>3 DEF Cancel, DeleteSession
    <3> QED
      BY <1>2, <2>1, <3>1
  <2>4. ASSUME NEW r \in Runs, LaunchStep(r) \/ TaskStep(r), r # q
        PROVE  pc'[q] = pc[q] /\ request'[q] = request[q]
    BY <2>4, OneRun
  <2>5. CASE LaunchStep(q)
    <3>1. Accept(q)
      BY <1>2, <2>5 DEF LaunchStep, LoadSession, StartRun, LoadState, FirstCheckpoint
    <3> QED
      BY <1>2, <3>1 DEF Accept
  <2>6. ~TaskStep(q)
    BY <1>2 DEF TaskStep, LoopReturns, SaveSession, SaveState, LastCheckpoint, Finish,
                TakeSnapshot, FailureCheckpoint
  <2> QED
    BY <1>2, <2>1, <2>2, <2>3, <2>4, <2>5, <2>6 DEF LaunchNext
<1>3. ASSUME NEW q \in Runs, pc[q] # "new", pc'[q] \in {"saveSession", "saveState"}
      PROVE  HasSession(q)
  <2>1. CASE Restart
    BY <1>3, <2>1 DEF Restart, Over
  <2>2. CASE \/ \E r \in Runs : Cancel(r)
             \/ \E s \in Sessions : DeleteSession(s)
    BY <1>3, <2>2 DEF Cancel, DeleteSession, RequestInv
  <2>3. ASSUME NEW r \in Runs, LaunchStep(r) \/ TaskStep(r), r # q PROVE HasSession(q)
    <3>1. pc'[q] = pc[q]
      BY <2>3, OneRun
    <3> QED
      BY <1>3, <3>1 DEF RequestInv
  <2>4. CASE LaunchStep(q)
    BY <1>3, <2>4 DEF LaunchStep, Accept, LoadSession, StartRun, LoadState, FirstCheckpoint
  <2>5. CASE TaskStep(q)
    <3>1. LoopReturns(q) \/ SaveSession(q)
      BY <1>3, <2>5 DEF TaskStep, SaveState, LastCheckpoint, Finish, TakeSnapshot, FailureCheckpoint
    <3> QED
      BY <1>3, <3>1 DEF LoopReturns, SaveSession, RequestInv
  <2> QED
    BY <2>1, <2>2, <2>3, <2>4, <2>5 DEF LaunchNext
<1>4. \A q \in Runs : pc[q] # "new" => (HasSession(q)' <=> HasSession(q))
  BY <1>1 DEF HasSession, SessionOf
<1> QED
  BY <1>1, <1>2, <1>3, <1>4 DEF RequestInv

LEMMA RunNext == ASSUME LaunchTypeOK, RunInv, LaunchNext PROVE RunInv'
<1> USE DEF LaunchTypeOK, Goto
<1>1. ASSUME NEW r \in Runs, Cancel(r) PROVE RunInv'
  BY <1>1 DEF Cancel, RunInv
<1>6. ASSUME NEW s \in Sessions, DeleteSession(s) PROVE RunInv'
  BY <1>6 DEF DeleteSession, RunInv
<1>2. CASE Restart
  <2>1. ASSUME NEW q \in Runs
        PROVE  /\ pc'[q] = (IF pc[q] \in {"new"} \union Over THEN pc[q] ELSE "dead")
               /\ runState'[q] = (IF runState[q] = "Live" THEN "Lost" ELSE runState[q])
               /\ checkpoints'[q] = "none" /\ snapshot'[q] = snapshot[q] /\ crashed'
    BY <1>2 DEF Restart
  <2> QED
    BY <2>1 DEF RunInv, Unstarted, Unsaved, LaunchSteps, Over
<1>3. ASSUME NEW r \in Runs, LaunchStep(r) \/ TaskStep(r),
             /\ pc'[r] \in Unstarted /\ r \notin Attached => runState'[r] = "Absent"
             /\ pc'[r] \in Unsaved => checkpoints'[r] = "none" /\ snapshot'[r] = "Absent"
             /\ pc'[r] = "complete" => checkpoints'[r] = "Completed"
             /\ runState'[r] = "Completed" =>
                    pc'[r] = "done" /\ (crashed' \/ checkpoints'[r] = "Completed")
             /\ snapshot'[r] = "Cancelled" \/ checkpoints'[r] = "Cancelled" =>
                    runState'[r] = "Cancelled"
      PROVE  RunInv'
  <2>1. /\ crashed' = crashed
        /\ \A q \in Runs \ {r} :
               /\ pc'[q] = pc[q] /\ runState'[q] = runState[q]
               /\ snapshot'[q] = snapshot[q] /\ checkpoints'[q] = checkpoints[q]
    BY <1>3, OneRun
  <2> DEFINE Along(q) ==
               /\ pc[q] \in Unstarted /\ q \notin Attached => runState[q] = "Absent"
               /\ pc[q] \in Unsaved => checkpoints[q] = "none" /\ snapshot[q] = "Absent"
               /\ pc[q] = "complete" => checkpoints[q] = "Completed"
               /\ runState[q] = "Completed" =>
                      pc[q] = "done" /\ (crashed \/ checkpoints[q] = "Completed")
               /\ snapshot[q] = "Cancelled" \/ checkpoints[q] = "Cancelled" =>
                      runState[q] = "Cancelled"
  <2>2. Along(r)'
    BY <1>3
  <2>3. ASSUME NEW q \in Runs, q # r PROVE Along(q)'
    <3>1. Along(q)
      BY DEF RunInv
    <3> QED
      BY <2>1, <2>3, <3>1
  <2>4. \A q \in Runs : Along(q)'
    BY <2>2, <2>3
  <2> QED
    BY <2>4 DEF RunInv
<1> USE DEF RunInv, Unstarted, Unsaved, LaunchSteps
<1>4. ASSUME NEW r \in Runs, LaunchStep(r) PROVE RunInv'
  <2>1. CASE Accept(r)
    BY <1>3, <1>4, <2>1 DEF Accept
  <2>2. CASE LoadSession(r)
    BY <1>3, <1>4, <2>2 DEF LoadSession
  <2>3. CASE StartRun(r)
    BY <1>3, <1>4, <2>3 DEF StartRun
  <2>4. CASE LoadState(r)
    BY <1>3, <1>4, <2>4 DEF LoadState
  <2>5. CASE FirstCheckpoint(r)
    BY <1>3, <1>4, <2>5 DEF FirstCheckpoint, Checkpoint, CheckpointFails
  <2> QED
    BY <1>4, <2>1, <2>2, <2>3, <2>4, <2>5 DEF LaunchStep
<1>5. ASSUME NEW r \in Runs, TaskStep(r) PROVE RunInv'
  <2>1. CASE LoopReturns(r) \/ SaveSession(r) \/ SaveState(r)
    BY <1>3, <1>5, <2>1 DEF LoopReturns, SaveSession, SaveState
  <2>2. CASE LastCheckpoint(r)
    BY <1>3, <1>5, <2>2 DEF LastCheckpoint, Checkpoint, CheckpointFails
  <2>3. CASE Finish(r, "complete", "Completed") \/ Finish(r, "fail", "Failed")
    BY <1>3, <1>5, <2>3 DEF Finish
  <2>4. CASE TakeSnapshot(r)
    BY <1>3, <1>5, <2>4 DEF TakeSnapshot
  <2>5. CASE FailureCheckpoint(r)
    BY <1>3, <1>5, <2>5 DEF FailureCheckpoint, Checkpoint, CheckpointFails
  <2> QED
    BY <1>5, <2>1, <2>2, <2>3, <2>4, <2>5 DEF TaskStep
<1> QED
  BY <1>1, <1>2, <1>4, <1>5, <1>6 DEF LaunchNext

----------------------------------------------------------------------------
(* Sessions only grow, until they are deleted.                             *)

LEMMA SaveFacts ==
    ASSUME LaunchTypeOK, RequestInv, SessionInv, NEW r \in Runs, SaveSession(r),
           sessions' # sessions
    PROVE  /\ HasSession(r) /\ SessionOf(r) \in Sessions
           /\ sessions' = [sessions EXCEPT ![SessionOf(r)] = SessionSaved(r)]
           /\ Whole(SessionSaved(r))
           /\ SessionOf(r) \notin deleted => Behind(sessions[SessionOf(r)], SessionSaved(r))
<1> DEFINE s == SessionOf(r)
<1>1. /\ pc[r] = "saveSession"
      /\ sessions[s].revision = copy[r].revision
      /\ sessions' = [sessions EXCEPT ![s] = SessionSaved(r)]
  BY DEF SaveSession
<1>2. HasSession(r) /\ s \in Sessions
  BY <1>1, SessionIsReal DEF RequestInv
<1>3. sessions[s] \in Records /\ copy[r] \in Records
  BY <1>2 DEF LaunchTypeOK, Records
<1>4. /\ Whole(copy[r]) /\ Whole(sessions[s])
      /\ s \notin deleted => Behind(copy[r], sessions[s])
  BY <1>2 DEF SessionInv
<1>5. s \notin deleted => copy[r].messages = sessions[s].messages
  BY <1>1, <1>3, <1>4, SameRevision
<1>6. s \notin deleted => Behind(sessions[s], SessionSaved(r))
  BY <1>1, <1>5, SavedFacts DEF Behind
<1> QED
  BY <1>1, <1>2, <1>6, SavedFacts

LEMMA SavesOnly ==
    ASSUME LaunchTypeOK, LaunchNext, sessions' # sessions
    PROVE  \/ \E r \in Runs : SaveSession(r)
           \/ \E s \in Sessions : DeleteSession(s)
  BY DEF LaunchNext, LaunchStep, TaskStep, Accept, LoadSession, StartRun, LoadState,
         FirstCheckpoint, LoopReturns, SaveState, LastCheckpoint, Finish, TakeSnapshot,
         FailureCheckpoint, Cancel, Restart

LEMMA DeletedGrow ==
    ASSUME LaunchNext PROVE deleted \subseteq deleted'
<1>1. deleted' = deleted \/ \E t \in Sessions : deleted' = deleted \union {t}
  BY DEF LaunchNext, LaunchStep, TaskStep, Accept, LoadSession, StartRun, LoadState,
         FirstCheckpoint, LoopReturns, SaveSession, SaveState, LastCheckpoint, Finish,
         TakeSnapshot, FailureCheckpoint, Cancel, Restart, DeleteSession
<1> QED
  BY <1>1

LEMMA WholeNext ==
    ASSUME LaunchTypeOK, RequestInv, SessionInv, LaunchNext, NEW s \in Sessions
    PROVE  Whole(sessions'[s])
<1>1. CASE sessions' = sessions
  BY <1>1 DEF SessionInv
<1>2. ASSUME NEW r \in Runs, SaveSession(r), sessions' # sessions PROVE Whole(sessions'[s])
  BY <1>2, SaveFacts DEF LaunchTypeOK, SessionInv
<1>3. ASSUME NEW t \in Sessions, DeleteSession(t) PROVE Whole(sessions'[s])
  <2>1. Whole(Fresh)
    BY DEF Whole, Fresh
  <2> QED
    BY <1>3, <2>1 DEF DeleteSession, LaunchTypeOK, SessionInv
<1> QED
  BY <1>1, <1>2, <1>3, SavesOnly

LEMMA SessionsGrow ==
    ASSUME LaunchTypeOK, RequestInv, SessionInv, LaunchNext,
           NEW s \in Sessions, s \notin deleted'
    PROVE  /\ Behind(sessions[s], sessions'[s])
           /\ WrittenBy(s) \subseteq WrittenBy(s)'
<1>0. s \notin deleted
  BY DeletedGrow
<1>1. sessions[s].revision \in Nat /\ Len(sessions[s].messages) = sessions[s].revision
  BY DEF LaunchTypeOK, SessionInv, Whole
<1>2. Whole(sessions'[s]) /\ Behind(sessions[s], sessions'[s])
  <2>0. Whole(sessions'[s])
    BY WholeNext
  <2>1. CASE sessions'[s] = sessions[s]
    BY <1>1, <2>1 DEF SessionInv, Behind
  <2>2. CASE sessions'[s] # sessions[s]
    <3>1. PICK r \in Runs : SaveSession(r)
      <4>1. ASSUME NEW t \in Sessions, DeleteSession(t) PROVE FALSE
        BY <2>2, <4>1 DEF DeleteSession, LaunchTypeOK
      <4> QED
        BY <2>2, <4>1, SavesOnly
    <3>2. /\ sessions' = [sessions EXCEPT ![SessionOf(r)] = SessionSaved(r)]
          /\ SessionOf(r) \notin deleted => Behind(sessions[SessionOf(r)], SessionSaved(r))
      BY <2>2, <3>1, SaveFacts
    <3>3. s = SessionOf(r) /\ sessions'[s] = SessionSaved(r)
      BY <2>2, <3>2 DEF LaunchTypeOK
    <3> QED
      BY <1>0, <2>0, <3>2, <3>3
  <2> QED
    BY <2>0, <2>1, <2>2
<1>3. sessions' \in [Sessions -> Records]
  BY NextTypes DEF LaunchTypeOK, Records
<1>4. /\ sessions'[s].revision \in Nat
      /\ Len(sessions'[s].messages) = sessions'[s].revision
      /\ sessions[s].revision <= sessions'[s].revision
  BY <1>2, <1>3 DEF Records, Whole, Behind
<1>5. WrittenBy(s) \subseteq WrittenBy(s)'
  <2> SUFFICES ASSUME NEW i \in 1 .. Len(sessions[s].messages)
               PROVE  sessions[s].messages[i] \in WrittenBy(s)'
      BY DEF WrittenBy
  <2>1. i \in 1 .. Len(sessions'[s].messages)
    BY <1>1, <1>4
  <2>2. sessions'[s].messages[i] = sessions[s].messages[i]
    BY <1>2 DEF Behind
  <2> QED
    BY <2>1, <2>2 DEF WrittenBy
<1> QED
  BY <1>2, <1>5

\* Who loads a session has all of it; who does not keeps what it had.
LEMMA CopiesStay ==
    ASSUME LaunchTypeOK, LaunchNext, NEW r \in Runs, copy'[r] # copy[r]
    PROVE  copy'[r] = IF HasSession(r) THEN sessions[SessionOf(r)] ELSE Fresh
<1>1. PICK q \in Runs : LoadSession(q)
  BY DEF LaunchNext, LaunchStep, TaskStep, Accept, StartRun, LoadState, FirstCheckpoint,
         LoopReturns, SaveSession, SaveState, LastCheckpoint, Finish, TakeSnapshot,
         FailureCheckpoint, Cancel, Restart, DeleteSession
<1> QED
  BY <1>1 DEF LoadSession, LaunchTypeOK

\* A run gets a session while its copy is fresh.
LEMMA FreshCopies ==
    ASSUME LaunchTypeOK, NEW r \in Runs, LaunchNext, pc[r] = "new"
    PROVE  copy'[r] = copy[r]
<1>1. ~LoadSession(r)
  BY DEF LoadSession
<1> QED
  BY <1>1 DEF LaunchNext, LaunchStep, TaskStep, Accept, LoadSession, StartRun, LoadState,
     FirstCheckpoint, LoopReturns, SaveSession, SaveState, LastCheckpoint, Finish, TakeSnapshot,
     FailureCheckpoint, Cancel, Restart, DeleteSession, LaunchTypeOK

LEMMA SessionNext ==
    ASSUME LaunchTypeOK, RequestInv, SessionInv, LaunchNext PROVE SessionInv'
<1>1. \A s \in Sessions : /\ Whole(sessions[s])'
                          /\ s \notin deleted' => Behind(sessions[s], sessions'[s])
  BY WholeNext, SessionsGrow
<1>2. LaunchTypeOK' /\ RequestInv'
  BY NextTypes, RequestNext
<1>3. ASSUME NEW r \in Runs
      PROVE  Whole(copy'[r]) /\ (pc'[r] = "new" => copy'[r] = Fresh)
  <2>1. pc'[r] = "new" => pc[r] = "new"
    BY RequestsStay
  <2>2. pc[r] = "new" => copy'[r] = copy[r]
    BY FreshCopies
  <2>3. Whole(Fresh)
    BY DEF Whole, Fresh
  <2>4. CASE copy'[r] = copy[r]
    BY <2>1, <2>4 DEF SessionInv
  <2>5. CASE copy'[r] # copy[r] /\ HasSession(r)
    BY <2>1, <2>2, <2>5, CopiesStay, SessionIsReal DEF SessionInv
  <2>6. CASE copy'[r] # copy[r] /\ ~HasSession(r)
    BY <2>1, <2>2, <2>3, <2>6, CopiesStay
  <2> QED
    BY <2>4, <2>5, <2>6
<1>4. ASSUME NEW r \in Runs, HasSession(r)', SessionOf(r)' \notin deleted'
      PROVE  Behind(copy'[r], sessions'[SessionOf(r)'])
  <2>1. SessionOf(r)' \in Sessions
    <3>1. pc'[r] # "new" /\ request'[r] \in [session : Sessions \union {NoSession}, provider : Providers]
      BY <1>2, <1>4, LaunchAssumption DEF RequestInv, HasSession, SessionOf, NoRequest
    <3> QED
      BY <1>4, <3>1 DEF HasSession, SessionOf
  <2>2. sessions'[SessionOf(r)'] \in Records
    BY <1>2, <2>1 DEF LaunchTypeOK, Records
  <2>3. CASE pc[r] = "new"
    <3>1. copy'[r] = Fresh
      BY <2>3, FreshCopies DEF SessionInv
    <3> QED
      BY <2>2, <3>1 DEF Behind, Fresh, Records
  <2>4. CASE pc[r] # "new"
    <3>1. SessionOf(r)' = SessionOf(r) /\ HasSession(r)
      BY <1>4, <2>4, RequestsStay DEF SessionOf, HasSession
    <3>2. SessionOf(r) \notin deleted /\ Behind(sessions[SessionOf(r)], sessions'[SessionOf(r)])
      <4>1. SessionOf(r) \notin deleted'
        BY <1>4, <3>1
      <4>2. SessionOf(r) \notin deleted
        BY <4>1, DeletedGrow
      <4>3. SessionOf(r) \in Sessions
        BY <2>1, <3>1
      <4> QED
        BY <1>1, <4>1, <4>2, <4>3
    <3>3. CASE copy'[r] = copy[r]
      <4>1. copy[r] \in Records /\ sessions[SessionOf(r)] \in Records
        BY <2>1, <3>1 DEF LaunchTypeOK, Records
      <4>2. /\ Whole(copy[r]) /\ Whole(sessions[SessionOf(r)])
            /\ Behind(copy[r], sessions[SessionOf(r)])
        BY <2>1, <3>1, <3>2 DEF SessionInv
      <4>3. Behind(copy[r], sessions'[SessionOf(r)])
        BY <2>2, <3>1, <3>2, <4>1, <4>2, BehindTrans
      <4> QED
        BY <3>1, <3>3, <4>3
    <3>4. CASE copy'[r] # copy[r]
      BY <3>1, <3>2, <3>4, CopiesStay
    <3> QED
      BY <3>3, <3>4
  <2> QED
    BY <2>3, <2>4
<1>5. (\A r \in Runs : HasSession(r) /\ SessionOf(r) \notin deleted =>
                        Behind(copy[r], sessions[SessionOf(r)]))'
  BY <1>4
<1>6. (\A s \in Sessions : Whole(sessions[s]))'
  BY <1>1 DEF Whole
<1>7. (\A r \in Runs : Whole(copy[r]) /\ (pc[r] = "new" => copy[r] = Fresh))'
  BY <1>3
<1> QED
  BY <1>5, <1>6, <1>7 DEF SessionInv

----------------------------------------------------------------------------
(* What was saved, and whose state is in a file and on a request.          *)

\* The save of the session is what leads on.
LEMMA SaveWrites ==
    ASSUME LaunchTypeOK, RequestInv, SessionInv, NEW r \in Runs, SaveSession(r),
           pc'[r] \in SavedSteps
    PROVE  r \in WrittenBy(SessionOf(r))'
<1> DEFINE s == SessionOf(r)
<1>1. /\ pc[r] = "saveSession"
      /\ sessions' = [sessions EXCEPT ![s] = SessionSaved(r)]
      /\ request' = request
  BY DEF SaveSession, SavedSteps, Goto, LaunchTypeOK
<1>2. s \in Sessions
  BY <1>1, SessionIsReal DEF RequestInv
<1>3. sessions'[s] = SessionSaved(r) /\ SessionOf(r)' = s
  BY <1>1, <1>2 DEF LaunchTypeOK, SessionOf
<1> DEFINE n == copy[r].revision + 1
<1>4. /\ n \in Nat \ {0} /\ Len(SessionSaved(r).messages) = n
      /\ SessionSaved(r).messages[n] = r
  BY SavedFacts DEF LaunchTypeOK
<1>5. n \in 1 .. Len(sessions'[s].messages) /\ sessions'[s].messages[n] = r
  BY <1>3, <1>4
<1> QED
  BY <1>3, <1>5 DEF WrittenBy

LEMMA WrittenNext ==
    ASSUME LaunchTypeOK, RequestInv, SessionInv, WrittenInv, RunInv, LaunchNext
    PROVE  WrittenInv'
<1>1. SUFFICES ASSUME NEW r \in Runs, HasSession(r)', SessionOf(r)' \notin deleted',
                      pc'[r] \in SavedSteps \/ runState'[r] = "Completed"
               PROVE  r \in WrittenBy(SessionOf(r))'
    BY DEF WrittenInv
<1>2. pc[r] # "new"
  <2>1. ASSUME pc[r] = "new" PROVE FALSE
    <3>1. runState[r] # "Completed"
      BY <2>1 DEF RunInv
    <3>2. ~\E s \in Sessions : DeleteSession(s)
      BY <1>1, <2>1, <3>1 DEF DeleteSession, SavedSteps
    <3> QED
      BY <1>1, <2>1, <3>1, <3>2 DEF LaunchNext, LaunchStep, TaskStep, Accept, LoadSession,
         StartRun, LoadState, FirstCheckpoint, LoopReturns, SaveSession, SaveState,
         LastCheckpoint, Finish, TakeSnapshot, FailureCheckpoint, Cancel, Restart, LaunchTypeOK,
         Goto, SavedSteps
  <2> QED
    BY <2>1
<1>3. /\ SessionOf(r)' = SessionOf(r) /\ HasSession(r) /\ SessionOf(r) \in Sessions
      /\ SessionOf(r) \notin deleted' /\ SessionOf(r) \notin deleted
  BY <1>1, <1>2, RequestsStay, RequestFacts, DeletedGrow DEF SessionOf, HasSession
<1>4. CASE pc[r] \in SavedSteps \/ runState[r] = "Completed"
  <2>1. r \in WrittenBy(SessionOf(r))
    BY <1>3, <1>4 DEF WrittenInv
  <2>2. WrittenBy(SessionOf(r)) \subseteq WrittenBy(SessionOf(r))'
    BY <1>3, SessionsGrow
  <2> QED
    BY <2>1, <2>2
<1>5. CASE ~(pc[r] \in SavedSteps \/ runState[r] = "Completed")
  <2>1. SaveSession(r)
    <3>1. CASE Restart
      BY <1>1, <1>5, <3>1 DEF Restart, LaunchTypeOK, SavedSteps, Over
    <3>2. CASE \/ \E q \in Runs : Cancel(q)
               \/ \E s \in Sessions : DeleteSession(s)
      BY <1>1, <1>5, <3>2 DEF Cancel, DeleteSession, LaunchTypeOK
    <3>3. ASSUME NEW q \in Runs, LaunchStep(q) \/ TaskStep(q), q # r PROVE FALSE
      BY <1>1, <1>5, <3>3, OneRun
    <3>4. CASE LaunchStep(r)
      BY <1>1, <1>5, <3>4 DEF LaunchStep, Accept, LoadSession, StartRun, LoadState,
         FirstCheckpoint, LaunchTypeOK, Goto, SavedSteps
    <3>5. CASE TaskStep(r)
      BY <1>1, <1>3, <1>5, <3>5 DEF TaskStep, LoopReturns, SaveState, LastCheckpoint, Finish,
         TakeSnapshot, FailureCheckpoint, LaunchTypeOK, Goto, SavedSteps
    <3> QED
      BY <3>1, <3>2, <3>3, <3>4, <3>5 DEF LaunchNext
  <2>2. pc'[r] \in SavedSteps
    BY <1>1, <1>5, <2>1 DEF SaveSession
  <2> QED
    BY <2>1, <2>2, SaveWrites
<1> QED
  BY <1>4, <1>5

\* A file is replaced by who saves its own state, or removed.
LEMMA FilesChange ==
    ASSUME LaunchTypeOK, RequestInv, LaunchNext, NEW k \in Sessions \X Stems,
           stateFiles'[k] # stateFiles[k], stateFiles'[k] # NoState
    PROVE  \E r \in Runs : /\ pc[r] = "saveState" /\ pc'[r] # "new" /\ HasSession(r)
                           /\ SessionOf(r) = k[1]
                           /\ stateFiles'[k] = [provider |-> ProviderOf(r), by |-> r]
<1>1. PICK r \in Runs : SaveState(r) \/ LoadState(r)
  BY DEF LaunchNext, LaunchStep, TaskStep, Accept, LoadSession, StartRun, FirstCheckpoint,
         LoopReturns, SaveSession, LastCheckpoint, Finish, TakeSnapshot,
         FailureCheckpoint, Cancel, Restart, DeleteSession
<1>2. SaveState(r)
  BY <1>1 DEF LoadState, LaunchTypeOK
<1>3. pc[r] = "saveState" /\ HasSession(r)
  BY <1>2 DEF SaveState, RequestInv
<1>4. stateFiles' = [stateFiles EXCEPT ![FileOf(r)] = [provider |-> ProviderOf(r), by |-> r]]
  BY <1>2 DEF SaveState
<1>5. k = FileOf(r) /\ stateFiles'[k] = [provider |-> ProviderOf(r), by |-> r]
  BY <1>4 DEF LaunchTypeOK
<1>6. SessionOf(r) = k[1]
  BY <1>5 DEF FileOf
<1> QED
  BY <1>3, <1>5, <1>6, RequestsStay

LEMMA FileNext ==
    ASSUME LaunchTypeOK, RequestInv, SessionInv, WrittenInv, FileInv, LaunchNext
    PROVE  FileInv'
<1>1. SUFFICES ASSUME NEW k \in Sessions \X Stems, stateFiles'[k] # NoState
               PROVE  /\ stateFiles'[k].by \in Runs /\ pc'[stateFiles'[k].by] # "new"
                      /\ request'[stateFiles'[k].by].session = k[1]
                      /\ request'[stateFiles'[k].by].provider = stateFiles'[k].provider
                      /\ k[1] \notin deleted' => stateFiles'[k].by \in WrittenBy(k[1])'
    BY DEF FileInv, SessionOf, ProviderOf
<1>2. k[1] \in Sessions
  OBVIOUS
<1>3. k[1] \notin deleted' =>
          k[1] \notin deleted /\ WrittenBy(k[1]) \subseteq WrittenBy(k[1])'
  BY <1>2, SessionsGrow, DeletedGrow
<1>4. CASE stateFiles'[k] = stateFiles[k]
  <2> DEFINE q == stateFiles[k].by
  <2>1. /\ q \in Runs /\ pc[q] # "new" /\ request[q].session = k[1]
        /\ request[q].provider = stateFiles[k].provider
        /\ k[1] \notin deleted => q \in WrittenBy(k[1])
    BY <1>1, <1>4 DEF FileInv, SessionOf, ProviderOf
  <2>2. request'[q] = request[q] /\ pc'[q] # "new"
    BY <2>1, RequestsStay
  <2> QED
    BY <1>3, <1>4, <2>1, <2>2
<1>5. CASE stateFiles'[k] # stateFiles[k]
  <2>1. PICK r \in Runs :
             /\ pc[r] = "saveState" /\ pc'[r] # "new" /\ HasSession(r)
             /\ SessionOf(r) = k[1]
             /\ stateFiles'[k] = [provider |-> ProviderOf(r), by |-> r]
    BY <1>1, <1>5, FilesChange
  <2>2. request'[r] = request[r]
    BY <2>1, RequestsStay
  <2>3. k[1] \notin deleted => r \in WrittenBy(k[1])
    BY <2>1 DEF WrittenInv, SavedSteps
  <2>4. stateFiles'[k].by = r /\ stateFiles'[k].provider = request[r].provider
    BY <2>1 DEF ProviderOf
  <2> QED
    BY <1>3, <2>1, <2>2, <2>3, <2>4 DEF SessionOf
<1> QED
  BY <1>4, <1>5

LEMMA OpaqueNext ==
    ASSUME LaunchTypeOK, RequestInv, FileInv, OpaqueInv, LaunchNext
    PROVE  OpaqueInv'
<1>1. SUFFICES ASSUME NEW r \in Runs, opaque'[r] # NoRun
               PROVE  /\ pc'[r] # "new" /\ pc'[opaque'[r]] # "new"
                      /\ request'[opaque'[r]].session = request'[r].session
                      /\ request'[opaque'[r]].provider = request'[r].provider
    BY DEF OpaqueInv, SessionOf, ProviderOf
<1>2. CASE opaque'[r] = opaque[r]
  <2> DEFINE q == opaque[r]
  <2>1. /\ pc[r] # "new" /\ pc[q] # "new" /\ q \in Runs
        /\ request[q].session = request[r].session
        /\ request[q].provider = request[r].provider
    BY <1>1, <1>2 DEF OpaqueInv, SessionOf, ProviderOf, LaunchTypeOK
  <2>2. /\ request'[q] = request[q] /\ pc'[q] # "new"
        /\ request'[r] = request[r] /\ pc'[r] # "new"
    BY <2>1, RequestsStay
  <2> QED
    BY <1>2, <2>1, <2>2
<1>3. CASE opaque'[r] # opaque[r]
  <2>1. PICK p \in Runs : LoadState(p)
    BY <1>3 DEF LaunchNext, LaunchStep, TaskStep, Accept, LoadSession, StartRun, FirstCheckpoint,
         LoopReturns, SaveSession, SaveState, LastCheckpoint, Finish, TakeSnapshot,
         FailureCheckpoint, Cancel, Restart, DeleteSession
  <2>2. /\ pc[r] = "loadState" /\ HasSession(r)
        /\ stateFiles[FileOf(r)].provider = ProviderOf(r)
        /\ opaque'[r] = stateFiles[FileOf(r)].by
    BY <1>3, <2>1 DEF LoadState, LaunchTypeOK
  <2>3. FileOf(r) \in Sessions \X Stems /\ FileOf(r)[1] = SessionOf(r)
    BY <2>2, RequestFacts DEF FileOf
  <2>4. stateFiles[FileOf(r)] # NoState
    BY <1>1, <2>2 DEF NoState, NoRun
  <2> DEFINE q == stateFiles[FileOf(r)].by
  <2>5. /\ q \in Runs /\ pc[q] # "new" /\ SessionOf(q) = SessionOf(r)
        /\ ProviderOf(q) = ProviderOf(r)
    BY <2>2, <2>3, <2>4 DEF FileInv
  <2>6. /\ request'[q] = request[q] /\ pc'[q] # "new"
        /\ request'[r] = request[r] /\ pc'[r] # "new"
    BY <2>2, <2>5, RequestsStay
  <2> QED
    BY <2>2, <2>5, <2>6 DEF SessionOf, ProviderOf
<1> QED
  BY <1>2, <1>3

----------------------------------------------------------------------------
(* The theorems.                                                           *)

LEMMA LaunchInitInv == LaunchInit => LaunchInv
<1> SUFFICES ASSUME LaunchInit PROVE LaunchInv
    OBVIOUS
<1>1. LaunchTypeOK
  BY LaunchInitTypes
<1>2. RequestInv
  BY DEF LaunchInit, RequestInv
<1>3. RunInv
  BY DEF LaunchInit, RunInv
<1>4. SessionInv
  BY DEF LaunchInit, SessionInv, Whole, Fresh, HasSession, SessionOf, NoRequest
<1>5. WrittenInv
  BY DEF LaunchInit, WrittenInv, HasSession, SessionOf, NoRequest
<1>6. FileInv /\ OpaqueInv
  BY DEF LaunchInit, FileInv, OpaqueInv
<1> QED
  BY <1>1, <1>2, <1>3, <1>4, <1>5, <1>6 DEF LaunchInv

LEMMA LaunchNextInv == LaunchInv /\ [LaunchNext]_launchVars => LaunchInv'
<1> SUFFICES ASSUME LaunchInv, [LaunchNext]_launchVars PROVE LaunchInv'
    OBVIOUS
<1>1. CASE LaunchNext
  BY <1>1, NextTypes, RequestNext, RunNext, SessionNext, WrittenNext, FileNext, OpaqueNext
     DEF LaunchInv
<1>2. CASE UNCHANGED launchVars
  BY <1>2 DEF launchVars, LaunchInv, LaunchTypeOK, RequestInv, RunInv, SessionInv, WrittenInv,
              FileInv, OpaqueInv, HasSession, SessionOf, ProviderOf, WrittenBy
<1> QED
  BY <1>1, <1>2

\* The inductive invariant of launch: what a run has stored by each of its
\* steps, and who wrote what it was given.
THEOREM LaunchSafety == LaunchSpec => []LaunchInv
  BY LaunchInitInv, LaunchNextInv, PTL DEF LaunchSpec

\* A run that is reported Completed is in its session for good, unless the
\* session is deleted, and no checkpoint tells another end than the run's,
\* whichever stores fail, however many runs share the session, and across a
\* restart.
THEOREM WhatIsStoredIsTheEnd == LaunchSpec => []StoredAsItEnded
<1>1. LaunchInv => StoredAsItEnded
  BY DEF LaunchInv, StoredAsItEnded, CompletedIsPersisted, CheckpointTellsTheEnd, WrittenInv, RunInv
<1> QED
  BY <1>1, LaunchSafety, PTL

\* A provider is given only what it left for the same session, also where the
\* names of two providers are cleaned to one file; and the conversation has
\* the messages that the state goes with, in every session that was never
\* deleted.  A deletion leaves the state to a session made anew.
THEOREM StateIsTheProvidersOwn == LaunchSpec => []ProviderStateFits
<1>1. LaunchInv => ProviderStateFits
  <2> SUFFICES ASSUME LaunchInv PROVE ProviderStateFits
      OBVIOUS
  <2>1. OpaqueStateIsOwn
    BY DEF LaunchInv, OpaqueInv, OpaqueStateIsOwn
  <2>2. StateHasItsMessages
    BY DEF LaunchInv, FileInv, StateHasItsMessages, Stems
  <2> QED
    BY <2>1, <2>2 DEF ProviderStateFits
<1> QED
  BY <1>1, LaunchSafety, PTL

\* No save of a run drops or rewrites a message that another has stored: what
\* is in a session stays its beginning (SaveSession of Aifluxon::launch), until
\* somebody deletes it.  Of a session made anew a run that had loaded the old
\* one may overwrite what another stored, at an equal revision.
THEOREM NoRunIsOverwritten ==
    LaunchSpec =>
        [][\A s \in Sessions \ deleted' : Behind(sessions[s], sessions'[s])]_launchVars
<1>1. LaunchInv /\ [LaunchNext]_launchVars =>
          [\A s \in Sessions \ deleted' : Behind(sessions[s], sessions'[s])]_launchVars
  BY SessionsGrow DEF LaunchInv
<1> QED
  BY <1>1, LaunchSafety, PTL DEF LaunchSpec
=============================================================================
