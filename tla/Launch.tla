------------------------------- MODULE Launch -------------------------------
(***************************************************************************)
(* Aifluxon::launch: what happens around the model and tool loop of a run. *)
(* Before the loop: load the session, register the run, load the           *)
(* provider's opaque state, save a checkpoint.  After it: save session,    *)
(* provider state and checkpoint, then finish the run.  Between any two of *)
(* these awaits other runs, on the same session too, the host's            *)
(* cancellation, the deletion of the session and a crash of the process    *)
(* may come.                                                               *)
(*                                                                         *)
(* The stores are used through their contracts: the session store compares *)
(* and swaps (SessionStore), the provider-state store is the one on files, *)
(* whose file name is made of the session and a cleaned provider name, and *)
(* checkpoints live in memory.  The run table is reduced to the outcome of *)
(* a run (RunTable), the loop to how it returns (Coordinator).             *)
(***************************************************************************)
EXTENDS Naturals, Sequences

CONSTANTS
    Runs,
    Sessions,
    NoSession,      \* the session of a run without one
    Providers,
    Requests,       \* what a run may be asked for: a session and a provider
    Stem,           \* Stem[p]: sanitize_provider_stem
    Attached,       \* runs the host registered before: start_on
    Held,           \* runs on which the host may have an operation open at their end
    Faults          \* stores that may fail: "session", "provider", "checkpoint"

ASSUME LaunchAssumption ==
    /\ NoSession \notin Sessions
    /\ Requests \subseteq [session : Sessions \union {NoSession}, provider : Providers]
    /\ Providers = DOMAIN Stem
    /\ Attached \subseteq Runs
    /\ Held \subseteq Runs
    /\ Faults \subseteq {"session", "provider", "checkpoint"}

VARIABLES
    pc,             \* pc[r]: the next step of launch, or of the task it spawned
    request,        \* request[r]: the request launch was called with
    runState,       \* runState[r]: "Absent", "Live" or how the run ended
    copy,           \* copy[r]: session_record
    opaque,         \* opaque[r]: the run whose opaque state the request carries
    snapshot,       \* snapshot[r]: the state the failure path has read
    sessions,       \* the session store
    stateFiles,     \* the provider-state store, by session and stem
    checkpoints,    \* the checkpoint store
    crashed,        \* the process has been restarted
    deleted         \* the sessions that have been deleted once or more

launchVars == <<pc, request, runState, copy, opaque, snapshot, sessions, stateFiles,
                checkpoints, crashed, deleted>>

Stems == {Stem[p] : p \in Providers}
Fresh == [revision |-> 0, messages |-> <<>>]
NoState == [provider |-> "none", by |-> "none"]
NoRun == "none"

Ended == {"Completed", "Failed", "Cancelled", "Lost"}
LaunchSteps == {"load", "start", "loadState", "checkpoint"}
TaskSteps == {"loop", "saveSession", "saveState", "saveCheckpoint", "complete", "fail",
              "snapshot", "failCheckpoint"}
Over == {"refused", "abandoned", "done", "unfinished", "dead"}

NoRequest == [session |-> NoSession, provider |-> "none"]

SessionOf(r) == request[r].session
ProviderOf(r) == request[r].provider
HasSession(r) == SessionOf(r) # NoSession
FileOf(r) == <<SessionOf(r), Stem[ProviderOf(r)]>>

LaunchTypeOK ==
    /\ pc \in [Runs -> {"new"} \union LaunchSteps \union TaskSteps \union Over]
    /\ request \in [Runs -> Requests \union {NoRequest}]
    /\ runState \in [Runs -> {"Absent", "Live"} \union Ended]
    /\ copy \in [Runs -> [revision : Nat, messages : Seq(Runs)]]
    /\ opaque \in [Runs -> Runs \union {NoRun}]
    /\ snapshot \in [Runs -> {"Absent", "Live"} \union Ended]
    /\ sessions \in [Sessions -> [revision : Nat, messages : Seq(Runs)]]
    /\ stateFiles \in [Sessions \X Stems ->
                          {NoState} \union [provider : Providers, by : Runs]]
    /\ checkpoints \in [Runs -> {"none", "Running"} \union Ended]
    /\ crashed \in BOOLEAN
    /\ deleted \subseteq Sessions

LaunchInit ==
    /\ pc = [r \in Runs |-> "new"]
    /\ request = [r \in Runs |-> NoRequest]
    /\ runState = [r \in Runs |-> IF r \in Attached THEN "Live" ELSE "Absent"]
    /\ copy = [r \in Runs |-> Fresh]
    /\ opaque = [r \in Runs |-> NoRun]
    /\ snapshot = [r \in Runs |-> "Absent"]
    /\ sessions = [s \in Sessions |-> Fresh]
    /\ stateFiles = [k \in Sessions \X Stems |-> NoState]
    /\ checkpoints = [r \in Runs |-> "none"]
    /\ crashed = FALSE
    /\ deleted = {}

Goto(r, step) == pc' = [pc EXCEPT ![r] = step]

----------------------------------------------------------------------------
(* launch, up to the spawn of the task.                                    *)

(* validate_request and resolve_required pass or refuse the request.       *)
Accept(r) ==
    /\ pc[r] = "new"
    /\ \E q \in Requests : request' = [request EXCEPT ![r] = q]
    /\ \E next \in {"load", "refused"} : Goto(r, next)
    /\ UNCHANGED <<runState, copy, opaque, snapshot, sessions, stateFiles, checkpoints, crashed, deleted>>

LoadSession(r) ==
    /\ pc[r] = "load"
    /\ \/ /\ copy' = [copy EXCEPT ![r] = IF HasSession(r) THEN sessions[SessionOf(r)] ELSE Fresh]
          /\ Goto(r, "start")
       \/ /\ HasSession(r)
          /\ "session" \in Faults
          /\ Goto(r, "refused")
          /\ UNCHANGED copy
    /\ UNCHANGED <<request, runState, opaque, snapshot, sessions, stateFiles, checkpoints, crashed, deleted>>

(* start registers a run; start_on finds the one the host registered, in   *)
(* whatever state, unless that was before a restart.                       *)
StartRun(r) ==
    /\ pc[r] = "start"
    /\ \/ /\ r \notin Attached
          /\ runState' = [runState EXCEPT ![r] = "Live"]
          /\ Goto(r, "loadState")
       \/ /\ r \in Attached
          /\ Goto(r, IF runState[r] = "Lost" THEN "refused" ELSE "loadState")
          /\ UNCHANGED runState
    /\ UNCHANGED <<request, copy, opaque, snapshot, sessions, stateFiles, checkpoints, crashed, deleted>>

\* Mutant: whatever is in the file is taken.
LoadStateAnyone(r) ==
    /\ pc[r] = "loadState"
    /\ opaque' = [opaque EXCEPT ![r] = IF HasSession(r) THEN stateFiles[FileOf(r)].by ELSE NoRun]
    /\ Goto(r, "checkpoint")
    /\ UNCHANGED <<request, runState, copy, snapshot, sessions, stateFiles, checkpoints, crashed, deleted>>

(* load_sync: a record of another provider is taken for a corrupt one and  *)
(* renamed away.                                                           *)
LoadState(r) ==
    /\ pc[r] = "loadState"
    /\ \/ /\ HasSession(r) => stateFiles[FileOf(r)] = NoState
          /\ Goto(r, "checkpoint")
          /\ UNCHANGED <<opaque, stateFiles>>
       \/ /\ HasSession(r)
          /\ stateFiles[FileOf(r)].provider = ProviderOf(r)
          /\ opaque' = [opaque EXCEPT ![r] = stateFiles[FileOf(r)].by]
          /\ Goto(r, "checkpoint")
          /\ UNCHANGED stateFiles
       \/ /\ HasSession(r)
          /\ stateFiles[FileOf(r)].provider \in Providers \ {ProviderOf(r)}
          /\ stateFiles' = [stateFiles EXCEPT ![FileOf(r)] = NoState]
          /\ Goto(r, "abandoned")
          /\ UNCHANGED opaque
       \/ /\ HasSession(r)
          /\ "provider" \in Faults
          /\ Goto(r, "abandoned")
          /\ UNCHANGED <<opaque, stateFiles>>
    /\ UNCHANGED <<request, runState, copy, snapshot, sessions, checkpoints, crashed, deleted>>

Checkpoint(r, state) == checkpoints' = [checkpoints EXCEPT ![r] = state]

CheckpointFails == "checkpoint" \in Faults /\ UNCHANGED checkpoints

FirstCheckpoint(r) ==
    /\ pc[r] = "checkpoint"
    /\ \/ Checkpoint(r, "Running") /\ Goto(r, "loop")
       \/ CheckpointFails /\ Goto(r, "abandoned")
    /\ UNCHANGED <<request, runState, copy, opaque, snapshot, sessions, stateFiles, crashed, deleted>>

----------------------------------------------------------------------------
(* The task.  The loop returns Ok or an error; what it returns when the    *)
(* run is cancelled meanwhile is left open.                                *)

LoopReturns(r) ==
    /\ pc[r] = "loop"
    /\ Goto(r, IF HasSession(r) THEN "saveSession" ELSE "saveCheckpoint")
       \/ Goto(r, "snapshot")
    /\ UNCHANGED <<request, runState, copy, opaque, snapshot, sessions, stateFiles, checkpoints, crashed, deleted>>

(* The messages of the result are those of the session and the run's own.  *)
SessionSaved(r) ==
    [revision |-> copy[r].revision + 1, messages |-> Append(copy[r].messages, r)]

\* Mutant: the last writer wins.
SaveSessionUnchecked(r) ==
    /\ pc[r] = "saveSession"
    /\ sessions' = [sessions EXCEPT ![SessionOf(r)] = SessionSaved(r)]
    /\ \E next \in {"saveState", "saveCheckpoint"} : Goto(r, next)
    /\ UNCHANGED <<request, runState, copy, opaque, snapshot, stateFiles, checkpoints, crashed, deleted>>

\* Mutant: a conflict is passed over.
SaveSessionOrNot(r) ==
    /\ pc[r] = "saveSession"
    /\ IF sessions[SessionOf(r)].revision = copy[r].revision
       THEN sessions' = [sessions EXCEPT ![SessionOf(r)] = SessionSaved(r)]
       ELSE UNCHANGED sessions
    /\ \E next \in {"saveState", "saveCheckpoint"} : Goto(r, next)
    /\ UNCHANGED <<request, runState, copy, opaque, snapshot, stateFiles, checkpoints, crashed, deleted>>

SaveSession(r) ==
    /\ pc[r] = "saveSession"
    /\ \/ /\ sessions[SessionOf(r)].revision = copy[r].revision
          /\ sessions' = [sessions EXCEPT ![SessionOf(r)] = SessionSaved(r)]
          /\ \E next \in {"saveState", "saveCheckpoint"} : Goto(r, next)
       \/ /\ \/ sessions[SessionOf(r)].revision # copy[r].revision
             \/ "session" \in Faults
          /\ Goto(r, "fail")
          /\ UNCHANGED sessions
    /\ UNCHANGED <<request, runState, copy, opaque, snapshot, stateFiles, checkpoints, crashed, deleted>>

(* Only when the turn left an opaque state.                                *)
SaveState(r) ==
    /\ pc[r] = "saveState"
    /\ \/ /\ stateFiles' = [stateFiles EXCEPT ![FileOf(r)] =
                                [provider |-> ProviderOf(r), by |-> r]]
          /\ Goto(r, "saveCheckpoint")
       \/ /\ "provider" \in Faults
          /\ Goto(r, "fail")
          /\ UNCHANGED stateFiles
    /\ UNCHANGED <<request, runState, copy, opaque, snapshot, sessions, checkpoints, crashed, deleted>>

LastCheckpoint(r) ==
    /\ pc[r] = "saveCheckpoint"
    /\ \/ Checkpoint(r, "Completed") /\ Goto(r, "complete")
       \/ CheckpointFails /\ Goto(r, "fail")
    /\ UNCHANGED <<request, runState, copy, opaque, snapshot, sessions, stateFiles, crashed, deleted>>

(* finish_completed and finish_failed; their errors are dropped: that the  *)
(* run is over, and that an operation of it is not, which leaves it live   *)
(* with no task.                                                           *)
Finish(r, step, outcome) ==
    /\ pc[r] = step
    /\ \/ /\ runState[r] = "Live"
          /\ runState' = [runState EXCEPT ![r] = outcome]
          /\ Goto(r, "done")
       \/ /\ runState[r] # "Live"
          /\ Goto(r, "done")
          /\ UNCHANGED runState
       \/ /\ runState[r] = "Live" /\ r \in Held
          /\ Goto(r, "unfinished")
          /\ UNCHANGED runState
    /\ UNCHANGED <<request, copy, opaque, snapshot, sessions, stateFiles, checkpoints, crashed, deleted>>

(* The failure path: a snapshot, then the checkpoint, then the end.        *)
TakeSnapshot(r) ==
    /\ pc[r] = "snapshot"
    /\ snapshot' = [snapshot EXCEPT ![r] = runState[r]]
    /\ Goto(r, "failCheckpoint")
    /\ UNCHANGED <<request, runState, copy, opaque, sessions, stateFiles, checkpoints, crashed, deleted>>

\* Mutant: an error of the checkpoint store ends the task.
FailureCheckpointOrReturn(r) ==
    /\ pc[r] = "failCheckpoint"
    /\ \/ /\ Checkpoint(r, IF snapshot[r] = "Cancelled" THEN "Cancelled" ELSE "Failed")
          /\ Goto(r, IF snapshot[r] = "Cancelled" THEN "done" ELSE "fail")
       \/ CheckpointFails /\ Goto(r, "done")
    /\ UNCHANGED <<request, runState, copy, opaque, snapshot, sessions, stateFiles, crashed, deleted>>

\* Mutant: every run whose loop failed is checkpointed as cancelled.
FailureCheckpointAsCancel(r) ==
    /\ pc[r] = "failCheckpoint"
    /\ Checkpoint(r, "Cancelled")
    /\ Goto(r, IF snapshot[r] = "Cancelled" THEN "done" ELSE "fail")
    /\ UNCHANGED <<request, runState, copy, opaque, snapshot, sessions, stateFiles, crashed, deleted>>

FailureCheckpoint(r) ==
    /\ pc[r] = "failCheckpoint"
    /\ \/ Checkpoint(r, IF snapshot[r] = "Cancelled" THEN "Cancelled" ELSE "Failed")
       \/ CheckpointFails
    /\ Goto(r, IF snapshot[r] = "Cancelled" THEN "done" ELSE "fail")
    /\ UNCHANGED <<request, runState, copy, opaque, snapshot, sessions, stateFiles, crashed, deleted>>

----------------------------------------------------------------------------
(* The host cancels, or deletes a session; the process dies and is started *)
(* again, with what is on the disk.                                        *)

Cancel(r) ==
    /\ runState[r] = "Live"
    /\ runState' = [runState EXCEPT ![r] = "Cancelled"]
    /\ UNCHANGED <<pc, request, copy, opaque, snapshot, sessions, stateFiles, checkpoints, crashed, deleted>>

(* delete_session asks the session store alone: the provider states of the *)
(* session stay.                                                           *)
DeleteSession(s) ==
    /\ sessions[s] # Fresh
    /\ sessions' = [sessions EXCEPT ![s] = Fresh]
    /\ deleted' = deleted \union {s}
    /\ UNCHANGED <<pc, request, runState, copy, opaque, snapshot, stateFiles, checkpoints, crashed>>

Restart ==
    /\ ~crashed
    /\ crashed' = TRUE
    /\ pc' = [r \in Runs |-> IF pc[r] \in {"new"} \union Over THEN pc[r] ELSE "dead"]
    /\ runState' = [r \in Runs |-> IF runState[r] = "Live" THEN "Lost" ELSE runState[r]]
    /\ checkpoints' = [r \in Runs |-> "none"]
    /\ UNCHANGED <<request, copy, opaque, snapshot, sessions, stateFiles, deleted>>

LaunchStep(r) ==
    \/ Accept(r) \/ LoadSession(r) \/ StartRun(r) \/ LoadState(r) \/ FirstCheckpoint(r)

TaskStep(r) ==
    \/ LoopReturns(r) \/ SaveSession(r) \/ SaveState(r) \/ LastCheckpoint(r)
    \/ Finish(r, "complete", "Completed") \/ Finish(r, "fail", "Failed")
    \/ TakeSnapshot(r) \/ FailureCheckpoint(r)

LaunchNext ==
    \/ \E r \in Runs : LaunchStep(r) \/ TaskStep(r) \/ Cancel(r)
    \/ \E s \in Sessions : DeleteSession(s)
    \/ Restart

(* The executor goes on with what can go on.  That the loop returns is     *)
(* RunEnds of Coordinator.                                                 *)
LaunchSpec ==
    /\ LaunchInit
    /\ [][LaunchNext]_launchVars
    /\ \A r \in Runs : WF_launchVars(TaskStep(r)) /\ WF_launchVars(LaunchStep(r))

----------------------------------------------------------------------------
WrittenBy(s) == {sessions[s].messages[i] : i \in 1 .. Len(sessions[s].messages)}

(* A run that is reported Completed is in its session for good, whichever  *)
(* other runs load and save the same session meanwhile, and across a       *)
(* restart; unless somebody deletes the session, after which a run that    *)
(* had loaded it may also save over one that made it anew.                 *)
CompletedIsPersisted ==
    \A r \in Runs :
        runState[r] = "Completed" /\ HasSession(r) /\ SessionOf(r) \notin deleted =>
            r \in WrittenBy(SessionOf(r))

(* A checkpoint tells a cancellation only of a run that was cancelled, and *)
(* a run that completed is checkpointed as such until the process ends.    *)
CheckpointTellsTheEnd ==
    \A r \in Runs :
        /\ checkpoints[r] = "Cancelled" => runState[r] = "Cancelled"
        /\ runState[r] = "Completed" /\ ~crashed => checkpoints[r] = "Completed"

(* What is stored of a run agrees with how it ended (Aifluxon::launch).     *)
StoredAsItEnded == CompletedIsPersisted /\ CheckpointTellsTheEnd

(* A request carries opaque state only of a run of the same session and    *)
(* provider, though providers may share a file.                            *)
OpaqueStateIsOwn ==
    \A r \in Runs :
        opaque[r] # NoRun => /\ SessionOf(opaque[r]) = SessionOf(r)
                             /\ ProviderOf(opaque[r]) = ProviderOf(r)

(* The provider state on the disk is that of a run whose messages are in   *)
(* the session, also after a crash between the two saves.  The state of a  *)
(* session that was deleted stays, and is given to a run that makes the    *)
(* session anew.                                                           *)
StateHasItsMessages ==
    \A s \in Sessions \ deleted, p \in Providers :
        stateFiles[<<s, Stem[p]>>] # NoState => stateFiles[<<s, Stem[p]>>].by \in WrittenBy(s)

(* A provider is given the state it left for the same conversation          *)
(* (load_opaque_state, save_opaque_state).                                  *)
ProviderStateFits == OpaqueStateIsOwn /\ StateHasItsMessages

(* A provider state is never replaced by that of an earlier turn of the    *)
(* session (docs/python/sessions.md:64, stale writes are conflicts).  Not   *)
(* kept: of two runs, the one that is behind may be the last to save it.   *)
Place(s, r) == CHOOSE i \in 1 .. Len(sessions[s].messages) : sessions[s].messages[i] = r
StateGoesForward ==
    [][\A s \in Sessions, p \in Providers :
        LET old == stateFiles[<<s, Stem[p]>>]
            new == stateFiles'[<<s, Stem[p]>>]
        IN {old.by, new.by} \subseteq WrittenBy(s) => Place(s, old.by) <= Place(s, new.by)]_launchVars

(* A run whose launch returned a handle reaches an outcome, whichever      *)
(* store fails, unless its end is refused for an operation that the host   *)
(* has open on it.                                                         *)
HandledRunsEnd ==
    \A r \in Runs : pc[r] = "loop" ~> runState[r] \in Ended \/ pc[r] = "unfinished"

(* README.md: "each run has exactly one terminal outcome".                 *)
StartedRunsEnd ==
    \A r \in Runs : runState[r] = "Live" /\ pc[r] = "loadState" ~> runState[r] \in Ended
=============================================================================
