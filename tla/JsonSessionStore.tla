-------------------------- MODULE JsonSessionStore --------------------------
(***************************************************************************)
(* JsonFileSessionStore: one file per session, an index written after      *)
(* every change, and a lock file.  Each method runs on a worker thread     *)
(* that takes the file lock, works step by step and drops the lock at its  *)
(* end; clients may be threads or processes.  Any step may meet an I/O     *)
(* error, a client may die in any of them (the system then releases its    *)
(* lock), and a record file may be damaged from outside.                   *)
(*                                                                         *)
(* A damaged file is one that does not parse, has another schema version   *)
(* or names another session.  Whoever reads it renames it away and returns *)
(* an error.  A listing of the directory that cannot give an entry is none: *)
(* it goes on without it.                                                  *)
(***************************************************************************)
EXTENDS Naturals, Sequences

CONSTANTS Sessions, Clients, Removable, MaxRevision,
    NoOne       \* the holder of the lock when it is free

ASSUME NoOneAssumption == NoOne \notin Clients

VARIABLES
    files,      \* files[s]: the record file as it was last written
    damaged,    \* sessions whose record file is damaged
    index,      \* index[s]: the revision index.json shows, 0 if none
    lock,       \* the client that holds store.lock
    at,         \* at[c]: where the worker of c is
    overlooked, \* history: records that the holder's listing did not give
    phase, sess, copy, answer, listed

fileVars == <<files, damaged, index>>
workVars == <<lock, at, overlooked>>
callVars == <<phase, sess, copy, answer, listed>>
jsonVars == <<files, damaged, index, lock, at, overlooked, phase, sess, copy, answer, listed>>

(* What clients can get out of the files: damage takes the record away.    *)
Readable == [s \in Sessions |-> IF s \in damaged
                                THEN [revision |-> 0, messages |-> <<>>]
                                ELSE files[s]]

Store == INSTANCE SessionStore WITH records <- Readable

Steps == {"off", "locked", "checked", "written", "done"}

JsonTypeOK ==
    /\ Store!SessionTypeOK
    /\ files \in [Sessions -> Store!Record]
    /\ damaged \subseteq Sessions
    /\ index \in [Sessions -> Nat]
    /\ lock \in Clients \union {NoOne}
    /\ at \in [Clients -> Steps]
    /\ overlooked \subseteq Sessions

JsonInit ==
    /\ files = [s \in Sessions |-> Store!Fresh]
    /\ damaged = {}
    /\ index = [s \in Sessions |-> 0]
    /\ lock = NoOne
    /\ at = [c \in Clients |-> "off"]
    /\ overlooked = {}
    /\ Store!SessionInit

----------------------------------------------------------------------------
Goes(c, step) == at' = [at EXCEPT ![c] = step]
Answers(c, a) == answer' = [answer EXCEPT ![c] = a]

(* quarantine_corrupt renames the file away.                               *)
Quarantine(s) ==
    /\ damaged' = damaged \ {s}
    /\ files' = [files EXCEPT ![s] = Store!Fresh]

\* Mutant: a shared lock.
LockShared(c) ==
    /\ phase[c] \in Store!CallPhases
    /\ answer[c] = "Open"
    /\ at[c] = "off"
    /\ lock' = c
    /\ Goes(c, "locked")
    /\ UNCHANGED overlooked
    /\ UNCHANGED fileVars
    /\ UNCHANGED callVars

(* acquire_store_lock, at the start of every method.                       *)
Lock(c) ==
    /\ phase[c] \in Store!CallPhases
    /\ answer[c] = "Open"
    /\ at[c] = "off"
    /\ lock = NoOne
    /\ lock' = c
    /\ Goes(c, "locked")
    /\ UNCHANGED overlooked
    /\ UNCHANGED fileVars
    /\ UNCHANGED callVars

ReadRecord(c) ==
    /\ phase[c] = "load"
    /\ at[c] = "locked"
    /\ Goes(c, "done")
    /\ \/ /\ sess[c] \in damaged
          /\ Quarantine(sess[c])
          /\ Answers(c, "Failed")
          /\ UNCHANGED copy
       \/ /\ sess[c] \notin damaged
          /\ copy' = [copy EXCEPT ![c] = files[sess[c]]]
          /\ Answers(c, "Ok")
          /\ UNCHANGED <<files, damaged>>
    /\ UNCHANGED <<index, lock, overlooked, phase, sess, listed>>

CheckRevision(c) ==
    /\ phase[c] = "save"
    /\ at[c] = "locked"
    /\ \/ /\ sess[c] \in damaged
          /\ Quarantine(sess[c])
          /\ Answers(c, "Failed")
          /\ Goes(c, "done")
       \/ /\ sess[c] \notin damaged
          /\ files[sess[c]].revision # copy[c].revision
          /\ Answers(c, "Conflict")
          /\ Goes(c, "done")
          /\ UNCHANGED <<files, damaged>>
       \/ /\ sess[c] \notin damaged
          /\ files[sess[c]].revision = copy[c].revision
          /\ Goes(c, "checked")
          /\ UNCHANGED <<files, damaged, answer>>
    /\ UNCHANGED <<index, lock, overlooked, phase, sess, copy, listed>>

(* atomic_write_json replaces the file as a whole, a damaged one too.      *)
WriteRecord(c) ==
    /\ phase[c] = "save"
    /\ at[c] = "checked"
    /\ files' = [files EXCEPT ![sess[c]] = Store!Saved(copy[c])]
    /\ damaged' = damaged \ {sess[c]}
    /\ Answers(c, "Ok")
    /\ Goes(c, "written")
    /\ UNCHANGED <<index, lock, overlooked, phase, sess, copy, listed>>

\* Mutant: delete leaves the index as it is.
RemoveRecordOnly(c) ==
    /\ phase[c] = "delete"
    /\ at[c] = "locked"
    /\ files' = [files EXCEPT ![sess[c]] = Store!Fresh]
    /\ damaged' = damaged \ {sess[c]}
    /\ Answers(c, "Ok")
    /\ Goes(c, "done")
    /\ UNCHANGED <<index, lock, overlooked, phase, sess, copy, listed>>

RemoveRecord(c) ==
    /\ phase[c] = "delete"
    /\ at[c] = "locked"
    /\ files' = [files EXCEPT ![sess[c]] = Store!Fresh]
    /\ damaged' = damaged \ {sess[c]}
    /\ Answers(c, "Ok")
    /\ Goes(c, "written")
    /\ UNCHANGED <<index, lock, overlooked, phase, sess, copy, listed>>

(* list_sync reads the records in the order of their file names and stops  *)
(* at the first damaged one; which one comes first is left open.           *)
ScanFails(c) ==
    /\ \E s \in damaged : Quarantine(s)
    /\ Answers(c, "Failed")
    /\ UNCHANGED <<index, overlooked, listed>>

(* filter_map(Result::ok): an entry whose reading fails is left out, and   *)
(* nobody is told.  The record of such an entry is not read, so that it    *)
(* may be damaged.                                                         *)
Scan(seen) ==
    /\ damaged \intersect seen = {}
    /\ overlooked' = {s \in Sessions \ seen : files[s] # Store!Fresh}
    /\ index' = Store!RevisionsOf(files, seen)
    /\ UNCHANGED <<files, damaged>>

(* write_index_sync, the last step of save and delete.                     *)
WriteIndex(c) ==
    /\ at[c] = "written"
    /\ Goes(c, "done")
    /\ \/ ScanFails(c)
       \/ /\ \E seen \in SUBSET Sessions : Scan(seen)
          /\ UNCHANGED <<answer, listed>>
    /\ UNCHANGED <<lock, phase, sess, copy>>

ListRecords(c) ==
    /\ phase[c] = "list"
    /\ at[c] = "locked"
    /\ Goes(c, "done")
    /\ \/ ScanFails(c)
       \/ /\ \E seen \in SUBSET Sessions :
                /\ Scan(seen)
                /\ listed' = [listed EXCEPT ![c] = Store!RevisionsOf(files, seen)]
          /\ Answers(c, "Ok")
    /\ UNCHANGED <<lock, phase, sess, copy>>

(* An I/O error of the step that comes next, or of opening the lock file.  *)
IoError(c) ==
    /\ phase[c] \in Store!CallPhases
    /\ \/ at[c] \in {"locked", "checked", "written"}
       \/ at[c] = "off" /\ answer[c] = "Open"
    /\ Answers(c, "Failed")
    /\ Goes(c, IF at[c] = "off" THEN "off" ELSE "done")
    /\ UNCHANGED <<files, damaged, index, lock, overlooked, phase, sess, copy, listed>>

Unlock(c) ==
    /\ at[c] = "done"
    /\ lock' = NoOne
    /\ overlooked' = {}
    /\ Goes(c, "off")
    /\ UNCHANGED fileVars
    /\ UNCHANGED callVars

----------------------------------------------------------------------------
(* The clients: their calls are those of the contract.                     *)

CallStep(c) ==
    /\ UNCHANGED fileVars
    /\ UNCHANGED workVars
    /\ Store!ClientNext(c)

ReturnStep(c) ==
    /\ at[c] = "off"
    /\ UNCHANGED fileVars
    /\ UNCHANGED workVars
    /\ Store!Return(c)

\* Mutant: the lock is a file that has to be removed.
CrashKeepingLock(c) ==
    /\ UNCHANGED fileVars
    /\ UNCHANGED <<lock, overlooked>>
    /\ Goes(c, "off")
    /\ Store!Crash(c)

Crash(c) ==
    /\ UNCHANGED fileVars
    /\ lock' = IF lock = c THEN NoOne ELSE lock
    /\ overlooked' = IF lock = c THEN {} ELSE overlooked
    /\ Goes(c, "off")
    /\ Store!Crash(c)

(* Damage between the check and the write of a save is overwritten, as if  *)
(* it had not been.                                                        *)
Damage(s) ==
    /\ s \in Removable
    /\ files[s] # Store!Fresh
    /\ s \notin damaged
    /\ \A c \in Clients : ~(at[c] = "checked" /\ sess[c] = s)
    /\ damaged' = damaged \union {s}
    /\ UNCHANGED <<files, index>>
    /\ UNCHANGED workVars
    /\ UNCHANGED callVars

WorkerStep(c) ==
    \/ ReadRecord(c) \/ CheckRevision(c) \/ WriteRecord(c)
    \/ RemoveRecord(c) \/ WriteIndex(c) \/ ListRecords(c)
    \/ Unlock(c)

JsonNext ==
    \/ \E c \in Clients :
          \/ Lock(c) \/ WorkerStep(c) \/ IoError(c)
          \/ CallStep(c) \/ ReturnStep(c) \/ Crash(c)
    \/ \E s \in Sessions : Damage(s)

JsonSpec == JsonInit /\ [][JsonNext]_jsonVars

(* A worker runs on; the system hands the lock to every one that waits.    *)
Fairness ==
    \A c \in Clients :
        /\ SF_jsonVars(Lock(c))
        /\ WF_jsonVars(WorkerStep(c))
        /\ WF_jsonVars(ReturnStep(c))

LiveJsonSpec == JsonSpec /\ Fairness

----------------------------------------------------------------------------
(* The file store keeps the promise of the contract: every behaviour of    *)
(* its steps, crashes and errors is one of the store whose methods are     *)
(* atomic, but that a list may lack what the directory did not give.       *)
ImplementsSessionStore == Store!SessionSpec

(* docs/python/sessions.md: "the index is derived".  A call that changed   *)
(* the records, or listed them, and is about to return Ok has left an      *)
(* index that shows the record files as they are and no other, but those   *)
(* that its listing of the directory was not given.                        *)
IndexFollowsRecords ==
    \A c \in Clients :
        at[c] = "done" /\ answer[c] = "Ok" /\ phase[c] # "load"
            => index = Store!RevisionsOf(files, Sessions \ overlooked)

(* Every call returns, whichever clients died holding the lock.            *)
CallsReturn ==
    \A c \in Clients :
        phase[c] \in Store!CallPhases ~> phase[c] \notin Store!CallPhases
=============================================================================
