----------------------- MODULE JsonSessionStoreProofs -----------------------
(***************************************************************************)
(* JsonFileSessionStore implements the contract of a session store, for    *)
(* any sessions and clients, with crashes, I/O errors and damaged records. *)
(***************************************************************************)
EXTENDS JsonSessionStore, TLAPS

(* Whoever is inside a method holds the lock, and nobody else does.        *)
WorkersHoldLock == \A c \in Clients : at[c] # "off" <=> lock = c

(* What a worker knows where it is.  After the check of a save nobody else *)
(* can have touched the file, so that the check still holds at the write.  *)
WorkersKnow ==
    \A c \in Clients :
        /\ at[c] = "locked" => phase[c] \in Store!CallPhases /\ answer[c] = "Open"
        /\ at[c] = "checked" =>
               /\ phase[c] = "save"
               /\ answer[c] = "Open"
               /\ sess[c] \notin damaged
               /\ files[sess[c]].revision = copy[c].revision
        /\ at[c] = "written" => phase[c] \in {"save", "delete"} /\ answer[c] = "Ok"
        /\ at[c] = "done" => phase[c] \in Store!CallPhases /\ answer[c] # "Open"

(* The inductive invariant.                                                *)
JsonInv == JsonTypeOK /\ WorkersHoldLock /\ WorkersKnow

(* A quarantine changes nothing that clients can read.                     *)
LEMMA QuarantineIsInvisible ==
    ASSUME JsonTypeOK, NEW s \in damaged, Quarantine(s)
    PROVE  /\ Readable' = Readable
           /\ files' \in [Sessions -> Store!Record]
           /\ damaged' \subseteq Sessions
<1>1. Store!Fresh \in Store!Record
  BY DEF Store!Fresh, Store!Record
<1>2. \A t \in Sessions : files'[t] = IF t = s THEN Store!Fresh ELSE files[t]
  BY DEF Quarantine, JsonTypeOK
<1>3. \A t \in Sessions : t \in damaged' <=> t \in damaged /\ t # s
  BY DEF Quarantine
<1>4. Readable' = Readable
  BY <1>2, <1>3 DEF Readable, Store!Fresh
<1>5. files' \in [Sessions -> Store!Record]
  BY <1>1 DEF Quarantine, JsonTypeOK
<1>6. damaged' \subseteq Sessions
  BY DEF Quarantine, JsonTypeOK
<1> QED BY <1>4, <1>5, <1>6

(* A file that is replaced or removed under the lock.                      *)
LEMMA ReplaceRecord ==
    ASSUME JsonTypeOK, NEW s \in Sessions, NEW r \in Store!Record,
           files' = [files EXCEPT ![s] = r], damaged' = damaged \ {s}
    PROVE  /\ Readable' = [Readable EXCEPT ![s] = r]
           /\ files' \in [Sessions -> Store!Record]
           /\ damaged' \subseteq Sessions
BY DEF Readable, JsonTypeOK

LEMMA JsonInitInv ==
    JsonInit => JsonInv
<1> SUFFICES ASSUME JsonInit PROVE JsonInv
    OBVIOUS
<1>1. Store!Fresh \in Store!Record
  BY DEF Store!Fresh, Store!Record
<1>2. Readable = [s \in Sessions |-> Store!Fresh]
  BY DEF JsonInit, Readable, Store!Fresh
<1>3. Store!SessionTypeOK
  BY <1>1, <1>2 DEF JsonInit, Store!SessionInit, Store!SessionTypeOK, Store!Phases,
                    Store!CallPhases, Store!Outcomes, Store!NothingListed
<1>4. JsonTypeOK
  BY <1>1, <1>3 DEF JsonInit, JsonTypeOK, Steps
<1>5. WorkersHoldLock /\ WorkersKnow
  BY NoOneAssumption DEF JsonInit, WorkersHoldLock, WorkersKnow
<1> QED BY <1>4, <1>5 DEF JsonInv

(* What is readable is typed when the files are.                           *)
LEMMA ReadableType ==
    (files \in [Sessions -> Store!Record] => Readable \in [Sessions -> Store!Record])'
<1>1. Store!Fresh \in Store!Record
  BY DEF Store!Fresh, Store!Record
<1> QED BY <1>1 DEF Readable, Store!Fresh

(* The parts of the invariant after a step of the worker of c: the others  *)
(* are not inside a method, so that only c's own place has to be looked at. *)
LEMMA WorkerFrame ==
    ASSUME JsonInv, NEW c \in Clients, lock = c,
           files' \in [Sessions -> Store!Record], damaged' \subseteq Sessions,
           index' \in [Sessions -> Nat], overlooked' \subseteq Sessions,
           NEW step \in Steps, Goes(c, step), lock' = (IF step = "off" THEN NoOne ELSE c),
           NEW a \in Store!Outcomes, Answers(c, a),
           copy' \in [Clients -> Store!Record], listed' \in [Clients -> [Sessions -> Nat]],
           UNCHANGED <<phase, sess>>,
           step = "checked" => /\ phase[c] = "save"
                               /\ a = "Open"
                               /\ sess[c] \notin damaged'
                               /\ files'[sess[c]].revision = copy'[c].revision,
           step = "written" => phase[c] \in {"save", "delete"} /\ a = "Ok",
           step = "done" => phase[c] \in Store!CallPhases /\ a # "Open",
           step # "locked"
    PROVE  JsonInv'
<1> USE NoOneAssumption
<1>1. Readable' \in [Sessions -> Store!Record]
  BY ReadableType
<1>2. /\ at' = [at EXCEPT ![c] = step] /\ answer' = [answer EXCEPT ![c] = a]
      /\ at \in [Clients -> Steps] /\ answer \in [Clients -> Store!Outcomes]
  BY DEF JsonInv, JsonTypeOK, Store!SessionTypeOK, Goes, Answers
<1>3. JsonTypeOK'
  BY <1>1, <1>2 DEF JsonInv, JsonTypeOK, Store!SessionTypeOK
<1>4. \A d \in Clients \ {c} : at'[d] = "off"
  BY <1>2 DEF JsonInv, WorkersHoldLock
<1>5. at'[c] = step /\ answer'[c] = a
  BY <1>2
<1>6. WorkersHoldLock'
  BY <1>4, <1>5 DEF WorkersHoldLock
<1>7. WorkersKnow'
  BY <1>4, <1>5 DEF WorkersKnow
<1> QED BY <1>3, <1>6, <1>7 DEF JsonInv

(* The steps of a worker keep the invariant.                               *)
LEMMA WorkerInv ==
    ASSUME JsonInv, NEW c \in Clients, Lock(c) \/ WorkerStep(c) \/ IoError(c)
    PROVE  JsonInv'
<1> USE NoOneAssumption
<1>1. /\ JsonTypeOK
      /\ files \in [Sessions -> Store!Record] /\ damaged \subseteq Sessions
      /\ index \in [Sessions -> Nat] /\ sess[c] \in Sessions
      /\ copy \in [Clients -> Store!Record] /\ copy[c] \in Store!Record
      /\ listed \in [Clients -> [Sessions -> Nat]]
      /\ at \in [Clients -> Steps] /\ answer \in [Clients -> Store!Outcomes]
      /\ lock \in Clients \union {NoOne}
  BY DEF JsonInv, JsonTypeOK, Store!SessionTypeOK
<1>2. at[c] # "off" => lock = c
  BY DEF JsonInv, WorkersHoldLock
<1>3. /\ at[c] = "checked" => answer[c] = "Open"
      /\ at[c] = "written" => phase[c] \in Store!CallPhases /\ answer[c] = "Ok"
      /\ at[c] = "locked" => answer[c] = "Open"
      /\ at[c] = "done" => answer[c] # "Open"
  BY DEF JsonInv, WorkersKnow, Store!CallPhases
<1>4. \A seen : Store!RevisionsOf(files, seen) \in [Sessions -> Nat]
  BY <1>1 DEF Store!RevisionsOf, Store!Record
<1>18. overlooked' \subseteq Sessions
  BY DEF JsonInv, JsonTypeOK, Lock, WorkerStep, IoError, ReadRecord, CheckRevision, WriteRecord,
         RemoveRecord, WriteIndex, ListRecords, Unlock, ScanFails, Scan
<1>5. answer = [answer EXCEPT ![c] = answer[c]] /\ answer[c] \in Store!Outcomes
  BY <1>1
<1>6. {"locked", "checked", "written", "done", "off"} \subseteq Steps
      /\ {"Open", "Ok", "Conflict", "Failed"} \subseteq Store!Outcomes
      /\ {"load", "save", "delete", "list"} \subseteq Store!CallPhases
  BY DEF Steps, Store!Outcomes, Store!CallPhases
<1>7. CASE Lock(c)
  <2>1. /\ \A d \in Clients : at[d] = "off"
        /\ at' = [at EXCEPT ![c] = "locked"] /\ lock' = c
        /\ UNCHANGED fileVars /\ UNCHANGED callVars
    BY <1>7 DEF Lock, Goes, JsonInv, WorkersHoldLock
  <2>2. Readable' = Readable
    BY <2>1 DEF Readable, fileVars
  <2>3. JsonTypeOK'
    BY <1>1, <1>6, <1>18, <2>1, <2>2 DEF JsonTypeOK, Store!SessionTypeOK, fileVars, callVars
  <2>4. WorkersHoldLock' /\ WorkersKnow'
    BY <1>1, <1>7, <2>1 DEF WorkersHoldLock, WorkersKnow, callVars, Lock
  <2> QED BY <2>3, <2>4 DEF JsonInv
<1>8. ASSUME NEW step \in {"checked", "written", "done", "off"}, Goes(c, step),
             NEW a \in Store!Outcomes, Answers(c, a),
             at[c] # "off", lock' = (IF step = "off" THEN NoOne ELSE lock),
             files' \in [Sessions -> Store!Record], damaged' \subseteq Sessions,
             index' \in [Sessions -> Nat],
             copy' \in [Clients -> Store!Record], listed' \in [Clients -> [Sessions -> Nat]],
             UNCHANGED <<phase, sess>>,
             step = "checked" => /\ phase[c] = "save"
                                 /\ a = "Open"
                                 /\ sess[c] \notin damaged'
                                 /\ files'[sess[c]].revision = copy'[c].revision,
             step = "written" => phase[c] \in {"save", "delete"} /\ a = "Ok",
             step = "done" => phase[c] \in Store!CallPhases /\ a # "Open"
      PROVE  JsonInv'
  BY <1>2, <1>6, <1>8, <1>18, WorkerFrame
<1>9. CASE ReadRecord(c)
  <2>1. CASE sess[c] \in damaged
    <3>1. files' \in [Sessions -> Store!Record] /\ damaged' \subseteq Sessions
      BY <1>1, <1>9, <2>1, QuarantineIsInvisible DEF ReadRecord
    <3>2. Answers(c, "Failed") /\ Goes(c, "done") /\ at[c] # "off"
          /\ UNCHANGED <<index, lock, phase, sess, copy, listed>> /\ phase[c] = "load"
      BY <1>9, <2>1 DEF ReadRecord
    <3> QED BY <1>1, <1>6, <1>8, <3>1, <3>2
  <2>2. CASE sess[c] \notin damaged
    <3>1. Answers(c, "Ok") /\ Goes(c, "done") /\ at[c] # "off" /\ phase[c] = "load"
          /\ UNCHANGED <<files, damaged, index, lock, phase, sess, listed>>
          /\ copy' \in [Clients -> Store!Record]
      BY <1>1, <1>9, <2>2 DEF ReadRecord
    <3> QED BY <1>1, <1>6, <1>8, <3>1
  <2> QED BY <2>1, <2>2
<1>10. CASE CheckRevision(c)
  <2>1. CASE sess[c] \in damaged
    <3>1. files' \in [Sessions -> Store!Record] /\ damaged' \subseteq Sessions
      BY <1>1, <1>10, <2>1, QuarantineIsInvisible DEF CheckRevision
    <3>2. Answers(c, "Failed") /\ Goes(c, "done") /\ at[c] # "off"
          /\ UNCHANGED <<index, lock, phase, sess, copy, listed>> /\ phase[c] = "save"
      BY <1>10, <2>1 DEF CheckRevision
    <3> QED BY <1>1, <1>6, <1>8, <3>1, <3>2
  <2>2. CASE sess[c] \notin damaged /\ files[sess[c]].revision # copy[c].revision
    <3>1. Answers(c, "Conflict") /\ Goes(c, "done") /\ at[c] # "off" /\ phase[c] = "save"
          /\ UNCHANGED <<files, damaged, index, lock, phase, sess, copy, listed>>
      BY <1>10, <2>2 DEF CheckRevision
    <3> QED BY <1>1, <1>6, <1>8, <3>1
  <2>3. CASE sess[c] \notin damaged /\ files[sess[c]].revision = copy[c].revision
    <3>1. Goes(c, "checked") /\ at[c] # "off" /\ phase[c] = "save" /\ answer[c] = "Open"
          /\ UNCHANGED <<files, damaged, index, lock, phase, sess, copy, listed, answer>>
      BY <1>3, <1>10, <2>3 DEF CheckRevision
    <3>2. Answers(c, "Open")
      BY <1>5, <3>1 DEF Answers
    <3> QED BY <1>1, <1>6, <1>8, <2>3, <3>1, <3>2
  <2> QED BY <2>1, <2>2, <2>3
<1>11. CASE WriteRecord(c)
  <2>1. Store!Saved(copy[c]) \in Store!Record
    BY <1>1 DEF Store!Saved, Store!Record
  <2>2. files' \in [Sessions -> Store!Record] /\ damaged' \subseteq Sessions
    BY <1>1, <1>11, <2>1, ReplaceRecord DEF WriteRecord
  <2>3. Answers(c, "Ok") /\ Goes(c, "written") /\ at[c] # "off" /\ phase[c] = "save"
        /\ UNCHANGED <<index, lock, phase, sess, copy, listed>>
    BY <1>11 DEF WriteRecord
  <2> QED BY <1>1, <1>6, <1>8, <2>2, <2>3
<1>12. CASE RemoveRecord(c)
  <2>1. Store!Fresh \in Store!Record
    BY DEF Store!Fresh, Store!Record
  <2>2. files' \in [Sessions -> Store!Record] /\ damaged' \subseteq Sessions
    BY <1>1, <1>12, <2>1, ReplaceRecord DEF RemoveRecord
  <2>3. Answers(c, "Ok") /\ Goes(c, "written") /\ at[c] # "off" /\ phase[c] = "delete"
        /\ UNCHANGED <<index, lock, phase, sess, copy, listed>>
    BY <1>12 DEF RemoveRecord
  <2> QED BY <1>1, <1>6, <1>8, <2>2, <2>3
<1>13. ASSUME ScanFails(c), Goes(c, "done"), at[c] # "off", phase[c] \in Store!CallPhases,
              UNCHANGED <<lock, phase, sess, copy>>
       PROVE  JsonInv'
  <2>1. files' \in [Sessions -> Store!Record] /\ damaged' \subseteq Sessions
    BY <1>1, <1>13, QuarantineIsInvisible DEF ScanFails
  <2>2. Answers(c, "Failed") /\ UNCHANGED <<index, listed>>
    BY <1>13 DEF ScanFails
  <2> QED BY <1>1, <1>6, <1>8, <1>13, <2>1, <2>2
<1>14. CASE WriteIndex(c)
  <2>1. Goes(c, "done") /\ at[c] # "off" /\ phase[c] \in Store!CallPhases
        /\ answer[c] = "Ok" /\ UNCHANGED <<lock, phase, sess, copy>>
    BY <1>3, <1>14 DEF WriteIndex
  <2>2. CASE ScanFails(c)
    BY <1>13, <2>1, <2>2
  <2>3. CASE ~ScanFails(c)
    <3>1. index' \in [Sessions -> Nat] /\ UNCHANGED <<files, damaged, answer, listed>>
      BY <1>4, <1>14, <2>3 DEF WriteIndex, Scan
    <3>2. Answers(c, "Ok")
      BY <1>5, <2>1, <3>1 DEF Answers
    <3> QED BY <1>1, <1>6, <1>8, <2>1, <3>1, <3>2
  <2> QED BY <2>2, <2>3
<1>15. CASE ListRecords(c)
  <2>1. Goes(c, "done") /\ at[c] # "off" /\ phase[c] \in Store!CallPhases
        /\ UNCHANGED <<lock, phase, sess, copy>>
    BY <1>6, <1>15 DEF ListRecords
  <2>2. CASE ScanFails(c)
    BY <1>13, <2>1, <2>2
  <2>3. CASE ~ScanFails(c)
    <3>1. index' \in [Sessions -> Nat] /\ listed' \in [Clients -> [Sessions -> Nat]]
          /\ Answers(c, "Ok") /\ UNCHANGED <<files, damaged>>
      BY <1>1, <1>4, <1>15, <2>3 DEF ListRecords, Scan
    <3> QED BY <1>1, <1>6, <1>8, <2>1, <3>1
  <2> QED BY <2>2, <2>3
<1>16. CASE IoError(c)
  <2>1. /\ phase[c] \in Store!CallPhases /\ Answers(c, "Failed")
        /\ UNCHANGED <<files, damaged, index, lock, phase, sess, copy, listed>>
    BY <1>16 DEF IoError
  <2>2. CASE at[c] # "off"
    <3>1. Goes(c, "done")
      BY <1>16, <2>2 DEF IoError
    <3> QED BY <1>1, <1>6, <1>8, <2>1, <2>2, <3>1
  <2>3. CASE at[c] = "off"
    <3>1. at' = at
      BY <1>1, <1>16, <2>3 DEF IoError, Goes
    <3>2. Readable' = Readable
      BY <2>1 DEF Readable
    <3>3. answer' = [answer EXCEPT ![c] = "Failed"]
      BY <2>1 DEF Answers
    <3>4. JsonTypeOK'
      BY <1>1, <1>6, <1>18, <2>1, <3>1, <3>2, <3>3 DEF JsonTypeOK, Store!SessionTypeOK
    <3>5. WorkersHoldLock'
      BY <2>1, <3>1 DEF JsonInv, WorkersHoldLock
    <3>6. WorkersKnow'
      BY <1>1, <2>1, <2>3, <3>1, <3>3 DEF JsonInv, WorkersKnow
    <3> QED BY <3>4, <3>5, <3>6 DEF JsonInv
  <2> QED BY <2>2, <2>3
<1>17. CASE Unlock(c)
  <2>1. /\ Goes(c, "off") /\ at[c] # "off" /\ lock' = NoOne
        /\ UNCHANGED <<files, damaged, index, phase, sess, copy, answer, listed>>
    BY <1>17 DEF Unlock, fileVars, callVars
  <2>2. Answers(c, answer[c])
    BY <1>5, <2>1 DEF Answers
  <2> QED BY <1>1, <1>5, <1>8, <2>1, <2>2
<1> QED
  BY <1>7, <1>9, <1>10, <1>11, <1>12, <1>14, <1>15, <1>16, <1>17 DEF WorkerStep

(* A step of the client of c, which is not inside a method or dies in it,  *)
(* moves only its own call.                                                *)
LEMMA ClientFrame ==
    ASSUME JsonInv, NEW c \in Clients, UNCHANGED fileVars, overlooked' \subseteq Sessions,
           lock' = (IF lock = c THEN NoOne ELSE lock), at' = [at EXCEPT ![c] = "off"],
           NEW p \in Store!Phases, phase' = [phase EXCEPT ![c] = p],
           NEW s \in Sessions, sess' = [sess EXCEPT ![c] = s],
           NEW r \in Store!Record, copy' = [copy EXCEPT ![c] = r],
           NEW a \in Store!Outcomes, answer' = [answer EXCEPT ![c] = a],
           listed' \in [Clients -> [Sessions -> Nat]]
    PROVE  JsonInv'
<1> USE NoOneAssumption
<1>1. Readable' = Readable
  BY DEF Readable, fileVars
<1>2. /\ at \in [Clients -> Steps] /\ phase \in [Clients -> Store!Phases]
      /\ sess \in [Clients -> Sessions] /\ copy \in [Clients -> Store!Record]
      /\ answer \in [Clients -> Store!Outcomes] /\ "off" \in Steps
      /\ lock \in Clients \union {NoOne}
  BY DEF JsonInv, JsonTypeOK, Store!SessionTypeOK, Steps
<1>3. JsonTypeOK'
  BY <1>1, <1>2 DEF JsonInv, JsonTypeOK, Store!SessionTypeOK, fileVars
<1>4. /\ at'[c] = "off"
      /\ \A d \in Clients \ {c} : /\ at'[d] = at[d] /\ phase'[d] = phase[d]
                                 /\ sess'[d] = sess[d] /\ copy'[d] = copy[d]
                                 /\ answer'[d] = answer[d]
  BY <1>2
<1>5. WorkersHoldLock'
  BY <1>2, <1>4 DEF JsonInv, WorkersHoldLock
<1>6. WorkersKnow'
  BY <1>4 DEF JsonInv, WorkersKnow, fileVars
<1> QED BY <1>3, <1>5, <1>6 DEF JsonInv

(* The steps of a client keep the invariant.                               *)
LEMMA ClientInv ==
    ASSUME JsonInv, NEW c \in Clients, CallStep(c) \/ ReturnStep(c) \/ Crash(c)
    PROVE  JsonInv'
<1> USE NoOneAssumption
<1>1. /\ phase \in [Clients -> Store!Phases]
      /\ sess \in [Clients -> Sessions] /\ copy \in [Clients -> Store!Record]
      /\ answer \in [Clients -> Store!Outcomes] /\ at \in [Clients -> Steps]
      /\ listed \in [Clients -> [Sessions -> Nat]]
      /\ lock \in Clients \union {NoOne}
  BY DEF JsonInv, JsonTypeOK, Store!SessionTypeOK
<1>2. /\ phase[c] \in Store!Phases /\ sess[c] \in Sessions /\ copy[c] \in Store!Record
      /\ answer[c] \in Store!Outcomes
      /\ sess = [sess EXCEPT ![c] = sess[c]] /\ copy = [copy EXCEPT ![c] = copy[c]]
      /\ answer = [answer EXCEPT ![c] = answer[c]]
  BY <1>1
<1>3. /\ {"idle", "copied", "load", "save", "delete", "list"} \subseteq Store!Phases
      /\ {"Open", "Ok", "Conflict", "Failed"} \subseteq Store!Outcomes
      /\ Store!Fresh \in Store!Record /\ Store!NothingListed \in [Sessions -> Nat]
  BY DEF Store!Phases, Store!CallPhases, Store!Outcomes, Store!Fresh, Store!Record,
         Store!NothingListed
<1>4. Store!Longer(copy[c], c) \in Store!Record
  <2>1. copy[c].revision \in Nat /\ Append(copy[c].messages, c) \in Seq(Clients)
    BY <1>2 DEF Store!Record
  <2> QED BY <2>1 DEF Store!Longer, Store!Record
<1>5. ASSUME at[c] = "off", UNCHANGED workVars
      PROVE  /\ lock' = (IF lock = c THEN NoOne ELSE lock)
             /\ at' = [at EXCEPT ![c] = "off"]
  BY <1>1, <1>5 DEF workVars, JsonInv, WorkersHoldLock
<1>10. overlooked' \subseteq Sessions
  BY DEF JsonInv, JsonTypeOK, CallStep, ReturnStep, Crash, workVars
<1>6. CASE CallStep(c)
  <2>1. at[c] = "off"
    <3>1. phase[c] \in {"idle", "copied"}
      BY <1>6 DEF CallStep, Store!ClientNext, Store!CallLoad, Store!CallCreate, Store!CallDelete,
                  Store!CallSave, Store!CallList, Store!Forget
    <3> QED BY <1>1, <3>1 DEF JsonInv, WorkersKnow, Steps, Store!CallPhases
  <2>2. /\ UNCHANGED fileVars
        /\ lock' = (IF lock = c THEN NoOne ELSE lock) /\ at' = [at EXCEPT ![c] = "off"]
    BY <1>5, <1>6, <2>1 DEF CallStep
  <2>3. ASSUME NEW p \in Store!Phases, NEW s \in Sessions, Store!Call(c, p, s),
               NEW r \in Store!Record, copy' = [copy EXCEPT ![c] = r]
        PROVE  JsonInv'
    BY <1>1, <1>3, <1>10, <2>2, <2>3, ClientFrame DEF Store!Call
  <2>4. ASSUME NEW s \in Sessions,
               Store!CallLoad(c, s) \/ Store!CallCreate(c, s) \/ Store!CallDelete(c, s)
        PROVE  JsonInv'
    <3>1. CASE Store!CallLoad(c, s)
      BY <1>2, <1>3, <2>3, <3>1 DEF Store!CallLoad
    <3>2. CASE Store!CallCreate(c, s)
      BY <1>3, <2>3, <3>2 DEF Store!CallCreate
    <3>3. CASE Store!CallDelete(c, s)
      BY <1>2, <1>3, <2>3, <3>3 DEF Store!CallDelete
    <3> QED BY <2>4, <3>1, <3>2, <3>3
  <2>5. CASE Store!CallSave(c)
    BY <1>2, <1>3, <1>4, <2>3, <2>5 DEF Store!CallSave
  <2>6. CASE Store!CallList(c)
    BY <1>2, <1>3, <2>3, <2>6 DEF Store!CallList
  <2>7. CASE Store!Forget(c)
    <3>1. /\ phase' = [phase EXCEPT ![c] = "idle"] /\ copy' = [copy EXCEPT ![c] = Store!Fresh]
          /\ sess' = [sess EXCEPT ![c] = sess[c]] /\ answer' = [answer EXCEPT ![c] = answer[c]]
          /\ listed' = listed
      BY <1>2, <2>7 DEF Store!Forget
    <3> QED BY <1>1, <1>2, <1>3, <1>10, <2>2, <3>1, ClientFrame
  <2> QED BY <1>6, <2>4, <2>5, <2>6, <2>7 DEF CallStep, Store!ClientNext
<1>7. ASSUME NEW p \in {"idle", "copied"}, phase' = [phase EXCEPT ![c] = p],
             NEW r \in Store!Record, copy' = [copy EXCEPT ![c] = r],
             Store!Answer(c, "Open"), UNCHANGED sess, UNCHANGED fileVars,
             listed' = [listed EXCEPT ![c] = Store!NothingListed],
             lock' = (IF lock = c THEN NoOne ELSE lock), at' = [at EXCEPT ![c] = "off"]
      PROVE  JsonInv'
  <2>1. listed' \in [Clients -> [Sessions -> Nat]]
    BY <1>1, <1>3, <1>7
  <2>2. sess' = [sess EXCEPT ![c] = sess[c]] /\ answer' = [answer EXCEPT ![c] = "Open"]
    BY <1>2, <1>7 DEF Store!Answer
  <2>3. p \in Store!Phases /\ "Open" \in Store!Outcomes
    BY <1>3
  <2> QED BY <1>2, <1>7, <1>10, <2>1, <2>2, <2>3, ClientFrame
<1>8. CASE ReturnStep(c)
  <2>1. /\ lock' = (IF lock = c THEN NoOne ELSE lock) /\ at' = [at EXCEPT ![c] = "off"]
        /\ UNCHANGED fileVars /\ UNCHANGED sess /\ Store!Answer(c, "Open")
        /\ listed' = [listed EXCEPT ![c] = Store!NothingListed]
    BY <1>5, <1>8 DEF ReturnStep, Store!Return
  <2>2. CASE phase[c] = "load" /\ answer[c] = "Ok"
    <3>1. phase' = [phase EXCEPT ![c] = "copied"] /\ copy' = [copy EXCEPT ![c] = copy[c]]
      BY <1>2, <1>8, <2>2 DEF ReturnStep, Store!Return
    <3> QED BY <1>2, <1>7, <2>1, <3>1
  <2>3. CASE ~(phase[c] = "load" /\ answer[c] = "Ok")
    <3>1. phase' = [phase EXCEPT ![c] = "idle"] /\ copy' = [copy EXCEPT ![c] = Store!Fresh]
      BY <1>8, <2>3 DEF ReturnStep, Store!Return
    <3> QED BY <1>3, <1>7, <2>1, <3>1
  <2> QED BY <2>2, <2>3
<1>9. CASE Crash(c)
  <2>1. /\ lock' = (IF lock = c THEN NoOne ELSE lock) /\ at' = [at EXCEPT ![c] = "off"]
        /\ UNCHANGED fileVars /\ UNCHANGED sess /\ Store!Answer(c, "Open")
        /\ listed' = [listed EXCEPT ![c] = Store!NothingListed]
        /\ phase' = [phase EXCEPT ![c] = "idle"] /\ copy' = [copy EXCEPT ![c] = Store!Fresh]
    BY <1>9 DEF Crash, Goes, Store!Crash
  <2> QED BY <1>3, <1>7, <2>1
<1> QED BY <1>6, <1>8, <1>9

(* Every step keeps the invariant.                                         *)
LEMMA JsonNextInv ==
    JsonInv /\ [JsonNext]_jsonVars => JsonInv'
<1> SUFFICES ASSUME JsonInv, [JsonNext]_jsonVars PROVE JsonInv'
    OBVIOUS
<1>1. ASSUME NEW s \in Sessions, Damage(s) PROVE JsonInv'
  <2>1. /\ damaged' \subseteq Sessions /\ UNCHANGED <<files, index>>
        /\ UNCHANGED workVars /\ UNCHANGED callVars
    BY <1>1 DEF Damage, JsonInv, JsonTypeOK
  <2>2. Readable' \in [Sessions -> Store!Record]
    BY <2>1, ReadableType DEF JsonInv, JsonTypeOK
  <2>3. JsonTypeOK'
    BY <2>1, <2>2 DEF JsonInv, JsonTypeOK, Store!SessionTypeOK, workVars, callVars
  <2>4. WorkersHoldLock'
    BY <2>1 DEF JsonInv, WorkersHoldLock, workVars
  <2>5. WorkersKnow'
    BY <1>1, <2>1 DEF JsonInv, WorkersKnow, workVars, callVars, Damage
  <2> QED BY <2>3, <2>4, <2>5 DEF JsonInv
<1>2. CASE UNCHANGED jsonVars
  <2>1. Readable' = Readable
    BY <1>2 DEF Readable, jsonVars
  <2> QED BY <1>2, <2>1 DEF JsonInv, JsonTypeOK, Store!SessionTypeOK, WorkersHoldLock,
                            WorkersKnow, jsonVars
<1> QED BY <1>1, <1>2, WorkerInv, ClientInv DEF JsonNext

(* A step of a worker is a step of the contract or invisible.              *)
LEMMA WorkerImplements ==
    ASSUME JsonInv, NEW c \in Clients, Lock(c) \/ WorkerStep(c) \/ IoError(c)
    PROVE  Store!StoreNext(c) \/ UNCHANGED Store!sessionVars
<1>1. /\ JsonTypeOK /\ sess[c] \in Sessions /\ copy[c] \in Store!Record
      /\ damaged \subseteq Sessions
  BY DEF JsonInv, JsonTypeOK, Store!SessionTypeOK
<1>2. /\ at[c] = "locked" => answer[c] = "Open"
      /\ at[c] = "checked" => answer[c] = "Open" /\ sess[c] \notin damaged
                              /\ files[sess[c]].revision = copy[c].revision
      /\ at[c] = "written" => phase[c] \in Store!CallPhases /\ answer[c] = "Ok"
      /\ at[c] = "done" => phase[c] \in Store!CallPhases /\ answer[c] # "Open"
  BY DEF JsonInv, WorkersKnow, Store!CallPhases
<1>3. UNCHANGED <<files, damaged>> => UNCHANGED Readable
  BY DEF Readable
<1>4. sess[c] \notin damaged => Readable[sess[c]] = files[sess[c]]
  BY <1>1 DEF Readable
<1>5. ASSUME phase[c] \in Store!CallPhases, answer[c] \in {"Open", "Ok"},
             UNCHANGED Readable, Answers(c, "Failed"), UNCHANGED <<phase, sess, copy, listed>>
      PROVE  Store!StoreNext(c)
  BY <1>5 DEF Answers, Store!StoreNext, Store!Fail, Store!Answer
<1>6. CASE Lock(c) \/ Unlock(c)
  BY <1>3, <1>6 DEF Lock, Unlock, fileVars, callVars, Store!sessionVars
<1>7. CASE ReadRecord(c)
  <2>1. CASE sess[c] \in damaged
    <3>1. UNCHANGED Readable
      BY <1>1, <1>7, <2>1, QuarantineIsInvisible DEF ReadRecord
    <3> QED BY <1>2, <1>5, <1>7, <2>1, <3>1 DEF ReadRecord, Store!CallPhases
  <2>2. CASE sess[c] \notin damaged
    <3>1. Store!DoLoad(c)
      BY <1>2, <1>3, <1>4, <1>7, <2>2 DEF ReadRecord, Answers, Store!DoLoad, Store!Running, Store!Answer
    <3> QED BY <3>1 DEF Store!StoreNext
  <2> QED BY <2>1, <2>2
<1>8. CASE CheckRevision(c)
  <2>1. CASE sess[c] \in damaged
    <3>1. UNCHANGED Readable
      BY <1>1, <1>8, <2>1, QuarantineIsInvisible DEF CheckRevision
    <3> QED BY <1>2, <1>5, <1>8, <2>1, <3>1 DEF CheckRevision, Store!CallPhases
  <2>2. CASE sess[c] \notin damaged /\ files[sess[c]].revision # copy[c].revision
    <3>1. Store!DoSave(c)
      BY <1>2, <1>3, <1>4, <1>8, <2>2
         DEF CheckRevision, Answers, Store!DoSave, Store!Running, Store!Answer, Store!Stale
    <3> QED BY <3>1 DEF Store!StoreNext
  <2>3. CASE sess[c] \notin damaged /\ files[sess[c]].revision = copy[c].revision
    BY <1>3, <1>8, <2>3 DEF CheckRevision, Store!sessionVars
  <2> QED BY <2>1, <2>2, <2>3
<1>9. CASE WriteRecord(c)
  <2>1. Store!Saved(copy[c]) \in Store!Record
    BY <1>1 DEF Store!Saved, Store!Record
  <2>2. Readable' = [Readable EXCEPT ![sess[c]] = Store!Saved(copy[c])]
    BY <1>1, <1>9, <2>1, ReplaceRecord DEF WriteRecord
  <2>3. Store!DoSave(c)
    BY <1>2, <1>4, <1>9, <2>2
       DEF WriteRecord, Answers, Store!DoSave, Store!Running, Store!Answer, Store!Stale
  <2> QED BY <2>3 DEF Store!StoreNext
<1>10. CASE RemoveRecord(c)
  <2>1. Store!Fresh \in Store!Record
    BY DEF Store!Fresh, Store!Record
  <2>2. Readable' = [Readable EXCEPT ![sess[c]] = Store!Fresh]
    BY <1>1, <1>10, <2>1, ReplaceRecord DEF RemoveRecord
  <2>3. Store!DoDelete(c)
    BY <1>2, <1>10, <2>2 DEF RemoveRecord, Answers, Store!DoDelete, Store!Running, Store!Answer
  <2> QED BY <2>3 DEF Store!StoreNext
<1>11. ASSUME ScanFails(c) PROVE UNCHANGED Readable
  BY <1>1, <1>11, QuarantineIsInvisible DEF ScanFails
<1>12. CASE WriteIndex(c)
  <2>1. CASE ScanFails(c)
    BY <1>2, <1>5, <1>11, <1>12, <2>1 DEF WriteIndex, ScanFails
  <2>2. CASE ~ScanFails(c)
    BY <1>3, <1>12, <2>2 DEF WriteIndex, Scan, Store!sessionVars
  <2> QED BY <2>1, <2>2
<1>13. CASE ListRecords(c)
  <2>1. CASE ScanFails(c)
    BY <1>2, <1>5, <1>11, <1>13, <2>1 DEF ListRecords, ScanFails, Store!CallPhases
  <2>2. CASE ~ScanFails(c)
    <3>1. PICK seen \in SUBSET Sessions :
              /\ Scan(seen)
              /\ listed' = [listed EXCEPT ![c] = Store!RevisionsOf(files, seen)]
      BY <1>13, <2>2 DEF ListRecords
    <3>2. Store!RevisionsOf(Readable, seen) = Store!RevisionsOf(files, seen)
      BY <3>1 DEF Scan, Readable, Store!RevisionsOf
    <3>3. Store!ListPart(c)
      BY <1>2, <1>3, <1>13, <2>2, <3>1, <3>2
         DEF ListRecords, Scan, Answers, Store!ListPart, Store!Running, Store!Answer
    <3> QED BY <3>3 DEF Store!StoreNext
  <2> QED BY <2>1, <2>2
<1>14. CASE IoError(c)
  BY <1>2, <1>3, <1>5, <1>14 DEF IoError
<1> QED
  BY <1>6, <1>7, <1>8, <1>9, <1>10, <1>12, <1>13, <1>14 DEF WorkerStep

(* Every step is a step of the contract or invisible.                      *)
LEMMA JsonNextImplements ==
    JsonInv /\ [JsonNext]_jsonVars => [Store!SessionNext]_(Store!sessionVars)
<1> SUFFICES ASSUME JsonInv, [JsonNext]_jsonVars
             PROVE  Store!SessionNext \/ UNCHANGED Store!sessionVars
    OBVIOUS
<1>1. ASSUME NEW c \in Clients, CallStep(c) \/ ReturnStep(c) \/ Crash(c)
      PROVE  Store!SessionNext
  BY <1>1 DEF CallStep, ReturnStep, Crash, Store!SessionNext, Store!StoreNext
<1>2. ASSUME NEW s \in Sessions, Damage(s)
      PROVE  Store!SessionNext
  <2>1. damaged \subseteq Sessions /\ files \in [Sessions -> Store!Record]
    BY DEF JsonInv, JsonTypeOK
  <2>2. Readable' = [Readable EXCEPT ![s] = Store!Fresh]
    BY <1>2, <2>1 DEF Damage, Readable, Store!Fresh
  <2>3. Readable[s] # Store!Fresh
    BY <1>2 DEF Damage, Readable
  <2>4. Store!Lose(s)
    BY <1>2, <2>2, <2>3 DEF Damage, callVars, Store!Lose, Store!clientVars
  <2> QED BY <2>4 DEF Store!SessionNext
<1>3. CASE UNCHANGED jsonVars
  BY <1>3 DEF jsonVars, Readable, Store!sessionVars
<1>4. ASSUME NEW c \in Clients, Lock(c) \/ WorkerStep(c) \/ IoError(c)
      PROVE  Store!SessionNext \/ UNCHANGED Store!sessionVars
  BY <1>4, WorkerImplements DEF Store!SessionNext
<1> QED BY <1>1, <1>2, <1>3, <1>4 DEF JsonNext

(* The inductive invariant of the file store.                              *)
THEOREM JsonSafety ==
    JsonSpec => []JsonInv
BY JsonInitInv, JsonNextInv, PTL DEF JsonSpec

(* The file store implements the contract, whatever crashes, I/O errors    *)
(* and damaged files come between its steps and whatever entries its       *)
(* listings of the directory leave out.                                    *)
THEOREM FileStoreImplementsContract ==
    JsonSpec => ImplementsSessionStore
<1>1. JsonInit => Store!SessionInit
  BY DEF JsonInit
<1> QED
  BY <1>1, JsonInitInv, JsonNextInv, JsonNextImplements, PTL
     DEF JsonSpec, ImplementsSessionStore, Store!SessionSpec

(* An index that a call is about to acknowledge stays the one of the files *)
(* until the lock is free.                                                 *)
LEMMA IndexNext ==
    JsonInv /\ IndexFollowsRecords /\ [JsonNext]_jsonVars => IndexFollowsRecords'
<1> SUFFICES ASSUME JsonInv, IndexFollowsRecords, [JsonNext]_jsonVars,
                    NEW d \in Clients,
                    at'[d] = "done", answer'[d] = "Ok", phase'[d] # "load"
             PROVE  index' = Store!RevisionsOf(files, Sessions \ overlooked)'
    BY DEF IndexFollowsRecords, Store!RevisionsOf
<1>1. /\ at \in [Clients -> Steps] /\ answer \in [Clients -> Store!Outcomes]
      /\ phase \in [Clients -> Store!Phases]
  BY DEF JsonInv, JsonTypeOK, Store!SessionTypeOK
<1>2. at[d] = "done" /\ answer[d] = "Ok" /\ phase[d] # "load"
          => index = Store!RevisionsOf(files, Sessions \ overlooked)
  BY DEF IndexFollowsRecords
<1>3. ASSUME NEW c \in Clients, Lock(c) \/ WorkerStep(c) \/ IoError(c)
      PROVE  index' = Store!RevisionsOf(files, Sessions \ overlooked)'
  <2>1. CASE c # d
    <3>1. at'[d] = at[d]
      BY <1>1, <1>3, <2>1 DEF Lock, WorkerStep, IoError, ReadRecord, CheckRevision, WriteRecord,
                              RemoveRecord, WriteIndex, ListRecords, Unlock, Goes
    <3>2. lock = d
      BY <3>1 DEF JsonInv, WorkersHoldLock
    <3>3. at[c] = "off"
      BY <2>1, <3>2 DEF JsonInv, WorkersHoldLock
    <3>4. IoError(c)
      BY <1>3, <3>2, <3>3, NoOneAssumption
         DEF Lock, WorkerStep, ReadRecord, CheckRevision, WriteRecord, RemoveRecord, WriteIndex,
             ListRecords, Unlock
    <3>5. UNCHANGED <<files, index, overlooked, phase>> /\ answer'[d] = answer[d]
      BY <1>1, <2>1, <3>4 DEF IoError, Answers
    <3> QED BY <1>2, <3>1, <3>5 DEF Store!RevisionsOf
  <2>2. CASE c = d
    <3>6. ASSUME NEW seen \in SUBSET Sessions, Scan(seen)
          PROVE  index' = Store!RevisionsOf(files, Sessions \ overlooked)'
      BY <3>6 DEF Scan, Store!RevisionsOf, Store!Fresh
    <3>1. CASE WriteIndex(c)
      BY <1>1, <2>2, <3>1, <3>6 DEF WriteIndex, ScanFails, Answers
    <3>2. CASE ListRecords(c)
      BY <1>1, <2>2, <3>2, <3>6 DEF ListRecords, ScanFails, Answers
    <3>3. CASE ReadRecord(c) \/ CheckRevision(c)
      BY <1>1, <2>2, <3>3 DEF ReadRecord, CheckRevision, Answers, Goes
    <3>4. CASE Lock(c) \/ WriteRecord(c) \/ RemoveRecord(c) \/ Unlock(c)
      BY <1>1, <2>2, <3>4 DEF Lock, WriteRecord, RemoveRecord, Unlock, Goes
    <3>5. CASE IoError(c)
      BY <1>1, <2>2, <3>5 DEF IoError, Answers
    <3> QED BY <1>3, <3>1, <3>2, <3>3, <3>4, <3>5 DEF WorkerStep
  <2> QED BY <2>1, <2>2
<1>4. ASSUME NEW c \in Clients, CallStep(c) \/ ReturnStep(c)
      PROVE  index' = Store!RevisionsOf(files, Sessions \ overlooked)'
  <2>1. UNCHANGED <<at, overlooked>> /\ UNCHANGED fileVars
    BY <1>4 DEF CallStep, ReturnStep, workVars
  <2>2. c # d
    <3>1. CASE CallStep(c)
      <4>1. phase[c] \in {"idle", "copied"}
        BY <3>1 DEF CallStep, Store!ClientNext, Store!CallLoad, Store!CallCreate,
                    Store!CallDelete, Store!CallSave, Store!CallList, Store!Forget
      <4> QED BY <2>1, <4>1 DEF JsonInv, WorkersKnow, Store!CallPhases
    <3>2. CASE ReturnStep(c)
      BY <2>1, <3>2 DEF ReturnStep
    <3> QED BY <1>4, <3>1, <3>2
  <2>3. answer'[d] = answer[d] /\ phase'[d] = phase[d]
    BY <1>1, <1>4, <2>2
       DEF CallStep, ReturnStep, Store!ClientNext, Store!CallLoad, Store!CallCreate,
           Store!CallDelete, Store!CallSave, Store!CallList, Store!Forget, Store!Call,
           Store!Return, Store!Answer
  <2> QED BY <1>2, <2>1, <2>3 DEF fileVars, Store!RevisionsOf
<1>5. ASSUME NEW c \in Clients, Crash(c)
      PROVE  index' = Store!RevisionsOf(files, Sessions \ overlooked)'
  <2>1. c # d /\ at'[d] = at[d]
    BY <1>1, <1>5 DEF Crash, Goes
  <2>2. answer'[d] = answer[d] /\ phase'[d] = phase[d] /\ UNCHANGED fileVars
    BY <1>1, <1>5, <2>1 DEF Crash, Store!Crash, Store!Answer
  <2>3. overlooked' = overlooked
    BY <1>5, <2>1 DEF Crash, JsonInv, WorkersHoldLock
  <2> QED BY <1>2, <2>1, <2>2, <2>3 DEF fileVars, Store!RevisionsOf
<1>6. ASSUME NEW s \in Sessions, Damage(s)
      PROVE  index' = Store!RevisionsOf(files, Sessions \ overlooked)'
  BY <1>2, <1>6 DEF Damage, workVars, callVars, Store!RevisionsOf
<1>7. CASE UNCHANGED jsonVars
  BY <1>2, <1>7 DEF jsonVars, Store!RevisionsOf
<1> QED BY <1>3, <1>4, <1>5, <1>6, <1>7 DEF JsonNext

(* A change that is acknowledged is in the index, for any sessions and     *)
(* clients, unless the listing of the directory left its record out.       *)
THEOREM IndexIsDerived ==
    JsonSpec => []IndexFollowsRecords
<1>1. JsonInit => IndexFollowsRecords
  BY DEF JsonInit, IndexFollowsRecords
<1> QED BY <1>1, JsonInitInv, JsonNextInv, IndexNext, PTL DEF JsonSpec
=============================================================================
