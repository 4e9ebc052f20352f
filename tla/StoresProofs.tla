---------------------------- MODULE StoresProofs -----------------------------
(***************************************************************************)
(* Proofs about what is kept, each part alone and all of them in Stores.   *)
(*                                                                         *)
(* A conversation: compare and swap on the revision loses no update of a   *)
(* session that nobody deletes, and brings no deleted conversation back,   *)
(* for any number of clients and sessions.  Pruning keeps results with     *)
(* their calls, for any length of a history, any limit and any number of   *)
(* prunings: what is kept of the rest is an end of it, so only its first   *)
(* message could lose what it follows, and the walks of the code end at a  *)
(* message that is no result.                                              *)
(*                                                                         *)
(* Secrets: the keyring (KeyringStore), for any processes, secrets, sizes  *)
(* of an entry and faults, and the encrypted file (EncryptedVault), for    *)
(* any threads, secrets, passwords and faults.                             *)
(***************************************************************************)
EXTENDS Stores, SequenceTheorems, WellFoundedInduction, FiniteSetTheorems, TLAPS

-----------------------------------------------------------------------------
(* The session store.                                                      *)

(* The client holds a copy it may still save.                              *)
Copied(c) ==
    \/ phase[c] = "copied"
    \/ phase[c] = "load" /\ answer[c] = "Ok"
    \/ phase[c] = "save" /\ answer[c] = "Open"

(* A copy is never ahead of the store, and one of the stored revision      *)
(* contains everything that is stored.                                     *)
CopiesAreOld ==
    \A c \in Clients :
        Copied(c) /\ sess[c] \in Kept =>
            /\ copy[c].revision <= records[sess[c]].revision
            /\ copy[c].revision = records[sess[c]].revision
                   => Extends(copy[c].messages, records[sess[c]].messages)

AbsentIsEmpty ==
    \A s \in Sessions : records[s].revision = 0 => records[s].messages = <<>>

KeptAreNotDeleted == \A c \in Clients : phase[c] = "delete" => sess[c] \notin Kept

(* The inductive invariant.                                                *)
SessionInv ==
    /\ SessionTypeOK
    /\ CopiesAreOld
    /\ AbsentIsEmpty
    /\ KeptAreNotDeleted
    /\ AcceptedIsStored

(* Extending a conversation is reflexive and transitive, and goes on when  *)
(* a client adds to it: what Append does to a copy.                        *)
LEMMA ExtendsRefl ==
    ASSUME NEW s \in Seq(Clients)
    PROVE  Extends(s, s) /\ Extends(s, <<>>)
BY DEF Extends

LEMMA ExtendsTrans ==
    ASSUME NEW s \in Seq(Clients), NEW t \in Seq(Clients), NEW u \in Seq(Clients),
           Extends(t, s), Extends(u, t)
    PROVE  Extends(u, s)
BY DEF Extends

LEMMA ExtendsAppend ==
    ASSUME NEW s \in Seq(Clients), NEW t \in Seq(Clients), NEW c \in Clients,
           Extends(t, s)
    PROVE  Extends(Append(t, c), s)
BY DEF Extends

(* The initial states satisfy the invariant.                               *)
LEMMA SessionInitInv ==
    SessionInit => SessionInv
<1> SUFFICES ASSUME SessionInit PROVE SessionInv
    OBVIOUS
<1>1. Fresh \in Record
  BY DEF Fresh, Record
<1>2. SessionTypeOK
  BY <1>1 DEF SessionInit, SessionTypeOK, Phases, CallPhases, Outcomes, NothingListed
<1>3. CopiesAreOld /\ AbsentIsEmpty /\ KeptAreNotDeleted /\ AcceptedIsStored
  BY DEF SessionInit, CopiesAreOld, Copied, AbsentIsEmpty, KeptAreNotDeleted,
         AcceptedIsStored, Fresh
<1> QED BY <1>2, <1>3 DEF SessionInv

(* An accepted save: the record that is stored extends the one it          *)
(* replaces.                                                               *)
LEMMA SaveExtends ==
    ASSUME SessionInv, NEW c \in Clients, Running(c, "save"), ~Stale(c)
    PROVE  /\ Saved(copy[c]) \in Record
           /\ Saved(copy[c]).revision = records[sess[c]].revision + 1
           /\ Saved(copy[c]).messages = copy[c].messages
           /\ Saved(copy[c]).revision > copy[c].revision
           /\ sess[c] \in Kept => Extends(copy[c].messages, records[sess[c]].messages)
<1>1. copy[c] \in Record /\ sess[c] \in Sessions /\ records[sess[c]] \in Record
  BY DEF SessionInv, SessionTypeOK
<1>2. copy[c].revision = records[sess[c]].revision
  BY <1>1 DEF Stale
<1>3. sess[c] \in Kept => Extends(copy[c].messages, records[sess[c]].messages)
  BY <1>2 DEF SessionInv, CopiesAreOld, Copied, Running
<1> QED BY <1>1, <1>2, <1>3 DEF Saved, Record

(* Every step keeps the invariant.                                         *)
LEMMA SessionNextInv ==
    ASSUME SessionInv, [SessionNext]_sessionVars
    PROVE  SessionInv'
<1> USE DEF Phases, CallPhases, Outcomes, SessionInv, SessionTypeOK, CopiesAreOld,
            AbsentIsEmpty, KeptAreNotDeleted, AcceptedIsStored, Copied
<1>1. ASSUME NEW c \in Clients, NEW s \in Sessions, CallLoad(c, s)
      PROVE  SessionInv'
  BY <1>1 DEF CallLoad, Call
<1>2. ASSUME NEW c \in Clients, NEW s \in Sessions, CallCreate(c, s)
      PROVE  SessionInv'
  <2>1. Fresh \in Record /\ Fresh.revision = 0 /\ Fresh.messages = <<>>
    BY DEF Fresh, Record
  <2>2. \A t \in Sessions : records[t].revision \in Nat
    BY DEF Record
  <2>3. Extends(<<>>, <<>>)
    BY DEF Extends
  <2> QED BY <1>2, <2>1, <2>2, <2>3 DEF CallCreate, Call
<1>3. ASSUME NEW c \in Clients, CallSave(c)
      PROVE  SessionInv'
  <2>1. copy[c] \in Record /\ records[sess[c]] \in Record
    OBVIOUS
  <2>2. /\ copy'[c].revision = copy[c].revision
        /\ copy'[c].messages = Append(copy[c].messages, c)
        /\ copy'[c] \in Record
        /\ copy' \in [Clients -> Record]
        /\ \A d \in Clients \ {c} : copy'[d] = copy[d]
    <3>1. /\ copy[c].revision \in Nat
          /\ Append(copy[c].messages, c) \in Seq(Clients)
      BY <2>1 DEF Record
    <3>2. Longer(copy[c], c) \in Record
      BY <3>1 DEF Longer, Record
    <3>3. copy' = [copy EXCEPT ![c] = Longer(copy[c], c)]
      BY <1>3 DEF CallSave
    <3>4. copy'[c] = Longer(copy[c], c)
      BY <3>3
    <3> QED BY <3>2, <3>3, <3>4 DEF Longer
  <2>3. sess[c] \in Kept /\ copy[c].revision = records[sess[c]].revision
            => Extends(copy'[c].messages, records[sess[c]].messages)
    <3>1. /\ copy[c].messages \in Seq(Clients)
          /\ records[sess[c]].messages \in Seq(Clients)
      BY <2>1 DEF Record
    <3>2. sess[c] \in Kept /\ copy[c].revision = records[sess[c]].revision
              => Extends(copy[c].messages, records[sess[c]].messages)
      BY <1>3 DEF CallSave
    <3> QED BY <3>1, <3>2, <2>2, ExtendsAppend
  <2> QED BY <1>3, <2>1, <2>2, <2>3 DEF CallSave, Call
<1>4. ASSUME NEW c \in Clients, CallList(c) \/ Forget(c) \/ Return(c) \/ Crash(c)
      PROVE  SessionInv'
  <2>1. Fresh \in Record /\ NothingListed \in [Sessions -> Nat]
    BY DEF Fresh, Record, NothingListed
  <2>2. CASE CallList(c)
    BY <2>2 DEF CallList, Call
  <2>3. CASE Forget(c)
    BY <2>1, <2>3 DEF Forget
  <2>4. CASE Crash(c)
    BY <2>1, <2>4 DEF Crash, Answer
  <2>5. CASE Return(c)
    <3>1. /\ phase[c] \in CallPhases /\ answer[c] # "Open"
          /\ answer' = [answer EXCEPT ![c] = "Open"]
          /\ listed' = [listed EXCEPT ![c] = NothingListed]
          /\ records' = records /\ sess' = sess
      BY <2>5 DEF Return, Answer
    <3>2. answer' \in [Clients -> Outcomes] /\ listed' \in [Clients -> [Sessions -> Nat]]
      BY <2>1, <3>1
    <3>3. AbsentIsEmpty' /\ KeptAreNotDeleted'
      <4>1. AbsentIsEmpty /\ KeptAreNotDeleted
        OBVIOUS
      <4>2. \A d \in Clients : phase'[d] \in {"idle", "copied"} \/ phase'[d] = phase[d]
        BY <2>5 DEF Return
      <4> QED
        BY <3>1, <4>1, <4>2
    <3>4. CASE phase[c] = "load" /\ answer[c] = "Ok"
      <4>1. phase' = [phase EXCEPT ![c] = "copied"] /\ copy' = copy
        BY <2>5, <3>4 DEF Return
      <4>2. phase' \in [Clients -> Phases]
        BY <4>1
      <4>3. CopiesAreOld' /\ AcceptedIsStored'
        BY <3>1, <3>4, <4>1
      <4> QED BY <3>1, <3>2, <3>3, <4>1, <4>2, <4>3
    <3>5. CASE ~(phase[c] = "load" /\ answer[c] = "Ok")
      <4>1. phase' = [phase EXCEPT ![c] = "idle"] /\ copy' = [copy EXCEPT ![c] = Fresh]
        BY <2>5, <3>5 DEF Return
      <4>2. phase' \in [Clients -> Phases] /\ copy' \in [Clients -> Record]
        BY <2>1, <4>1
      <4>3. CopiesAreOld' /\ AcceptedIsStored'
        BY <3>1, <4>1
      <4> QED BY <3>1, <3>2, <3>3, <4>2, <4>3
    <3> QED BY <3>4, <3>5
  <2> QED BY <1>4, <2>2, <2>3, <2>4, <2>5
<1>5. ASSUME NEW c \in Clients, DoLoad(c)
      PROVE  SessionInv'
  <2>1. records[sess[c]] \in Record
    OBVIOUS
  <2>2. Extends(records[sess[c]].messages, records[sess[c]].messages)
    BY <2>1, ExtendsRefl DEF Record
  <2>3. records[sess[c]].revision \in Nat
    BY <2>1 DEF Record
  <2>4. /\ copy'[c] = records[sess[c]]
        /\ \A d \in Clients \ {c} : copy'[d] = copy[d] /\ answer'[d] = answer[d]
        /\ copy' \in [Clients -> Record]
        /\ answer' \in [Clients -> Outcomes]
        /\ phase[c] = "load"
        /\ UNCHANGED <<records, phase, sess, listed>>
    BY <1>5, <2>1 DEF DoLoad, Running, Answer
  <2>5. CopiesAreOld'
    <3> SUFFICES ASSUME NEW d \in Clients, Copied(d)', sess'[d] \in Kept
                 PROVE  /\ copy'[d].revision <= records'[sess'[d]].revision
                        /\ copy'[d].revision = records'[sess'[d]].revision
                               => Extends(copy'[d].messages, records'[sess'[d]].messages)
        OBVIOUS
    <3>1. CASE d = c
      BY <2>2, <2>3, <2>4, <3>1
    <3>2. CASE d # c
      <4>1. Copied(d) /\ copy'[d] = copy[d] /\ sess'[d] = sess[d] /\ records' = records
        BY <2>4, <3>2
      <4> QED BY <4>1
    <3> QED BY <3>1, <3>2
  <2>6. AcceptedIsStored' /\ KeptAreNotDeleted' /\ AbsentIsEmpty' /\ SessionTypeOK'
    BY <2>4
  <2> QED BY <2>5, <2>6
<1>6. ASSUME NEW c \in Clients, DoSave(c)
      PROVE  SessionInv'
  <2>1. CASE Stale(c)
    BY <1>6, <2>1 DEF DoSave, Running, Answer
  <2>2. CASE ~Stale(c)
    <3> DEFINE new == Saved(copy[c])
    <3>1. /\ new \in Record
          /\ new.revision = records[sess[c]].revision + 1
          /\ new.messages = copy[c].messages
          /\ new.revision > copy[c].revision
          /\ sess[c] \in Kept => Extends(copy[c].messages, records[sess[c]].messages)
      BY <1>6, <2>2, SaveExtends DEF DoSave
    <3>2. /\ records' = [records EXCEPT ![sess[c]] = new]
          /\ answer' = [answer EXCEPT ![c] = "Ok"]
          /\ phase[c] = "save" /\ answer[c] = "Open"
          /\ UNCHANGED <<phase, sess, copy, listed>>
      BY <1>6, <2>2 DEF DoSave, Running, Answer
    <3> HIDE DEF new
    <3>3. /\ \A s \in Sessions : records[s].revision \in Nat
                                 /\ records[s].messages \in Seq(Clients)
          /\ \A d \in Clients : /\ sess[d] \in Sessions
                               /\ copy[d].revision \in Nat
                               /\ copy[d].messages \in Seq(Clients)
      BY DEF Record
    <3>4. SessionTypeOK'
      BY <3>1, <3>2
    <3>5. \A s \in Sessions : records'[s] = IF s = sess[c] THEN new ELSE records[s]
      BY <3>2
    <3>6. CopiesAreOld'
      <4> SUFFICES ASSUME NEW d \in Clients, Copied(d)', sess'[d] \in Kept
                   PROVE  /\ copy'[d].revision <= records'[sess'[d]].revision
                          /\ copy'[d].revision = records'[sess'[d]].revision
                                 => Extends(copy'[d].messages, records'[sess'[d]].messages)
          OBVIOUS
      <4>1. d # c /\ Copied(d) /\ copy'[d] = copy[d] /\ sess'[d] = sess[d]
        BY <3>2
      <4>2. copy[d].revision <= records[sess[d]].revision
        BY <4>1
      <4>3. CASE sess[d] = sess[c]
        <5>1. records'[sess'[d]] = new
          BY <4>1, <4>3, <3>5
        <5>2. new.revision = records[sess[d]].revision + 1
          BY <4>3, <3>1
        <5>3. copy[d].revision < new.revision
          <6>1. records[sess[d]].revision \in Nat /\ copy[d].revision \in Nat
            BY <3>3
          <6> HIDE DEF SessionInv, SessionTypeOK, CopiesAreOld, AcceptedIsStored
          <6> QED BY <4>2, <5>2, <6>1
        <5>4. copy[d].revision # new.revision /\ copy[d].revision <= new.revision
          BY <5>3, <3>1, <3>3 DEF Record
        <5> QED BY <4>1, <5>1, <5>4
      <4>4. CASE sess[d] # sess[c]
        BY <4>1, <4>4, <3>3, <3>5
      <4> QED BY <4>3, <4>4
    <3>7. AbsentIsEmpty'
      <4>1. new.revision # 0
        BY <3>1, <3>3
      <4> QED BY <4>1, <3>5
    <3>8. KeptAreNotDeleted'
      BY <3>2
    <3>9. ASSUME NEW d \in Clients, phase'[d] = "save", answer'[d] = "Ok", sess'[d] \in Kept
          PROVE  /\ Extends(records'[sess'[d]].messages, copy'[d].messages)
                 /\ records'[sess'[d]].revision > copy'[d].revision
      <4>1. CASE d = c
        <5>1. Extends(copy[c].messages, copy[c].messages)
          BY ExtendsRefl DEF Record
        <5> QED BY <5>1, <4>1, <3>1, <3>2, <3>5
      <4>2. CASE d # c
        <5>1. phase[d] = "save" /\ answer[d] = "Ok" /\ sess'[d] = sess[d]
              /\ copy'[d] = copy[d] /\ sess[d] \in Sessions
          BY <3>2, <3>9, <4>2
        <5>2. /\ Extends(records[sess[d]].messages, copy[d].messages)
              /\ records[sess[d]].revision > copy[d].revision
          BY <5>1, <3>9
        <5>3. CASE sess[d] # sess[c]
          BY <5>1, <5>2, <5>3, <3>5
        <5>4. CASE sess[d] = sess[c]
          <6>1. records[sess[c]].messages \in Seq(Clients) /\ copy[d].messages \in Seq(Clients)
                /\ copy[c].messages \in Seq(Clients)
            BY <3>3
          <6>2. Extends(records[sess[c]].messages, copy[d].messages)
            BY <5>2, <5>4
          <6>3. Extends(copy[c].messages, copy[d].messages)
            BY <6>1, <6>2, <3>1, <3>9, <5>1, <5>4, ExtendsTrans
          <6>4. new.revision > copy[d].revision
            BY <5>2, <5>4, <3>1, <3>3
          <6> QED BY <6>3, <6>4, <5>1, <5>4, <3>1, <3>5
        <5> QED BY <5>3, <5>4
      <4> QED BY <4>1, <4>2
    <3>10. AcceptedIsStored'
      BY <3>9
    <3> QED BY <3>4, <3>6, <3>7, <3>8, <3>10
  <2> QED BY <2>1, <2>2
<1>7. ASSUME NEW c \in Clients, DoList(c) \/ ListPart(c) \/ Fail(c)
      PROVE  SessionInv'
  <2>1. /\ Revisions(records) \in [Sessions -> Nat]
        /\ \A seen : RevisionsOf(records, seen) \in [Sessions -> Nat]
    BY DEF Revisions, RevisionsOf, Record
  <2>2. CASE DoList(c)
    BY <2>1, <2>2 DEF DoList, Running, Answer
  <2>3. CASE ListPart(c)
    BY <2>1, <2>3 DEF ListPart, Running, Answer
  <2>4. CASE Fail(c)
    BY <2>4 DEF Fail, Answer
  <2> QED BY <1>7, <2>2, <2>3, <2>4
<1>8. CASE UNCHANGED sessionVars
  BY <1>8 DEF sessionVars
<1>9. ASSUME NEW c \in Clients, NEW s \in Sessions, CallDelete(c, s)
      PROVE  SessionInv'
  BY <1>9 DEF CallDelete, Call, Kept
<1>10. ASSUME NEW c \in Clients, DoDelete(c)
       PROVE  SessionInv'
  <2>1. sess[c] \notin Kept /\ Fresh \in Record /\ Fresh.messages = <<>>
    BY <1>10 DEF DoDelete, Running, Fresh, Record
  <2> QED BY <1>10, <2>1 DEF DoDelete, Running, Answer
<1>11. ASSUME NEW s \in Sessions, Lose(s)
       PROVE  SessionInv'
  <2>1. s \notin Kept /\ Fresh \in Record /\ Fresh.messages = <<>>
    BY <1>11 DEF Lose, Kept, Fresh, Record
  <2> QED BY <1>11, <2>1 DEF Lose, clientVars
<1> QED
  BY <1>1, <1>2, <1>3, <1>4, <1>5, <1>6, <1>7, <1>8, <1>9, <1>10, <1>11
     DEF SessionNext, ClientNext, StoreNext

(* Every reachable state satisfies it.                                     *)
LEMMA SessionSafety ==
    SessionSpec => []SessionInv
<1>1. SessionInv /\ [SessionNext]_sessionVars => SessionInv'
  BY SessionNextInv
<1> QED BY <1>1, SessionInitInv, PTL DEF SessionSpec

(* Compare and swap: what a client was told is saved is in the stored      *)
(* conversation of a session that nobody deletes, for any sessions and     *)
(* clients (InMemorySessionStore::save).                                   *)
THEOREM AcceptedSavesStay ==
    SessionSpec => []AcceptedIsStored
<1>1. SessionInv => AcceptedIsStored
  BY DEF SessionInv
<1> QED BY <1>1, SessionSafety, PTL

(* No save replaces a kept conversation by one that lacks a part of it:    *)
(* the revision in a copy is enough to tell a stale write.                 *)
THEOREM CompareAndSwapLosesNothing ==
    SessionSpec => NoLostUpdate
<1> DEFINE Grows ==
      \A s \in Kept : Extends(records'[s].messages, records[s].messages)
<1>1. SessionInv /\ [SessionNext]_sessionVars => [Grows]_sessionVars
  <2> SUFFICES ASSUME SessionInv, SessionNext, NEW s \in Kept
               PROVE  Extends(records'[s].messages, records[s].messages)
      BY DEF Grows
  <2>1. s \in Sessions /\ records[s].messages \in Seq(Clients)
    BY DEF SessionInv, SessionTypeOK, Record, Kept
  <2>2. Extends(records[s].messages, records[s].messages)
    BY <2>1, ExtendsRefl
  <2>3. ASSUME NEW c \in Clients, DoSave(c), ~Stale(c)
        PROVE  Extends(records'[s].messages, records[s].messages)
    <3>1. /\ Saved(copy[c]).messages = copy[c].messages
          /\ sess[c] \in Kept => Extends(copy[c].messages, records[sess[c]].messages)
      BY <2>3, SaveExtends DEF DoSave
    <3>2. records' = [records EXCEPT ![sess[c]] = Saved(copy[c])]
      BY <2>3 DEF DoSave
    <3>3. records'[s] = IF s = sess[c] THEN Saved(copy[c]) ELSE records[s]
      BY <2>1, <3>2 DEF SessionInv, SessionTypeOK
    <3> QED BY <3>1, <3>3, <2>2
  <2>4. CASE records'[s] = records[s]
    BY <2>2, <2>4
  <2>5. ASSUME NEW c \in Clients, DoDelete(c)
        PROVE  records'[s] = records[s]
    BY <2>5, <2>1 DEF DoDelete, Running, SessionInv, KeptAreNotDeleted, SessionTypeOK
  <2>6. ASSUME NEW t \in Sessions, Lose(t)
        PROVE  records'[s] = records[s]
    BY <2>6, <2>1 DEF Lose, Kept, SessionInv, SessionTypeOK
  <2>7. ASSUME NEW c \in Clients, ClientNext(c)
        PROVE  records'[s] = records[s]
    BY <2>7 DEF ClientNext, CallLoad, CallCreate, CallDelete, CallSave, CallList, Forget, Call
  <2>8. ASSUME NEW c \in Clients, StoreNext(c)
        PROVE  records'[s] = records[s] \/ (DoSave(c) /\ ~Stale(c))
    BY <2>5, <2>8 DEF StoreNext, DoLoad, DoSave, DoList, ListPart, Return, Fail, Crash
  <2> QED BY <2>3, <2>4, <2>6, <2>7, <2>8 DEF SessionNext
<1> QED BY <1>1, SessionSafety, PTL DEF SessionSpec, NoLostUpdate

----------------------------------------------------------------------------
(* Deletions and losses: copies of an absent session are empty but for     *)
(* what their client adds.                                                 *)
FreshCopies ==
    \A c \in Clients :
        /\ phase[c] = "copied" \/ (phase[c] = "load" /\ answer[c] = "Ok")
               => (copy[c].revision = 0 => copy[c].messages = <<>>)
        /\ phase[c] = "save"
               => (copy[c].revision = 0 => Len(copy[c].messages) <= 1)

(* The inductive invariant when records may be removed.                    *)
RemovalInv == SessionTypeOK /\ AbsentIsEmpty /\ FreshCopies

(* Every step keeps it, removals included.                                 *)
LEMMA RemovalNextInv ==
    RemovalInv /\ [SessionNext]_sessionVars => RemovalInv'
<1> SUFFICES ASSUME RemovalInv, [SessionNext]_sessionVars PROVE RemovalInv'
    OBVIOUS
<1> USE DEF Phases, CallPhases, Outcomes, RemovalInv, SessionTypeOK, AbsentIsEmpty, FreshCopies
<1>0. /\ Fresh \in Record /\ Fresh.revision = 0 /\ Fresh.messages = <<>>
      /\ NothingListed \in [Sessions -> Nat] /\ Len(<<>>) = 0
  BY DEF Fresh, Record, NothingListed
<1>1. ASSUME NEW c \in Clients, NEW s \in Sessions,
             CallLoad(c, s) \/ CallCreate(c, s) \/ CallDelete(c, s)
      PROVE  RemovalInv'
  <2>1. CASE CallLoad(c, s)
    BY <2>1 DEF CallLoad, Call
  <2>2. CASE CallCreate(c, s)
    <3>1. copy'[c] = Fresh /\ copy' \in [Clients -> Record]
      BY <1>0, <2>2 DEF CallCreate
    <3>2. copy'[c].revision = 0 => Len(copy'[c].messages) <= 1
      BY <1>0, <3>1
    <3> QED BY <2>2, <3>1, <3>2 DEF CallCreate, Call
  <2>3. CASE CallDelete(c, s)
    BY <2>3 DEF CallDelete, Call
  <2> QED BY <1>1, <2>1, <2>2, <2>3
<1>2. ASSUME NEW c \in Clients, CallSave(c)
      PROVE  RemovalInv'
  <2>1. /\ copy[c].revision \in Nat
        /\ Append(copy[c].messages, c) \in Seq(Clients)
        /\ copy[c].messages = <<>> => Len(Append(copy[c].messages, c)) = 1
    BY DEF Record
  <2>2. Longer(copy[c], c) \in Record
    BY <2>1 DEF Longer, Record
  <2>3. /\ copy' = [copy EXCEPT ![c] = Longer(copy[c], c)]
        /\ phase[c] = "copied" /\ Call(c, "save", sess[c])
    BY <1>2 DEF CallSave
  <2>4. copy'[c] = Longer(copy[c], c)
    BY <2>3
  <2>5. copy'[c].revision = 0 => Len(copy'[c].messages) <= 1
    BY <2>1, <2>3, <2>4 DEF Longer
  <2> QED BY <2>2, <2>3, <2>5 DEF Call
<1>3. ASSUME NEW c \in Clients, CallList(c) \/ Forget(c) \/ Crash(c)
      PROVE  RemovalInv'
  <2>1. CASE CallList(c)
    BY <2>1 DEF CallList, Call
  <2>2. CASE Forget(c)
    BY <1>0, <2>2 DEF Forget
  <2>3. CASE Crash(c)
    BY <1>0, <2>3 DEF Crash, Answer
  <2> QED BY <1>3, <2>1, <2>2, <2>3
<1>4. ASSUME NEW c \in Clients, Return(c)
      PROVE  RemovalInv'
  <2>1. /\ answer' = [answer EXCEPT ![c] = "Open"]
        /\ listed' = [listed EXCEPT ![c] = NothingListed]
        /\ records' = records /\ sess' = sess
    BY <1>4 DEF Return, Answer
  <2>2. answer' \in [Clients -> Outcomes] /\ listed' \in [Clients -> [Sessions -> Nat]]
    BY <1>0, <2>1
  <2>3. AbsentIsEmpty'
    BY <2>1
  <2>4. CASE phase[c] = "load" /\ answer[c] = "Ok"
    <3>1. phase' = [phase EXCEPT ![c] = "copied"] /\ copy' = copy
      BY <1>4, <2>4 DEF Return
    <3>2. phase' \in [Clients -> Phases]
      BY <3>1
    <3>3. FreshCopies'
      BY <2>1, <2>4, <3>1
    <3> QED BY <2>1, <2>2, <2>3, <3>1, <3>2, <3>3
  <2>5. CASE ~(phase[c] = "load" /\ answer[c] = "Ok")
    <3>1. phase' = [phase EXCEPT ![c] = "idle"] /\ copy' = [copy EXCEPT ![c] = Fresh]
      BY <1>4, <2>5 DEF Return
    <3>2. phase' \in [Clients -> Phases] /\ copy' \in [Clients -> Record]
      BY <1>0, <3>1
    <3>3. FreshCopies'
      BY <1>0, <2>1, <3>1
    <3> QED BY <2>1, <2>2, <2>3, <3>2, <3>3
  <2> QED BY <2>4, <2>5
<1>5. ASSUME NEW c \in Clients, DoLoad(c) \/ DoList(c) \/ ListPart(c) \/ Fail(c)
      PROVE  RemovalInv'
  <2>1. /\ Revisions(records) \in [Sessions -> Nat]
        /\ \A seen : RevisionsOf(records, seen) \in [Sessions -> Nat]
    BY DEF Revisions, RevisionsOf, Record
  <2>2. CASE DoLoad(c)
    BY <2>2 DEF DoLoad, Running, Answer
  <2>3. CASE DoList(c)
    BY <2>1, <2>3 DEF DoList, Running, Answer
  <2>4. CASE ListPart(c)
    BY <2>1, <2>4 DEF ListPart, Running, Answer
  <2>5. CASE Fail(c)
    BY <2>5 DEF Fail, Answer
  <2> QED BY <1>5, <2>2, <2>3, <2>4, <2>5
<1>6. ASSUME NEW c \in Clients, DoSave(c)
      PROVE  RemovalInv'
  <2>1. copy[c] \in Record
    OBVIOUS
  <2>2. Saved(copy[c]) \in Record /\ Saved(copy[c]).revision # 0
    BY <2>1 DEF Saved, Record
  <2>3. /\ records' \in [Sessions -> Record]
        /\ AbsentIsEmpty'
    <3>1. CASE UNCHANGED records
      BY <3>1
    <3>2. CASE records' = [records EXCEPT ![sess[c]] = Saved(copy[c])]
      BY <2>2, <3>2
    <3> QED BY <1>6, <3>1, <3>2 DEF DoSave
  <2>4. /\ UNCHANGED <<phase, sess, copy, listed>>
        /\ phase[c] = "save"
        /\ \E a \in Outcomes : answer' = [answer EXCEPT ![c] = a]
    BY <1>6 DEF DoSave, Running, Answer
  <2> QED BY <2>3, <2>4
<1>7. ASSUME NEW c \in Clients, DoDelete(c)
      PROVE  RemovalInv'
  BY <1>0, <1>7 DEF DoDelete, Running, Answer
<1>8. ASSUME NEW s \in Sessions, Lose(s)
      PROVE  RemovalInv'
  BY <1>0, <1>8 DEF Lose, clientVars
<1>9. CASE UNCHANGED sessionVars
  BY <1>9 DEF sessionVars
<1> QED
  BY <1>1, <1>2, <1>3, <1>4, <1>5, <1>6, <1>7, <1>8, <1>9
     DEF SessionNext, ClientNext, StoreNext

(* Whatever is deleted or lost, no stale copy brings a conversation back,  *)
(* for any sessions and clients.                                           *)
THEOREM DeletedStaysDeleted ==
    SessionSpec => NoResurrection
<1> DEFINE First ==
      \A s \in Sessions :
          records[s].revision = 0 /\ records'[s].revision > 0
              => records'[s].revision = 1 /\ Len(records'[s].messages) <= 1
<1>1. SessionInit => RemovalInv
  BY SessionInitInv DEF SessionInit, SessionInv, RemovalInv, FreshCopies
<1>2. RemovalInv /\ [SessionNext]_sessionVars => [First]_sessionVars
  <2> SUFFICES ASSUME RemovalInv, SessionNext, NEW s \in Sessions,
                      records[s].revision = 0, records'[s].revision > 0
               PROVE  records'[s].revision = 1 /\ Len(records'[s].messages) <= 1
      BY DEF First
  <2>1. ASSUME NEW c \in Clients, DoSave(c)
        PROVE  records'[s].revision = 1 /\ Len(records'[s].messages) <= 1
    <3>1. copy[c] \in Record /\ records \in [Sessions -> Record] /\ sess[c] \in Sessions
      BY DEF RemovalInv, SessionTypeOK
    <3>2. ~Stale(c) /\ records' = [records EXCEPT ![sess[c]] = Saved(copy[c])] /\ phase[c] = "save"
      BY <2>1 DEF DoSave, Running
    <3>3. s = sess[c] /\ records'[s] = Saved(copy[c])
      BY <3>1, <3>2
    <3>4. copy[c].revision = 0
      BY <3>2, <3>3 DEF Stale
    <3>5. Len(copy[c].messages) <= 1
      BY <3>2, <3>4 DEF RemovalInv, FreshCopies
    <3> QED BY <3>3, <3>4, <3>5 DEF Saved
  <2>2. ASSUME NEW c \in Clients, DoDelete(c)
        PROVE  FALSE
    BY <2>2 DEF DoDelete, Fresh, RemovalInv, SessionTypeOK
  <2>3. ASSUME NEW t \in Sessions, Lose(t)
        PROVE  FALSE
    BY <2>3 DEF Lose, Fresh, RemovalInv, SessionTypeOK
  <2>4. ASSUME NEW c \in Clients, ClientNext(c)
        PROVE  UNCHANGED records
    BY <2>4 DEF ClientNext, CallLoad, CallCreate, CallDelete, CallSave, CallList, Forget, Call
  <2>5. ASSUME NEW c \in Clients, StoreNext(c), ~DoSave(c), ~DoDelete(c)
        PROVE  UNCHANGED records
    BY <2>5 DEF StoreNext, DoLoad, DoList, ListPart, Return, Fail, Crash
  <2> QED BY <2>1, <2>2, <2>3, <2>4, <2>5 DEF SessionNext
<1> QED BY <1>1, <1>2, RemovalNextInv, PTL DEF SessionSpec, NoResurrection

-----------------------------------------------------------------------------
(* Pruning.                                                                *)

Paired(s) ==
    \A i \in 1 .. Len(s) :
        IsToolResult(s[i]) /\ s[i].by # 0 =>
            /\ i > 1
            /\ s[i - 1].by = s[i].by
            /\ s[i - 1].role \in {"call", "tool"}

PruningInv == PruningTypeOK /\ PairsStayTogether

-----------------------------------------------------------------------------
(* The place the cut is made at is in the rest or behind it, and no result *)
(* is there.                                                               *)
LEMMA StartIsNoResult ==
    ASSUME NEW rest \in Seq(Message), NEW keep \in Nat, NEW start \in Start(rest, keep)
    PROVE  /\ start \in 1 .. Len(rest) + 1
           /\ start <= Len(rest) => ~ IsToolResult(rest[start])
<1>1. PICK b \in Back(rest, Larger(Len(rest) - keep, 0) + 1) : start \in Forward(rest, b)
  BY DEF Start
<1>2. Len(rest) \in Nat
  OBVIOUS
<1>3. b \in Nat /\ b >= 1
  BY <1>2 DEF Back, Larger
<1> QED
  BY <1>1, <1>2, <1>3 DEF Forward

(* A slice that begins in a sequence or behind it.                         *)
LEMMA SliceProperties ==
    ASSUME NEW s \in Seq(Message), NEW m \in 1 .. Len(s) + 1, NEW n \in m - 1 .. Len(s)
    PROVE  /\ SubSeq(s, m, n) \in Seq(Message)
           /\ Len(SubSeq(s, m, n)) = n + 1 - m
           /\ \A i \in 1 .. n + 1 - m : SubSeq(s, m, n)[i] = s[m + i - 1]
<1>1. m \in Int /\ n \in Int /\ n - m + 1 = n + 1 - m /\ (~ m <= n => n + 1 - m = 0)
  OBVIOUS
<1>2. \A i \in m .. n : s[i] \in Message
  OBVIOUS
<1> QED
  BY <1>1, <1>2, SubSeqProperties

(* What pruning leaves: the prefix, and the rest from where the walks end. *)
IsCut(s, p, start, kept) ==
    /\ p \in 0 .. Len(s) /\ \A i \in 1 .. p : s[i].role = "system"
    /\ p < Len(s) => s[p + 1].role # "system"
    /\ start \in 1 .. Len(s) - p + 1
    /\ start <= Len(s) - p => ~ IsToolResult(s[p + start])
    /\ kept \in Seq(Message) /\ Len(kept) = Len(s) + 1 - start
    /\ \A i \in 1 .. p : kept[i] = s[i]
    /\ \A i \in p + 1 .. Len(kept) : kept[i] = s[start + i - 1]

LEMMA CutIs ==
    ASSUME NEW s \in Seq(Message), NEW keep \in Nat, NEW p \in PrefixLens(s),
           NEW start \in Start(SubSeq(s, p + 1, Len(s)), keep)
    PROVE  LET rest == SubSeq(s, p + 1, Len(s))
           IN  IsCut(s, p, start, SubSeq(s, 1, p) \o SubSeq(rest, start, Len(rest)))
<1> DEFINE head == SubSeq(s, 1, p)
           rest == SubSeq(s, p + 1, Len(s))
           tail == SubSeq(rest, start, Len(rest))
           kept == head \o tail
<1>1. /\ Len(s) \in Nat /\ p \in 0 .. Len(s)
      /\ \A i \in 1 .. p : s[i].role = "system"
  BY DEF PrefixLens
<1>2. /\ rest \in Seq(Message)
      /\ Len(rest) = Len(s) - p
      /\ \A i \in 1 .. Len(s) - p : rest[i] = s[p + i]
  <2>1. p + 1 \in 1 .. Len(s) + 1 /\ Len(s) \in (p + 1) - 1 .. Len(s)
    BY <1>1
  <2>2. /\ rest \in Seq(Message)
        /\ Len(rest) = Len(s) + 1 - (p + 1)
        /\ \A i \in 1 .. Len(s) + 1 - (p + 1) : rest[i] = s[p + 1 + i - 1]
    BY <2>1, SliceProperties
  <2> HIDE DEF rest
  <2> QED
    BY <1>1, <2>2
<1>3. /\ start \in 1 .. Len(rest) + 1
      /\ start <= Len(rest) => ~ IsToolResult(rest[start])
  BY <1>2, StartIsNoResult
<1>4. /\ head \in Seq(Message) /\ Len(head) = p
      /\ \A i \in 1 .. p : head[i] = s[i]
  <2>1. 1 \in 1 .. Len(s) + 1 /\ p \in 1 - 1 .. Len(s)
    BY <1>1
  <2>2. /\ head \in Seq(Message)
        /\ Len(head) = p + 1 - 1
        /\ \A i \in 1 .. p + 1 - 1 : head[i] = s[1 + i - 1]
    BY <2>1, SliceProperties
  <2> HIDE DEF head
  <2> QED
    BY <1>1, <2>2
<1>5. /\ tail \in Seq(Message) /\ Len(tail) = Len(rest) + 1 - start
      /\ \A i \in 1 .. Len(rest) + 1 - start : tail[i] = rest[start + i - 1]
  <2> HIDE DEF rest
  <2>1. Len(rest) \in start - 1 .. Len(rest)
    BY <1>2, <1>3
  <2> QED
    BY <1>2, <1>3, <2>1, SliceProperties
<1> HIDE DEF head, rest, tail
<1>6. /\ kept \in Seq(Message) /\ Len(kept) = p + Len(tail)
      /\ \A i \in 1 .. p : kept[i] = s[i]
      /\ \A i \in p + 1 .. p + Len(tail) : kept[i] = s[start + i - 1]
  <2>1. /\ kept \in Seq(Message)
        /\ Len(kept) = Len(head) + Len(tail)
        /\ \A i \in 1 .. Len(head) + Len(tail) :
               kept[i] = IF i <= Len(head) THEN head[i] ELSE tail[i - Len(head)]
    BY <1>4, <1>5, ConcatProperties
  <2> HIDE DEF kept
  <2>2. ASSUME NEW i \in p + 1 .. p + Len(tail)
        PROVE  kept[i] = s[start + i - 1]
    <3>1. i - p \in 1 .. Len(tail) /\ ~ i <= p /\ i \in 1 .. p + Len(tail)
      BY <1>1, <1>5
    <3>2. kept[i] = tail[i - p]
      BY <2>1, <1>4, <3>1
    <3>3. tail[i - p] = rest[start + (i - p) - 1]
      BY <1>5, <3>1
    <3>4. start + (i - p) - 1 \in 1 .. Len(s) - p
      BY <1>1, <1>2, <1>3, <1>5, <3>1
    <3>5. p + (start + (i - p) - 1) = start + i - 1
      BY <1>1, <1>2, <1>3
    <3> QED
      BY <1>2, <3>2, <3>3, <3>4, <3>5
  <2>3. ASSUME NEW i \in 1 .. p
        PROVE  kept[i] = s[i]
    <3>1. i <= p /\ i \in 1 .. p + Len(tail)
      BY <1>1, <1>5
    <3> QED
      BY <1>4, <2>1, <3>1
  <2> QED
    BY <1>4, <2>1, <2>2, <2>3
<1> HIDE DEF kept
<1>7. /\ start \in 1 .. Len(s) - p + 1 /\ Len(kept) = Len(s) + 1 - start
      /\ p + Len(tail) = Len(kept)
  BY <1>1, <1>2, <1>3, <1>5, <1>6
<1>8. start <= Len(s) - p => ~ IsToolResult(s[p + start])
  <2> SUFFICES ASSUME start <= Len(s) - p PROVE ~ IsToolResult(s[p + start])
    OBVIOUS
  <2>1. start <= Len(rest) /\ start \in 1 .. Len(s) - p
    BY ONLY <1>1, <1>2, <1>7, start <= Len(s) - p, p \in 0 .. Len(s), Len(s) \in Nat
  <2>2. rest[start] = s[p + start]
    BY ONLY <1>2, <2>1
  <2> QED
    BY ONLY <1>3, <2>1, <2>2
<1>9. p < Len(s) => s[p + 1].role # "system"
  BY DEF PrefixLens
<1>10. \A i \in p + 1 .. Len(kept) : kept[i] = s[start + i - 1]
  BY <1>6, <1>7
<1> QED
  <2>1. IsCut(s, p, start, kept)
    BY <1>1, <1>6, <1>7, <1>8, <1>9, <1>10 DEF IsCut
  <2> QED
    BY <2>1 DEF kept, head, tail, rest

(* Pruning a history in which results are with their calls gives one.      *)
LEMMA CutKeepsPairs ==
    ASSUME NEW s \in Seq(Message), Paired(s), NEW keep \in Nat,
           NEW p \in PrefixLens(s),
           NEW start \in Start(SubSeq(s, p + 1, Len(s)), keep)
    PROVE  LET rest == SubSeq(s, p + 1, Len(s))
               kept == SubSeq(s, 1, p) \o SubSeq(rest, start, Len(rest))
           IN  kept \in Seq(Message) /\ Paired(kept)
<1> DEFINE rest == SubSeq(s, p + 1, Len(s))
           kept == SubSeq(s, 1, p) \o SubSeq(rest, start, Len(rest))
<1>1. /\ p \in 0 .. Len(s) /\ \A i \in 1 .. p : s[i].role = "system"
      /\ start \in 1 .. Len(s) - p + 1
      /\ start <= Len(s) - p => ~ IsToolResult(s[p + start])
      /\ kept \in Seq(Message) /\ Len(kept) = Len(s) + 1 - start
      /\ \A i \in 1 .. p : kept[i] = s[i]
      /\ \A i \in p + 1 .. Len(kept) : kept[i] = s[start + i - 1]
  <2>1. IsCut(s, p, start, kept)
    BY CutIs
  <2> HIDE DEF kept
  <2> QED
    BY <2>1 DEF IsCut
<1> HIDE DEF kept, rest
<1>2. Len(s) \in Nat /\ p \in Nat /\ start \in Nat /\ 1 <= start /\ Len(kept) \in Nat
  BY <1>1
<1>3. ASSUME NEW i \in 1 .. Len(kept), IsToolResult(kept[i]), kept[i].by # 0
      PROVE  /\ i > 1
             /\ kept[i - 1].by = kept[i].by
             /\ kept[i - 1].role \in {"call", "tool"}
  <2>1. i > p
    <3>1. CASE i \in 1 .. p
      <4>1. kept[i] = s[i]
        BY <1>1, <3>1
      <4>2. ~ IsToolResult(s[i])
        BY <1>1, <3>1 DEF IsToolResult
      <4> QED
        BY <1>3, <4>1, <4>2
    <3>2. CASE ~ i \in 1 .. p
      BY <1>2, <3>2
    <3> QED
      BY <3>1, <3>2
  <2>2. i # p + 1
    <3> SUFFICES ASSUME i = p + 1 PROVE FALSE
      OBVIOUS
    <3>1. start + i - 1 = p + start /\ i \in p + 1 .. Len(kept) /\ start <= Len(s) - p
      BY <1>1, <1>2
    <3>2. kept[i] = s[p + start]
      BY <1>1, <3>1
    <3> QED
      BY <1>1, <1>3, <3>1, <3>2
  <2>3. /\ i \in p + 1 .. Len(kept) /\ i - 1 \in p + 1 .. Len(kept)
        /\ start + i - 1 \in 1 .. Len(s) /\ start + i - 1 > 1
        /\ start + (i - 1) - 1 = (start + i - 1) - 1
        /\ i > 1
    <3>1. i \in Nat /\ i >= p + 2 /\ i <= Len(kept)
      BY <1>2, <2>1, <2>2
    <3> QED
      BY <1>1, <1>2, <3>1
  <2>4. kept[i] = s[start + i - 1] /\ kept[i - 1] = s[(start + i - 1) - 1]
    <3>1. \A k \in p + 1 .. Len(kept) : kept[k] = s[start + k - 1]
      BY <1>1
    <3>2. kept[i - 1] = s[start + (i - 1) - 1]
      BY <2>3, <3>1
    <3> QED
      BY <2>3, <3>1, <3>2
  <2>5. IsToolResult(s[start + i - 1]) /\ s[start + i - 1].by # 0
    BY <1>3, <2>4 DEF IsToolResult
  <2>6. /\ s[(start + i - 1) - 1].by = s[start + i - 1].by
        /\ s[(start + i - 1) - 1].role \in {"call", "tool"}
    BY <2>3, <2>5 DEF Paired
  <2> QED
    BY <2>3, <2>4, <2>6
<1> QED
  BY <1>1, <1>3 DEF Paired, kept, rest

-----------------------------------------------------------------------------
LEMMA PruningInitInv == PruningInit => PruningInv
<1> SUFFICES ASSUME NEW p \in 0 .. 1, NEW n \in 0 .. MaxResults, said = 0,
                    messages = [i \in 1 .. p + n |-> [role |-> IF i <= p THEN "system" ELSE "tool", by |-> 0]]
             PROVE  PruningInv
  BY DEF PruningInit
<1>1. p + n \in Nat
  BY PruningAssumption
<1>2. \A i \in 1 .. p + n : messages[i] \in Message /\ messages[i].by = 0
  BY DEF Message, Roles
<1>3. messages \in Seq(Message) /\ Len(messages) = p + n
  BY <1>1, <1>2
<1> QED
  BY <1>2, <1>3 DEF PruningInv, PruningTypeOK, PairsStayTogether

LEMMA SayInv ==
    ASSUME PruningInv, NEW role \in Roles, Say(role)
    PROVE  PruningInv'
<1> DEFINE m == [role |-> role, by |-> said + 1]
<1>1. /\ messages' = Append(messages, m) /\ said' = said + 1
      /\ m \in Message /\ m.role # "tool"
  <2>1. messages' = Append(messages, m) /\ said' = said + 1 /\ role # "tool"
    BY DEF Say
  <2>2. m \in Message
    BY DEF Message, PruningInv, PruningTypeOK
  <2> QED
    BY <2>1, <2>2
<1>2. /\ messages' \in Seq(Message) /\ Len(messages') = Len(messages) + 1
      /\ messages'[Len(messages) + 1] = m
      /\ \A i \in 1 .. Len(messages) : messages'[i] = messages[i]
  BY <1>1 DEF PruningInv, PruningTypeOK
<1>3. \A i \in 1 .. Len(messages') : IsToolResult(messages'[i]) => i \in 1 .. Len(messages)
  BY <1>1, <1>2 DEF IsToolResult, PruningInv, PruningTypeOK
<1>4. ASSUME NEW i \in 1 .. Len(messages), i > 1
      PROVE  messages'[i - 1] = messages[i - 1]
  <2>1. i - 1 \in 1 .. Len(messages)
    BY <1>4 DEF PruningInv, PruningTypeOK
  <2> QED
    BY <1>2, <2>1
<1>5. PairsStayTogether'
  BY <1>2, <1>3, <1>4 DEF PairsStayTogether, PruningInv
<1> QED
  BY <1>1, <1>2, <1>5 DEF PruningInv, PruningTypeOK

(* A message that asks for calls, and their results behind it.             *)
LEMMA SaidCalls ==
    ASSUME PruningTypeOK, NEW n \in 1 .. MaxResults, SayCalls(n)
    PROVE  LET l == Len(messages)
           IN  /\ l \in Nat /\ n \in Nat /\ said \in Nat /\ said' = said + 1
               /\ messages' \in Seq(Message) /\ Len(messages') = l + n + 1
               /\ \A i \in 1 .. l : messages'[i] = messages[i]
               /\ messages'[l + 1].role = "call" /\ messages'[l + 1].by = said + 1
               /\ \A i \in l + 2 .. l + n + 1 :
                      messages'[i].role = "tool" /\ messages'[i].by = said + 1
<1> DEFINE more == [i \in 1 .. n + 1 |->
                       [role |-> IF i = 1 THEN "call" ELSE "tool", by |-> said + 1]]
           l == Len(messages)
<1>1. /\ messages \in Seq(Message) /\ l \in Nat /\ said \in Nat /\ n \in Nat /\ n >= 1
      /\ messages' = messages \o more /\ said' = said + 1
  BY PruningAssumption DEF PruningTypeOK, SayCalls
<1>2. /\ more \in Seq(Message) /\ Len(more) = n + 1
      /\ \A i \in 1 .. n + 1 : more[i].by = said + 1 /\ (i > 1 => more[i].role = "tool")
      /\ more[1].role = "call"
  <2>1. \A i \in 1 .. n + 1 :
            [role |-> IF i = 1 THEN "call" ELSE "tool", by |-> said + 1] \in Message
    BY <1>1 DEF Message, Roles
  <2>2. n + 1 \in Nat /\ 1 \in 1 .. n + 1
    BY <1>1
  <2>3. more \in Seq(Message) /\ Len(more) = n + 1
    BY <2>1, <2>2
  <2>4. \A i \in 1 .. n + 1 :
            more[i] = [role |-> IF i = 1 THEN "call" ELSE "tool", by |-> said + 1]
    BY <2>2
  <2> HIDE DEF more
  <2>5. ASSUME NEW i \in 1 .. n + 1
        PROVE  more[i].by = said + 1 /\ (i > 1 => more[i].role = "tool")
    <3>1. more[i] = [role |-> IF i = 1 THEN "call" ELSE "tool", by |-> said + 1]
      BY <2>4
    <3>2. i > 1 => i # 1
      BY <1>1
    <3> QED
      BY <3>1, <3>2
  <2>6. more[1].role = "call"
    <3>1. more[1] = [role |-> IF 1 = 1 THEN "call" ELSE "tool", by |-> said + 1]
      BY <2>2, <2>4
    <3> QED
      BY <3>1
  <2> QED
    BY <2>3, <2>5, <2>6
<1>3. /\ messages' \in Seq(Message) /\ Len(messages') = l + n + 1
      /\ \A i \in 1 .. l : messages'[i] = messages[i]
      /\ \A i \in l + 1 .. l + n + 1 : messages'[i] = more[i - l]
  <2> HIDE DEF more
  <2>1. /\ messages' \in Seq(Message)
        /\ Len(messages') = l + Len(more)
        /\ \A i \in 1 .. l + Len(more) :
               messages'[i] = IF i <= l THEN messages[i] ELSE more[i - l]
    <3>1. messages \in Seq(Message) /\ more \in Seq(Message)
      BY <1>1, <1>2
    <3>2. /\ messages \o more \in Seq(Message)
          /\ Len(messages \o more) = Len(messages) + Len(more)
          /\ \A i \in 1 .. Len(messages) + Len(more) :
                 (messages \o more)[i] =
                     IF i <= Len(messages) THEN messages[i] ELSE more[i - Len(messages)]
      BY <3>1, ConcatProperties
    <3> QED
      BY <1>1, <3>2
  <2> QED
    BY <1>1, <1>2, <2>1
<1> HIDE DEF more
<1>4. messages'[l + 1].role = "call" /\ messages'[l + 1].by = said + 1
  <2>1. l + 1 \in l + 1 .. l + n + 1 /\ (l + 1) - l = 1 /\ 1 \in 1 .. n + 1
    BY <1>1
  <2> QED
    BY <1>2, <1>3, <2>1
<1>5. ASSUME NEW i \in l + 2 .. l + n + 1
      PROVE  messages'[i].role = "tool" /\ messages'[i].by = said + 1
  <2>1. i \in l + 1 .. l + n + 1 /\ i - l \in 1 .. n + 1 /\ i - l > 1
    BY <1>1
  <2> QED
    BY <1>2, <1>3, <2>1
<1> QED
  BY <1>1, <1>3, <1>4, <1>5

LEMMA SayCallsInv ==
    ASSUME PruningInv, NEW n \in 1 .. MaxResults, SayCalls(n)
    PROVE  PruningInv'
<1> DEFINE l == Len(messages)
<1>1. l \in Nat /\ n \in Nat /\ said \in Nat /\ said' = said + 1
  BY SaidCalls DEF PruningInv
<1>2. /\ messages' \in Seq(Message) /\ Len(messages') = l + n + 1
      /\ \A i \in 1 .. l : messages'[i] = messages[i]
  BY SaidCalls DEF PruningInv
<1>3. /\ messages'[l + 1].role = "call" /\ messages'[l + 1].by = said + 1
      /\ \A i \in l + 2 .. l + n + 1 :
             messages'[i].role = "tool" /\ messages'[i].by = said + 1
  BY SaidCalls DEF PruningInv
<1>4. ASSUME NEW i \in 1 .. Len(messages'), IsToolResult(messages'[i]), messages'[i].by # 0
      PROVE  /\ i > 1
             /\ messages'[i - 1].by = messages'[i].by
             /\ messages'[i - 1].role \in {"call", "tool"}
  <2>1. CASE i <= l
    <3>1. i \in 1 .. l /\ (i > 1 => i - 1 \in 1 .. l)
      BY <1>1, <2>1
    <3>2. messages'[i] = messages[i]
      BY <1>2, <3>1
    <3>3. /\ i > 1
          /\ messages[i - 1].by = messages[i].by
          /\ messages[i - 1].role \in {"call", "tool"}
      BY <1>1, <1>4, <3>1, <3>2 DEF PairsStayTogether, PruningInv
    <3> QED
      BY <1>2, <3>1, <3>2, <3>3
  <2>2. CASE i = l + 1
    BY <1>3, <1>4, <2>2 DEF IsToolResult
  <2>3. CASE i = l + 2
    <3>1. i \in l + 2 .. l + n + 1 /\ i - 1 = l + 1 /\ i > 1
      BY <1>1, <1>2, <2>3
    <3> QED
      BY <1>3, <3>1
  <2>4. CASE i > l + 2
    <3>1. i \in l + 2 .. l + n + 1 /\ i - 1 \in l + 2 .. l + n + 1 /\ i > 1
      BY <1>1, <1>2, <2>4
    <3> QED
      BY <1>3, <3>1
  <2>5. i <= l \/ i = l + 1 \/ i = l + 2 \/ i > l + 2
    BY <1>1, <1>2
  <2> QED
    BY <2>1, <2>2, <2>3, <2>4, <2>5
<1>5. PairsStayTogether'
  BY <1>4 DEF PairsStayTogether
<1>6. PruningTypeOK'
  BY <1>1, <1>2 DEF PruningTypeOK
<1> QED
  BY <1>5, <1>6 DEF PruningInv

LEMMA PruneInv ==
    ASSUME PruningInv, NEW max \in MaxMessages, Prune(max)
    PROVE  PruningInv'
<1>1. PICK p \in PrefixLens(messages) :
          \E start \in Start(SubSeq(messages, p + 1, Len(messages)), Larger(max - p, 1)) :
              messages' = SubSeq(messages, 1, p)
                          \o SubSeq(SubSeq(messages, p + 1, Len(messages)), start,
                                    Len(SubSeq(messages, p + 1, Len(messages))))
  BY DEF Prune
<1>2. messages \in Seq(Message) /\ Paired(messages) /\ said \in Nat /\ said' = said
  BY DEF PruningInv, PruningTypeOK, PairsStayTogether, Paired, Prune
<1>3. Larger(max - p, 1) \in Nat
  BY <1>2, PruningAssumption DEF Larger, PrefixLens
<1>4. messages' \in Seq(Message) /\ Paired(messages')
  BY <1>1, <1>2, <1>3, CutKeepsPairs
<1> QED
  BY <1>2, <1>4 DEF PruningInv, PruningTypeOK, PairsStayTogether, Paired

(* Pairs of calls and results survive any sequence of prunings.            *)
THEOREM PairsAlwaysStay == PruningSpec => []PairsStayTogether
<1>1. PruningInv /\ [PruningNext]_vars => PruningInv'
  <2> SUFFICES ASSUME PruningInv, [PruningNext]_vars PROVE PruningInv'
    OBVIOUS
  <2>1. CASE UNCHANGED vars
    BY <2>1 DEF vars, PruningInv, PruningTypeOK, PairsStayTogether
  <2> QED
    BY <2>1, SayInv, SayCallsInv, PruneInv DEF PruningNext
<1>2. PruningInv => PairsStayTogether
  BY DEF PruningInv
<1> QED
  BY <1>1, <1>2, PruningInitInv, PTL DEF PruningSpec

-----------------------------------------------------------------------------
(* How much pruning keeps.                                                 *)

Orphan(m) == IsToolResult(m) /\ m.by = 0

(* Results without a call follow the stable prefix and nothing else.       *)
OrphansAreFirst(s) ==
    \A i \in 1 .. Len(s) : Orphan(s[i]) =>
        \A j \in 1 .. i : Orphan(s[j]) \/ \A k \in 1 .. j : s[k].role = "system"

(* Any other result is one of at most MaxResults behind their call.        *)
CalledResults(s) ==
    \A i \in 1 .. Len(s) : IsToolResult(s[i]) /\ s[i].by # 0 =>
        \E c \in 1 .. i - 1 :
            /\ c >= i - MaxResults /\ s[c].role = "call"
            /\ \A j \in c + 1 .. i : IsToolResult(s[j])

(* The inductive invariant behind what pruning keeps.                      *)
RecentInv == PruningTypeOK /\ OrphansAreFirst(messages) /\ CalledResults(messages)

LEMMA RecentInitInv == PruningInit => RecentInv
<1> SUFFICES ASSUME NEW p \in 0 .. 1, NEW n \in 0 .. MaxResults, said = 0,
                    messages = [i \in 1 .. p + n |-> [role |-> IF i <= p THEN "system" ELSE "tool", by |-> 0]]
             PROVE  RecentInv
  BY DEF PruningInit
<1>1. p + n \in Nat /\ p \in Nat /\ n \in Nat
  BY PruningAssumption
<1>2. \A i \in 1 .. p + n :
          /\ messages[i] \in Message /\ messages[i].by = 0
          /\ messages[i].role = IF i <= p THEN "system" ELSE "tool"
  BY DEF Message, Roles
<1>3. messages \in Seq(Message) /\ Len(messages) = p + n
  BY <1>1, <1>2
<1>4. OrphansAreFirst(messages)
  <2>1. ASSUME NEW i \in 1 .. p + n, NEW j \in 1 .. i
        PROVE  Orphan(messages[j]) \/ \A k \in 1 .. j : messages[k].role = "system"
    <3>1. j \in 1 .. p + n /\ j \in Nat
      BY <1>1
    <3>2. CASE j <= p
      <4>1. \A k \in 1 .. j : k \in 1 .. p + n /\ k <= p
        BY <1>1, <3>1, <3>2
      <4> QED
        BY <1>2, <4>1
    <3>3. CASE ~ j <= p
      BY <1>2, <3>1, <3>3 DEF Orphan, IsToolResult
    <3> QED
      BY <3>2, <3>3
  <2> QED
    BY <1>3, <2>1 DEF OrphansAreFirst
<1>5. CalledResults(messages)
  BY <1>2, <1>3 DEF CalledResults
<1> QED
  BY <1>3, <1>4, <1>5 DEF RecentInv, PruningTypeOK

(* Messages that are said behind a history bring no orphans and their own  *)
(* call.                                                                   *)
LEMMA SaidKeepsRecent ==
    ASSUME NEW s \in Seq(Message), NEW t \in Seq(Message), NEW l \in Nat,
           OrphansAreFirst(s), CalledResults(s),
           l = Len(s), Len(t) >= l,
           \A i \in 1 .. l : t[i] = s[i],
           \A i \in l + 1 .. Len(t) : ~ Orphan(t[i]),
           \A i \in l + 1 .. Len(t) : IsToolResult(t[i]) =>
               /\ i > l + 1 /\ l + 1 >= i - MaxResults /\ t[l + 1].role = "call"
               /\ \A j \in l + 2 .. i : IsToolResult(t[j])
    PROVE  OrphansAreFirst(t) /\ CalledResults(t)
<1>1. OrphansAreFirst(t)
  <2> SUFFICES ASSUME NEW i \in 1 .. Len(t), Orphan(t[i]), NEW j \in 1 .. i
               PROVE  Orphan(t[j]) \/ \A k \in 1 .. j : t[k].role = "system"
    BY DEF OrphansAreFirst
  <2>1. i \in 1 .. l /\ j \in 1 .. l /\ \A k \in 1 .. j : k \in 1 .. l
    <3>1. ~ i \in l + 1 .. Len(t)
      OBVIOUS
    <3> QED
      BY <3>1
  <2>2. Orphan(s[i]) /\ t[j] = s[j] /\ \A k \in 1 .. j : t[k] = s[k]
    BY <2>1
  <2>3. Orphan(s[j]) \/ \A k \in 1 .. j : s[k].role = "system"
    BY <2>1, <2>2 DEF OrphansAreFirst
  <2> QED
    BY <2>2, <2>3
<1>2. CalledResults(t)
  <2> SUFFICES ASSUME NEW i \in 1 .. Len(t), IsToolResult(t[i]), t[i].by # 0
               PROVE  \E c \in 1 .. i - 1 :
                          /\ c >= i - MaxResults /\ t[c].role = "call"
                          /\ \A j \in c + 1 .. i : IsToolResult(t[j])
    BY DEF CalledResults
  <2>1. CASE i \in 1 .. l
    <3>1. t[i] = s[i]
      BY <2>1
    <3>2. PICK c \in 1 .. i - 1 :
              /\ c >= i - MaxResults /\ s[c].role = "call"
              /\ \A j \in c + 1 .. i : IsToolResult(s[j])
      BY <2>1, <3>1 DEF CalledResults
    <3>3. c \in 1 .. l /\ \A j \in c + 1 .. i : j \in 1 .. l
      BY <2>1
    <3>4. t[c].role = "call" /\ \A j \in c + 1 .. i : IsToolResult(t[j])
      BY <3>2, <3>3
    <3> QED
      BY <3>2, <3>4
  <2>2. CASE i \in l + 1 .. Len(t)
    <3>1. /\ i > l + 1 /\ l + 1 >= i - MaxResults /\ t[l + 1].role = "call"
          /\ \A j \in l + 2 .. i : IsToolResult(t[j])
      BY <2>2
    <3>2. l + 1 \in 1 .. i - 1 /\ (l + 1) + 1 = l + 2
      BY <2>2, <3>1
    <3> QED
      BY <3>1, <3>2
  <2>3. i \in 1 .. l \/ i \in l + 1 .. Len(t)
    OBVIOUS
  <2> QED
    BY <2>1, <2>2, <2>3
<1> QED
  BY <1>1, <1>2

LEMMA SayRecent ==
    ASSUME RecentInv, NEW role \in Roles, Say(role)
    PROVE  RecentInv'
<1> DEFINE m == [role |-> role, by |-> said + 1]
           l == Len(messages)
<1>1. /\ messages' = Append(messages, m) /\ said' = said + 1
      /\ m \in Message /\ m.role # "tool"
  <2>1. messages' = Append(messages, m) /\ said' = said + 1 /\ role # "tool"
    BY DEF Say
  <2>2. m \in Message
    BY DEF Message, RecentInv, PruningTypeOK
  <2> QED
    BY <2>1, <2>2
<1>2. messages \in Seq(Message) /\ said \in Nat /\ l \in Nat
  BY DEF RecentInv, PruningTypeOK
<1> HIDE DEF m
<1>3. /\ messages' \in Seq(Message) /\ Len(messages') = l + 1
      /\ messages'[l + 1] = m
      /\ \A i \in 1 .. l : messages'[i] = messages[i]
  BY <1>1, <1>2
<1>4. \A i \in l + 1 .. Len(messages') : ~ IsToolResult(messages'[i])
  BY <1>1, <1>2, <1>3 DEF IsToolResult
<1>5. OrphansAreFirst(messages') /\ CalledResults(messages')
  <2>1. OrphansAreFirst(messages) /\ CalledResults(messages)
    BY DEF RecentInv
  <2>2. \A i \in l + 1 .. Len(messages') : ~ Orphan(messages'[i])
    BY <1>4 DEF Orphan
  <2>3. Len(messages') >= l
    BY <1>2, <1>3
  <2> QED
    BY <1>2, <1>3, <1>4, <2>1, <2>2, <2>3, SaidKeepsRecent
<1>6. PruningTypeOK'
  BY <1>1, <1>2, <1>3 DEF PruningTypeOK
<1>7. (OrphansAreFirst(messages) /\ CalledResults(messages))'
  BY <1>5 DEF OrphansAreFirst, CalledResults
<1> QED
  BY <1>6, <1>7 DEF RecentInv

LEMMA SayCallsRecent ==
    ASSUME RecentInv, NEW n \in 1 .. MaxResults, SayCalls(n)
    PROVE  RecentInv'
<1> DEFINE l == Len(messages)
<1>1. /\ l \in Nat /\ n \in Nat /\ said \in Nat /\ said' = said + 1
      /\ messages' \in Seq(Message) /\ Len(messages') = l + n + 1
      /\ \A i \in 1 .. l : messages'[i] = messages[i]
      /\ messages'[l + 1].role = "call" /\ messages'[l + 1].by = said + 1
      /\ \A i \in l + 2 .. l + n + 1 :
             messages'[i].role = "tool" /\ messages'[i].by = said + 1
  BY SaidCalls DEF RecentInv
<1>2. n <= MaxResults /\ MaxResults \in Nat
  BY PruningAssumption
<1>3. \A i \in l + 1 .. Len(messages') : ~ Orphan(messages'[i])
  <2> SUFFICES ASSUME NEW i \in l + 1 .. Len(messages') PROVE ~ Orphan(messages'[i])
    OBVIOUS
  <2>1. i = l + 1 \/ i \in l + 2 .. l + n + 1
    BY <1>1
  <2>2. messages'[i].by = said + 1 /\ said + 1 # 0
    BY <1>1, <2>1
  <2> QED
    BY <2>2 DEF Orphan
<1>4. ASSUME NEW i \in l + 1 .. Len(messages'), IsToolResult(messages'[i])
      PROVE  /\ i > l + 1 /\ l + 1 >= i - MaxResults /\ messages'[l + 1].role = "call"
             /\ \A j \in l + 2 .. i : IsToolResult(messages'[j])
  <2>1. i # l + 1
    BY <1>1, <1>4 DEF IsToolResult
  <2>2. i > l + 1 /\ l + 1 >= i - MaxResults
    BY <1>1, <1>2, <2>1
  <2>3. \A j \in l + 2 .. i : j \in l + 2 .. l + n + 1
    BY <1>1
  <2> QED
    BY <1>1, <2>2, <2>3 DEF IsToolResult
<1>5. OrphansAreFirst(messages') /\ CalledResults(messages')
  <2>1. OrphansAreFirst(messages) /\ CalledResults(messages) /\ messages \in Seq(Message)
    BY DEF RecentInv, PruningTypeOK
  <2>2. Len(messages') >= l
    BY <1>1
  <2> QED
    BY <1>1, <1>3, <1>4, <2>1, <2>2, SaidKeepsRecent
<1>6. (OrphansAreFirst(messages) /\ CalledResults(messages))'
  BY <1>5 DEF OrphansAreFirst, CalledResults
<1> QED
  BY <1>1, <1>6 DEF RecentInv, PruningTypeOK

(* What is left of a cut has no orphans, and the call of every other       *)
(* result: both would stand at the cut.                                    *)
LEMMA CutKeepsRecent ==
    ASSUME NEW s \in Seq(Message), OrphansAreFirst(s), CalledResults(s),
           NEW p, NEW start, NEW kept, IsCut(s, p, start, kept)
    PROVE  /\ \A i \in 1 .. Len(kept) : ~ Orphan(kept[i])
           /\ OrphansAreFirst(kept) /\ CalledResults(kept)
<1>1. /\ p \in 0 .. Len(s) /\ \A i \in 1 .. p : s[i].role = "system"
      /\ p < Len(s) => s[p + 1].role # "system"
      /\ start \in 1 .. Len(s) - p + 1
      /\ start <= Len(s) - p => ~ IsToolResult(s[p + start])
      /\ kept \in Seq(Message) /\ Len(kept) = Len(s) + 1 - start
      /\ \A i \in 1 .. p : kept[i] = s[i]
      /\ \A i \in p + 1 .. Len(kept) : kept[i] = s[start + i - 1]
  BY DEF IsCut
<1>2. Len(s) \in Nat /\ p \in Nat /\ start \in Nat /\ 1 <= start /\ Len(kept) \in Nat
  BY <1>1
<1>3. ASSUME NEW i \in 1 .. Len(kept), IsToolResult(kept[i])
      PROVE  /\ i \in p + 2 .. Len(kept) /\ kept[i] = s[start + i - 1]
             /\ start + i - 1 \in p + start + 1 .. Len(s)
             /\ p < Len(s) /\ ~ IsToolResult(s[p + start])
  <2>1. i > p
    <3>1. i <= p => i \in 1 .. p
      BY <1>2
    <3>2. ~ i \in 1 .. p
      BY <1>1, <1>3 DEF IsToolResult
    <3> QED
      BY <1>2, <3>1, <3>2
  <2>2. i \in p + 1 .. Len(kept) /\ start <= Len(s) - p /\ p < Len(s)
    BY <1>1, <1>2, <2>1
  <2>3. kept[i] = s[start + i - 1] /\ ~ IsToolResult(s[p + start])
    BY <1>1, <2>2
  <2>4. i # p + 1
    <3>1. i = p + 1 => start + i - 1 = p + start
      BY <1>2
    <3> QED
      BY <1>3, <2>3, <3>1
  <2>5. i \in p + 2 .. Len(kept) /\ start + i - 1 \in p + start + 1 .. Len(s)
    BY <1>1, <1>2, <2>2, <2>4
  <2> QED
    BY <2>2, <2>3, <2>5
<1>4. ASSUME NEW i \in 1 .. Len(kept)
      PROVE  ~ Orphan(kept[i])
  <2> SUFFICES ASSUME Orphan(kept[i]) PROVE FALSE
    OBVIOUS
  <2>1. IsToolResult(kept[i])
    BY DEF Orphan
  <2> DEFINE k == start + i - 1
  <2>2. /\ kept[i] = s[k] /\ k \in p + start + 1 .. Len(s)
        /\ p < Len(s) /\ ~ IsToolResult(s[p + start])
    BY <1>3, <2>1
  <2> HIDE DEF k
  <2>3. Orphan(s[k]) /\ k \in 1 .. Len(s) /\ p + start \in 1 .. k /\ p + 1 \in 1 .. p + start
    BY <1>2, <2>2
  <2>4. Orphan(s[p + start]) \/ \A j \in 1 .. p + start : s[j].role = "system"
    BY <2>3 DEF OrphansAreFirst
  <2>5. s[p + 1].role = "system"
    BY <2>2, <2>3, <2>4 DEF Orphan
  <2> QED
    BY <1>1, <2>2, <2>5
<1>5. ASSUME NEW i \in 1 .. Len(kept), IsToolResult(kept[i]), kept[i].by # 0
      PROVE  \E c \in 1 .. i - 1 :
                 /\ c >= i - MaxResults /\ kept[c].role = "call"
                 /\ \A j \in c + 1 .. i : IsToolResult(kept[j])
  <2> DEFINE k == start + i - 1
  <2>1. /\ kept[i] = s[k] /\ k \in p + start + 1 .. Len(s) /\ i \in p + 2 .. Len(kept)
        /\ ~ IsToolResult(s[p + start])
    BY <1>3, <1>5
  <2>2. PICK c \in 1 .. k - 1 :
            /\ c >= k - MaxResults /\ s[c].role = "call"
            /\ \A j \in c + 1 .. k : IsToolResult(s[j])
    <3> HIDE DEF k
    <3>1. k \in 1 .. Len(s) /\ IsToolResult(s[k]) /\ s[k].by # 0
      BY <1>2, <1>5, <2>1
    <3> QED
      BY <3>1 DEF CalledResults
  <2>3. c >= p + start
    <3>1. ~ p + start \in c + 1 .. k
      BY <2>1, <2>2
    <3> HIDE DEF k
    <3>2. p + start <= k /\ k \in Nat /\ c \in Nat
      BY <1>2, <2>1
    <3> QED
      BY <1>2, <3>1, <3>2
  <2> DEFINE d == c - start + 1
  <2>4. /\ d \in p + 1 .. i - 1 /\ d \in 1 .. i - 1 /\ start + d - 1 = c
        /\ d \in p + 1 .. Len(kept)
    BY <1>2, <2>1, <2>3
  <2>5. d >= i - MaxResults
    <3>1. MaxResults \in Nat /\ c \in Nat /\ c >= (start + i - 1) - MaxResults /\ i \in Nat
      BY <2>2, PruningAssumption
    <3> QED
      BY ONLY <1>2, <3>1
  <2>6. kept[d].role = "call"
    <3> HIDE DEF d
    <3>1. kept[d] = s[start + d - 1]
      BY <1>1, <2>4
    <3> QED
      BY <2>2, <2>4, <3>1
  <2>7. ASSUME NEW j \in d + 1 .. i
        PROVE  IsToolResult(kept[j])
    <3>1. j \in p + 1 .. Len(kept) /\ start + j - 1 \in c + 1 .. k
      <4>1. j \in Int /\ j >= d + 1 /\ j <= i /\ d \in Int /\ d >= p + 1 /\ start + d - 1 = c
        BY <2>4
      <4> HIDE DEF d
      <4> QED
        BY <1>2, <4>1
    <3>2. kept[j] = s[start + j - 1]
      BY <1>1, <3>1
    <3> QED
      BY <2>2, <3>1, <3>2
  <2> HIDE DEF d
  <2> QED
    BY <2>4, <2>5, <2>6, <2>7
<1>6. OrphansAreFirst(kept)
  BY <1>4 DEF OrphansAreFirst
<1> QED
  BY <1>4, <1>5, <1>6 DEF CalledResults

(* What Prune leaves is such a cut.                                        *)
LEMMA PruneCuts ==
    ASSUME PruningTypeOK, NEW max \in MaxMessages, Prune(max)
    PROVE  \E p \in PrefixLens(messages) :
               \E start \in Start(SubSeq(messages, p + 1, Len(messages)), Larger(max - p, 1)) :
                   IsCut(messages, p, start, messages')
<1>1. PICK p \in PrefixLens(messages) :
          \E start \in Start(SubSeq(messages, p + 1, Len(messages)), Larger(max - p, 1)) :
              messages' = SubSeq(messages, 1, p)
                          \o SubSeq(SubSeq(messages, p + 1, Len(messages)), start,
                                    Len(SubSeq(messages, p + 1, Len(messages))))
  BY DEF Prune
<1>2. messages \in Seq(Message)
  BY DEF PruningTypeOK
<1>3. Larger(max - p, 1) \in Nat
  BY <1>2, PruningAssumption DEF Larger, PrefixLens
<1> QED
  BY <1>1, <1>2, <1>3, CutIs

LEMMA PruneRecent ==
    ASSUME RecentInv, NEW max \in MaxMessages, Prune(max)
    PROVE  RecentInv' /\ \A i \in 1 .. Len(messages') : ~ Orphan(messages'[i])
<1>1. PICK p, start : IsCut(messages, p, start, messages')
  BY PruneCuts DEF RecentInv
<1>2. /\ messages \in Seq(Message) /\ said \in Nat /\ said' = said
      /\ OrphansAreFirst(messages) /\ CalledResults(messages)
  BY DEF RecentInv, PruningTypeOK, Prune
<1>3. /\ \A i \in 1 .. Len(messages') : ~ Orphan(messages'[i])
      /\ OrphansAreFirst(messages') /\ CalledResults(messages')
  BY <1>1, <1>2, CutKeepsRecent
<1>4. (OrphansAreFirst(messages) /\ CalledResults(messages))'
  BY <1>3 DEF OrphansAreFirst, CalledResults
<1>5. messages' \in Seq(Message)
  BY <1>1 DEF IsCut
<1> QED
  BY <1>2, <1>3, <1>4, <1>5 DEF RecentInv, PruningTypeOK

(* Where the walks end: at most the results of one call before the place   *)
(* that the count says, or behind it, over nothing but orphans.            *)
LEMMA StartWalks ==
    ASSUME NEW s \in Seq(Message), OrphansAreFirst(s), CalledResults(s),
           NEW keep \in Nat \ {0}, NEW p \in PrefixLens(s),
           NEW start \in Start(SubSeq(s, p + 1, Len(s)), keep)
    PROVE  LET from == Larger(Len(s) - p - keep, 0) + 1
           IN  /\ start \in Nat /\ from <= start + MaxResults
               /\ start > from => \A i \in p + 1 .. p + start - 1 : Orphan(s[i])
<1> DEFINE rest == SubSeq(s, p + 1, Len(s))
           from == Larger(Len(s) - p - keep, 0) + 1
<1>1. /\ Len(s) \in Nat /\ p \in 0 .. Len(s) /\ p \in Nat
      /\ \A i \in 1 .. p : s[i].role = "system"
      /\ p < Len(s) => s[p + 1].role # "system"
  BY DEF PrefixLens
<1>2. /\ rest \in Seq(Message)
      /\ Len(rest) = Len(s) - p
      /\ \A i \in 1 .. Len(s) - p : rest[i] = s[p + i]
  <2>1. p + 1 \in 1 .. Len(s) + 1 /\ Len(s) \in (p + 1) - 1 .. Len(s)
    BY <1>1
  <2>2. /\ rest \in Seq(Message)
        /\ Len(rest) = Len(s) + 1 - (p + 1)
        /\ \A i \in 1 .. Len(s) + 1 - (p + 1) : rest[i] = s[p + 1 + i - 1]
    BY <2>1, SliceProperties
  <2> HIDE DEF rest
  <2> QED
    BY <1>1, <2>2
<1>3. PICK b \in Back(rest, from) : start \in Forward(rest, b)
  <2>1. from = Larger(Len(rest) - keep, 0) + 1
    BY <1>2
  <2> HIDE DEF from, rest
  <2>2. start \in Start(rest, keep)
    BY DEF rest
  <2> QED
    BY <2>1, <2>2 DEF Start
<1>4. from \in Nat /\ from >= 1 /\ (p < Len(s) => from <= Len(s) - p) /\ (p = Len(s) => from = 1)
  BY <1>1 DEF Larger
<1> HIDE DEF rest, from
<1>5. /\ b \in 1 .. from /\ (b = 1 \/ ~ IsToolResult(rest[b]))
      /\ \A i \in b + 1 .. from : IsToolResult(rest[i])
  BY <1>3 DEF Back
<1>6. /\ start \in b .. Len(s) - p + 1
      /\ \A i \in b .. start - 1 : IsToolResult(rest[i])
      /\ start <= Len(s) - p => ~ IsToolResult(rest[start])
  BY <1>2, <1>3 DEF Forward
<1>7. b \in Nat /\ start \in Nat /\ b >= 1 /\ MaxResults \in Nat
  BY <1>1, <1>4, <1>5, <1>6, PruningAssumption
<1>8. /\ from <= start + MaxResults
      /\ start > from => \A i \in p + 1 .. p + start - 1 : Orphan(s[i])
  <2>1. CASE p = Len(s)
    <3>1. start <= 1 /\ start >= 1
      BY <1>1, <1>6, <1>7, <2>1
    <3>2. from = 1 /\ start = 1
      BY <1>4, <1>7, <2>1, <3>1
    <3>3. 1 <= 1 + MaxResults /\ ~ 1 > 1
      BY <1>7
    <3> QED
      BY <3>2, <3>3
  <2>2. CASE p < Len(s) /\ ~ IsToolResult(rest[b])
    <3>1. start = b
      <4>1. ~ b \in b .. start - 1
        BY <1>6, <2>2
      <4> QED
        BY <1>6, <1>7, <4>1
    <3>2. b < from => from <= b + MaxResults
      <4> SUFFICES ASSUME b < from PROVE from <= b + MaxResults
        OBVIOUS
      <4>1. /\ from \in b + 1 .. from /\ from \in 1 .. Len(s) - p /\ b \in 1 .. Len(s) - p
            /\ p + from \in 1 .. Len(s) /\ p + b \in 1 .. p + from /\ p + 1 \in 1 .. p + b
        BY <1>1, <1>4, <1>7, <2>2
      <4>2. IsToolResult(s[p + from]) /\ ~ IsToolResult(s[p + b])
        BY <1>2, <1>5, <2>2, <4>1
      <4>3. ~ Orphan(s[p + from])
        <5>1. Orphan(s[p + from]) =>
                  Orphan(s[p + b]) \/ \A j \in 1 .. p + b : s[j].role = "system"
          BY <4>1 DEF OrphansAreFirst
        <5>2. ~ \A j \in 1 .. p + b : s[j].role = "system"
          BY <1>1, <2>2, <4>1
        <5> QED
          BY <4>2, <5>1, <5>2 DEF Orphan
      <4> DEFINE k == p + from
      <4>k. k = p + from /\ k \in 1 .. Len(s) /\ IsToolResult(s[k]) /\ s[k].by # 0
        BY <4>1, <4>2, <4>3 DEF Orphan
      <4> HIDE DEF k
      <4>4. PICK c \in 1 .. k - 1 : c >= k - MaxResults /\ s[c].role = "call"
        BY <4>k DEF CalledResults
      <4>5. c <= p + b
        <5> SUFFICES ASSUME c > p + b PROVE FALSE
          BY <1>1, <1>4, <1>7, <4>4, <4>k
        <5>1. /\ c - p \in b + 1 .. from /\ c - p \in 1 .. Len(s) - p /\ p + (c - p) = c
          BY <1>1, <1>4, <1>7, <4>1, <4>4, <4>k
        <5>2. IsToolResult(s[c])
          BY <1>2, <1>5, <5>1
        <5> QED
          BY <4>4, <4>k, <5>2 DEF IsToolResult
      <4>6. c \in Nat
        BY <1>1, <1>4, <4>4, <4>k
      <4> QED
        BY ONLY <1>1, <1>4, <1>7, <4>4, <4>k, <4>5, <4>6
    <3> QED
      BY <1>4, <1>5, <1>7, <3>1, <3>2
  <2>3. CASE p < Len(s) /\ IsToolResult(rest[b])
    <3>1. b = 1 /\ \A i \in 1 .. from : IsToolResult(rest[i])
      <4>1. b = 1
        BY <1>5, <2>3
      <4> QED
        BY <1>4, <1>5, <2>3, <4>1
    <3>2. start > from
      <4> SUFFICES ASSUME start <= from PROVE FALSE
        BY <1>4, <1>7
      <4>1. start \in 1 .. from /\ start <= Len(s) - p
        BY <1>1, <1>4, <1>6, <1>7, <2>3
      <4> QED
        BY <1>6, <3>1, <4>1
    <3>3. \A i \in p + 1 .. p + start - 1 : IsToolResult(s[i])
      <4> SUFFICES ASSUME NEW i \in p + 1 .. p + start - 1 PROVE IsToolResult(s[i])
        OBVIOUS
      <4>1. i - p \in 1 .. start - 1 /\ i - p \in 1 .. Len(s) - p /\ p + (i - p) = i
        BY <1>1, <1>6, <1>7
      <4> QED
        BY <1>2, <1>6, <3>1, <4>1
    <3>4. ASSUME NEW i \in p + 1 .. p + start - 1
          PROVE  Orphan(s[i])
      <4> SUFFICES ASSUME s[i].by # 0 PROVE FALSE
        BY <3>3 DEF Orphan
      <4>1. i \in 1 .. Len(s) /\ i \in Nat
        BY <1>1, <1>6, <1>7
      <4>2. PICK c \in 1 .. i - 1 : s[c].role = "call"
        BY <3>3, <4>1 DEF CalledResults
      <4>3. CASE c <= p
        <5>1. c \in 1 .. p
          BY <1>1, <4>2, <4>3
        <5> QED
          BY <1>1, <4>2, <5>1
      <4>4. CASE c > p
        <5>1. c \in p + 1 .. p + start - 1
          BY <1>1, <1>7, <4>1, <4>2, <4>4
        <5> QED
          BY <3>3, <4>2, <5>1 DEF IsToolResult
      <4> QED
        BY <1>1, <4>1, <4>2, <4>3, <4>4
    <3> QED
      BY <1>4, <1>7, <3>2, <3>4
  <2> QED
    BY <1>1, <2>1, <2>2, <2>3
<1> QED
  BY <1>7, <1>8 DEF from

(* What a step of Prune keeps.                                             *)
LEMMA PruneKeeps ==
    ASSUME RecentInv, NEW max \in MaxMessages, Prune(max)
    PROVE  LET lost == Len(messages) - Len(messages')
           IN /\ Orphans(messages') = {}
              /\ \E p \in PrefixLens(messages) :
                   /\ \A i \in 1 .. Len(messages') :
                          messages'[i] = messages[IF i <= p THEN i ELSE i + lost]
                   /\ Len(messages') <= Larger(max, p + 1) + MaxResults
                   /\ \A i \in p + 1 .. lost + p :
                          i \in Orphans(messages) \/ i <= Len(messages) - Larger(max - p, 1)
<1> DEFINE lost == Len(messages) - Len(messages')
<1>1. /\ messages \in Seq(Message) /\ OrphansAreFirst(messages) /\ CalledResults(messages)
      /\ Len(messages) \in Nat /\ max \in Nat /\ MaxResults \in Nat
  BY PruningAssumption DEF RecentInv, PruningTypeOK
<1>2. PICK p \in PrefixLens(messages) :
          \E start \in Start(SubSeq(messages, p + 1, Len(messages)), Larger(max - p, 1)) :
              IsCut(messages, p, start, messages')
  BY PruneCuts DEF RecentInv
<1>3. PICK start \in Start(SubSeq(messages, p + 1, Len(messages)), Larger(max - p, 1)) :
              IsCut(messages, p, start, messages')
  BY <1>2
<1> DEFINE keep == Larger(max - p, 1)
           from == Larger(Len(messages) - p - keep, 0) + 1
<1>4. /\ p \in Nat /\ p <= Len(messages) /\ start \in 1 .. Len(messages) - p + 1
      /\ messages' \in Seq(Message) /\ Len(messages') = Len(messages) + 1 - start
      /\ \A i \in 1 .. p : messages'[i] = messages[i]
      /\ \A i \in p + 1 .. Len(messages') : messages'[i] = messages[start + i - 1]
  BY <1>1, <1>3 DEF IsCut
<1>5. keep \in Nat \ {0} /\ keep + p = Larger(max, p + 1)
  BY <1>1, <1>4 DEF Larger
<1>6. /\ start \in Nat /\ from <= start + MaxResults
      /\ start > from => \A i \in p + 1 .. p + start - 1 : Orphan(messages[i])
  <2> HIDE DEF keep
  <2>1. start \in Start(SubSeq(messages, p + 1, Len(messages)), keep)
    BY DEF keep
  <2> QED
    BY <1>1, <1>5, <2>1, StartWalks
<1> HIDE DEF keep
<1>7. /\ from \in Nat /\ Len(messages) <= p + keep + from - 1
      /\ from > 1 => p + from - 1 <= Len(messages) - keep
  <2>1. keep \in Nat
    BY <1>5
  <2>2. CASE Len(messages) - p - keep < 0
    <3>1. from = 1
      BY <2>2 DEF Larger
    <3> HIDE DEF from
    <3> QED
      BY <1>1, <1>4, <2>1, <2>2, <3>1
  <2>3. CASE ~ Len(messages) - p - keep < 0
    <3>1. from = Len(messages) - p - keep + 1
      BY <1>1, <1>4, <2>1, <2>3 DEF Larger
    <3> HIDE DEF from
    <3> QED
      BY <1>1, <1>4, <2>1, <2>3, <3>1
  <2> QED
    BY <2>2, <2>3
<1> HIDE DEF from
<1>8. lost = start - 1
  BY <1>1, <1>4, <1>6
<1>9. Orphans(messages') = {}
  BY PruneRecent DEF Orphans, Orphan
<1>10. ASSUME NEW i \in 1 .. Len(messages')
       PROVE  messages'[i] = messages[IF i <= p THEN i ELSE i + lost]
  <2>1. CASE i <= p
    <3>1. i \in 1 .. p
      BY <1>4, <2>1
    <3> QED
      BY <1>4, <2>1, <3>1
  <2>2. CASE ~ i <= p
    <3>1. i \in p + 1 .. Len(messages') /\ start + i - 1 = i + lost
      BY <1>4, <1>6, <1>8, <2>2
    <3> HIDE DEF lost
    <3> QED
      BY <1>4, <2>2, <3>1
  <2> QED
    BY <2>1, <2>2
<1>11. Len(messages') <= Larger(max, p + 1) + MaxResults
  <2>1. Len(messages') <= p + keep + MaxResults
    BY ONLY <1>1, <1>4, <1>5, <1>6, <1>7
  <2> QED
    BY <1>1, <1>4, <1>5, <2>1
<1>12. ASSUME NEW i \in p + 1 .. lost + p
       PROVE  i \in Orphans(messages) \/ i <= Len(messages) - keep
  <2>0. i \in p + 1 .. p + start - 1
    BY <1>4, <1>6, <1>8
  <2>1. CASE start > from
    <3>1. i \in 1 .. Len(messages) /\ Orphan(messages[i])
      BY <1>1, <1>4, <1>6, <2>0, <2>1
    <3> QED
      BY <3>1 DEF Orphans, Orphan
  <2>2. CASE start <= from
    <3>1. from > 1 /\ i <= p + from - 1
      BY <1>4, <1>6, <1>7, <2>0, <2>2
    <3> QED
      BY <1>1, <1>4, <1>5, <1>7, <2>0, <3>1
  <2> QED
    BY <1>6, <1>7, <2>1, <2>2
<1> QED
  BY <1>9, <1>10, <1>11, <1>12 DEF keep

(* However often a history is pruned, and to whatever limits: no result    *)
(* without a call is left, and of the messages behind the stable prefix    *)
(* the last ones stay, as many as the limit leaves room for and at most    *)
(* the results of one call more.                                           *)
THEOREM PruningKeepsTheRecent == PruningSpec => KeepsTheRecent
<1>1. RecentInv /\ [PruningNext]_vars => RecentInv'
  <2> SUFFICES ASSUME RecentInv, [PruningNext]_vars PROVE RecentInv'
    OBVIOUS
  <2>1. CASE UNCHANGED vars
    BY <2>1 DEF vars, RecentInv, PruningTypeOK, OrphansAreFirst, CalledResults
  <2> QED
    BY <2>1, SayRecent, SayCallsRecent, PruneRecent DEF PruningNext
<1>2. RecentInv =>
      [\A max \in MaxMessages : Prune(max) =>
        LET lost == Len(messages) - Len(messages')
        IN /\ Orphans(messages') = {}
           /\ \E p \in PrefixLens(messages) :
                /\ \A i \in 1 .. Len(messages') :
                       messages'[i] = messages[IF i <= p THEN i ELSE i + lost]
                /\ Len(messages') <= Larger(max, p + 1) + MaxResults
                /\ \A i \in p + 1 .. lost + p :
                       i \in Orphans(messages) \/ i <= Len(messages) - Larger(max - p, 1)]_vars
  BY PruneKeeps
<1> QED
  BY <1>1, <1>2, RecentInitInv, PTL DEF PruningSpec, KeepsTheRecent

-----------------------------------------------------------------------------
(* Sessions and histories beside the stores of secrets: what moves is one  *)
(* store, and the others rest.                                             *)

LEMMA ConversationsAmongStores == StoresSpec => SessionSpec /\ PruningSpec
<1>1. StoresInit => SessionInit /\ PruningInit
  BY DEF StoresInit
<1>2. [StoresNext]_storesVars => [SessionNext]_sessionVars /\ [PruningNext]_vars
  BY DEF StoresNext, storesVars
<1> QED
  BY <1>1, <1>2, PTL DEF StoresSpec, SessionSpec, PruningSpec

(* No store disturbs a conversation: what was accepted stays, updates are  *)
(* not lost, deleted conversations do not come back, and what is pruned    *)
(* keeps its pairs and the recent messages (session.rs, context.rs).       *)
THEOREM StoresKeepConversations ==
    StoresSpec => /\ []AcceptedIsStored /\ NoLostUpdate /\ NoResurrection
                  /\ []PairsStayTogether /\ KeepsTheRecent
<1>1. SessionSpec => []AcceptedIsStored /\ NoLostUpdate /\ NoResurrection
  BY AcceptedSavesStay, CompareAndSwapLosesNothing, DeletedStaysDeleted
<1>2. PruningSpec => []PairsStayTogether /\ KeepsTheRecent
  BY PairsAlwaysStay, PruningKeepsTheRecent
<1> QED
  BY <1>1, <1>2, ConversationsAmongStores

----------------------------------------------------------------------------
(* Induction.  A set of numbers that is not empty has a least one, so one  *)
(* that has 0 and with every number the next has them all.                 *)

LEMMA LeastNumber ==
    ASSUME NEW T \in SUBSET Nat, T # {}
    PROVE  \E n \in T : \A m \in T : n <= m
<1> DEFINE R == OpToRel(<, Nat)
<1>1. IsWellFoundedOn(R, Nat)
  BY NatLessThanWellFounded
<1>2. \A m, n \in Nat : m < n => <<m, n>> \in R
  BY DEF OpToRel
<1> HIDE DEF R
<1>3. PICK n \in T : \A m \in T : <<m, n>> \notin R
  BY <1>1, WFMin
<1>4. \A m \in T : ~ m < n
  BY <1>2, <1>3
<1>5. \A m \in T : n <= m
  BY <1>4
<1> QED
  BY <1>5

LEMMA Inductive ==
    ASSUME NEW T \in SUBSET Nat, 0 \in T, \A n \in T : n + 1 \in T
    PROVE  T = Nat
<1> SUFFICES ASSUME T # Nat PROVE FALSE
  OBVIOUS
<1>1. Nat \ T \in SUBSET Nat /\ Nat \ T # {}
  OBVIOUS
<1>2. PICK n \in Nat \ T : \A m \in Nat \ T : n <= m
  BY <1>1, LeastNumber
<1>3. n - 1 \in Nat /\ ~ n <= n - 1 /\ n = (n - 1) + 1
  BY <1>2
<1>4. n - 1 \in T
  BY <1>2, <1>3
<1> QED
  BY <1>2, <1>3, <1>4

LEMMA InductiveUpTo ==
    ASSUME NEW n \in Nat, NEW T \in SUBSET (0 .. n), 0 \in T,
           \A i \in 0 .. n - 1 : i \in T => i + 1 \in T
    PROVE  T = 0 .. n
<1> DEFINE U == {i \in Nat : i <= n => i \in T}
<1>1. U \in SUBSET Nat /\ 0 \in U
  OBVIOUS
<1>2. ASSUME NEW i \in U PROVE i + 1 \in U
  <2> SUFFICES ASSUME i + 1 <= n PROVE i + 1 \in T
    OBVIOUS
  <2>1. i \in 0 .. n - 1 /\ i \in T
    OBVIOUS
  <2> QED
    BY <2>1
<1> HIDE DEF U
<1>3. U = Nat
  BY <1>1, <1>2, Inductive
<1>4. \A i \in 0 .. n : i \in T
  BY <1>3 DEF U
<1> QED
  BY <1>4

(* There is a function on 0..n with a given first value and a given step.  *)
Steps(g, n, d, F) ==
    /\ g[0] = d
    /\ \A i \in 0 .. n - 1 : g[i + 1] = F[<<i, g[i]>>]

LEMMA Recursion ==
    ASSUME NEW D, NEW d \in D, NEW F \in [Nat \X D -> D], NEW n \in Nat
    PROVE  \E g \in [0 .. n -> D] : Steps(g, n, d, F)
<1> DEFINE T == {m \in Nat : \E g \in [0 .. m -> D] : Steps(g, m, d, F)}
<1>1. 0 \in T
  <2> DEFINE g == [i \in 0 .. 0 |-> d]
  <2>1. g \in [0 .. 0 -> D] /\ Steps(g, 0, d, F)
    BY DEF Steps
  <2> HIDE DEF g
  <2> QED
    BY <2>1
<1>2. ASSUME NEW m \in T PROVE m + 1 \in T
  <2>1. PICK g \in [0 .. m -> D] : Steps(g, m, d, F)
    OBVIOUS
  <2>2. m \in Nat /\ m \in 0 .. m /\ g[m] \in D /\ F[<<m, g[m]>>] \in D
    OBVIOUS
  <2> DEFINE h == [i \in 0 .. m + 1 |-> IF i = m + 1 THEN F[<<m, g[m]>>] ELSE g[i]]
  <2>3. h \in [0 .. m + 1 -> D]
    BY <2>2
  <2>4. h[m + 1] = F[<<m, g[m]>>] /\ \A i \in 0 .. m : h[i] = g[i]
    BY <2>2
  <2> HIDE DEF h
  <2>5. h[0] = d
    BY <2>1, <2>2, <2>4 DEF Steps
  <2>6. ASSUME NEW i \in 0 .. (m + 1) - 1 PROVE h[i + 1] = F[<<i, h[i]>>]
    <3>1. CASE i = m
      BY <2>2, <2>4, <3>1
    <3>2. CASE i # m
      <4>1. i \in 0 .. m - 1 /\ i \in 0 .. m /\ i + 1 \in 0 .. m
        BY <2>2, <3>2
      <4> QED
        BY <2>1, <2>4, <4>1 DEF Steps
    <3> QED
      BY <3>1, <3>2
  <2>7. Steps(h, m + 1, d, F)
    BY <2>5, <2>6 DEF Steps
  <2>8. m + 1 \in Nat
    BY <2>2
  <2> QED
    BY <2>3, <2>7, <2>8
<1> HIDE DEF T
<1>3. T \in SUBSET Nat
  BY DEF T
<1>4. T = Nat
  BY <1>1, <1>2, <1>3, Inductive
<1> QED
  BY <1>4 DEF T

----------------------------------------------------------------------------
(* Cutting a secret.                                                       *)
Texts == Seq(DOMAIN Width)

LEMMA UnitsStep ==
    ASSUME KeyringAssumption, NEW s \in Texts
    PROVE  /\ UnitsTo(s) \in [0 .. Len(s) -> Nat]
           /\ UnitsTo(s)[0] = 0
           /\ \A i \in 1 .. Len(s) : UnitsTo(s)[i] = UnitsTo(s)[i - 1] + Width[s[i]]
<1> DEFINE Is(u) == u = [i \in 0 .. Len(s) |-> IF i = 0 THEN 0 ELSE u[i - 1] + Width[s[i]]]
           W(i) == IF i + 1 \in 1 .. Len(s) THEN Width[s[i + 1]] ELSE 0
           F == [p \in Nat \X Nat |-> p[2] + W(p[1])]
<1>1. Len(s) \in Nat /\ \A i \in 1 .. Len(s) : Width[s[i]] \in Nat
  BY DEF KeyringAssumption, Texts
<1>2. \A i \in Nat : W(i) \in Nat
  BY <1>1
<1> HIDE DEF W
<1>3. F \in [Nat \X Nat -> Nat] /\ \A i, n \in Nat : F[<<i, n>>] = n + W(i)
  BY <1>2
<1> HIDE DEF F
<1>4. PICK g \in [0 .. Len(s) -> Nat] : Steps(g, Len(s), 0, F)
  BY <1>1, <1>3, Recursion
<1>5. g[0] = 0
  BY <1>4 DEF Steps
<1>6. ASSUME NEW i \in 1 .. Len(s) PROVE g[i] = g[i - 1] + Width[s[i]]
  <2>1. i - 1 \in 0 .. Len(s) - 1 /\ i - 1 \in Nat /\ (i - 1) + 1 = i /\ g[i - 1] \in Nat
    BY <1>1
  <2>2. g[(i - 1) + 1] = F[<<i - 1, g[i - 1]>>]
    BY <1>4, <2>1 DEF Steps
  <2>3. W(i - 1) = Width[s[i]]
    BY <2>1 DEF W
  <2> QED
    BY <1>3, <2>1, <2>2, <2>3
<1>7. Is(g)
  <2> DEFINE h == [i \in 0 .. Len(s) |-> IF i = 0 THEN 0 ELSE g[i - 1] + Width[s[i]]]
  <2>1. \A i \in 0 .. Len(s) : h[i] = g[i]
    BY <1>1, <1>5, <1>6
  <2>2. h = g
    BY <2>1
  <2> QED
    BY <2>2
<1>8. Is(UnitsTo(s))
  <2> HIDE DEF Is
  <2>1. UnitsTo(s) = CHOOSE u : Is(u)
    BY DEF UnitsTo, Is
  <2> QED
    BY <1>7, <2>1
<1> DEFINE u == UnitsTo(s)
<1> HIDE DEF u
<1>9. /\ u = [i \in 0 .. Len(s) |-> u[i]] /\ u[0] = 0
      /\ \A i \in 1 .. Len(s) : u[i] = u[i - 1] + Width[s[i]]
  <2>1. u = [i \in 0 .. Len(s) |-> IF i = 0 THEN 0 ELSE u[i - 1] + Width[s[i]]]
    BY <1>8 DEF u
  <2>2. \A i \in 0 .. Len(s) : u[i] = IF i = 0 THEN 0 ELSE u[i - 1] + Width[s[i]]
    BY <2>1
  <2>3. \A i \in 1 .. Len(s) : i \in 0 .. Len(s) /\ i # 0
    BY <1>1
  <2>4. \A i \in 1 .. Len(s) : u[i] = u[i - 1] + Width[s[i]]
    BY <2>2, <2>3
  <2>5. u[0] = 0
    BY <1>1, <2>2
  <2> QED
    BY <2>1, <2>4, <2>5
<1> DEFINE T == {i \in 0 .. Len(s) : u[i] \in Nat}
<1>10. T = 0 .. Len(s)
  <2>1. T \in SUBSET (0 .. Len(s)) /\ 0 \in T
    BY <1>1, <1>9
  <2>2. ASSUME NEW i \in 0 .. Len(s) - 1, i \in T PROVE i + 1 \in T
    <3>1. /\ i + 1 \in 1 .. Len(s) /\ i + 1 \in 0 .. Len(s) /\ (i + 1) - 1 = i
      BY <1>1
    <3>2. u[i + 1] = u[i] + Width[s[i + 1]]
      BY <1>9, <3>1
    <3> QED
      BY <1>1, <2>2, <3>1, <3>2
  <2> HIDE DEF T
  <2> QED
    BY <1>1, <2>1, <2>2, InductiveUpTo
<1>11. \A i \in 0 .. Len(s) : u[i] \in Nat
  BY <1>10
<1>12. u \in [0 .. Len(s) -> Nat]
  BY <1>9, <1>11
<1> QED
  BY <1>9, <1>12 DEF u

LEMMA UnitsOfNothing ==
    ASSUME KeyringAssumption PROVE Units(<<>>) = 0
<1>1. <<>> \in Texts /\ Len(<<>>) = 0
  BY DEF Texts
<1> QED
  BY <1>1, UnitsStep DEF Units

LEMMA UnitsOfMore ==
    ASSUME KeyringAssumption, NEW s \in Texts, NEW x \in DOMAIN Width
    PROVE  Units(Append(s, x)) = Units(s) + Width[x]
<1> DEFINE t == Append(s, x)
           u == UnitsTo(s)
           v == UnitsTo(t)
<1>1. /\ Len(s) \in Nat /\ t \in Texts /\ Len(t) = Len(s) + 1 /\ t[Len(s) + 1] = x
      /\ \A i \in 1 .. Len(s) : t[i] = s[i]
  BY DEF Texts
<1>2. /\ u \in [0 .. Len(s) -> Nat] /\ u[0] = 0
      /\ \A i \in 1 .. Len(s) : u[i] = u[i - 1] + Width[s[i]]
  BY UnitsStep
<1> HIDE DEF t
<1>3. /\ v[0] = 0
      /\ \A i \in 1 .. Len(s) + 1 : v[i] = v[i - 1] + Width[t[i]]
  BY <1>1, UnitsStep
<1> HIDE DEF u, v
<1> DEFINE T == {i \in 0 .. Len(s) : v[i] = u[i]}
<1>4. T = 0 .. Len(s)
  <2>1. T \in SUBSET (0 .. Len(s)) /\ 0 \in T
    BY <1>1, <1>2, <1>3
  <2>2. ASSUME NEW i \in 0 .. Len(s) - 1, i \in T PROVE i + 1 \in T
    <3>1. /\ i + 1 \in 1 .. Len(s) /\ i + 1 \in 1 .. Len(s) + 1 /\ i + 1 \in 0 .. Len(s)
          /\ (i + 1) - 1 = i
      BY <1>1
    <3>2. u[i + 1] = u[i] + Width[s[i + 1]] /\ v[i + 1] = v[i] + Width[t[i + 1]]
      BY <1>2, <1>3, <3>1
    <3>3. t[i + 1] = s[i + 1]
      BY <1>1, <3>1
    <3> QED
      BY <2>2, <3>1, <3>2, <3>3
  <2> HIDE DEF T
  <2> QED
    BY <1>1, <2>1, <2>2, InductiveUpTo
<1>5. v[Len(s)] = u[Len(s)]
  <2>1. Len(s) \in T
    BY <1>1, <1>4
  <2> QED
    BY <2>1
<1>6. v[Len(s) + 1] = v[Len(s)] + Width[x]
  <2>1. Len(s) + 1 \in 1 .. Len(s) + 1 /\ (Len(s) + 1) - 1 = Len(s)
    BY <1>1
  <2> QED
    BY <1>1, <1>3, <2>1
<1> QED
  BY <1>1, <1>5, <1>6 DEF Units, t, u, v

(* What a cut may be: chunks that are not empty and fit an entry, and an   *)
(* open one that fits.                                                     *)
Pieces == {t \in Texts : t # <<>> /\ Units(t) <= MaxUnits}
CutsSoFar ==
    {cut \in [done : Seq(Pieces), open : Texts, units : 0 .. MaxUnits] :
        cut.units = Units(cut.open)}

LEMMA NoCutIsOne == ASSUME KeyringAssumption PROVE NoCut \in CutsSoFar
  BY UnitsOfNothing DEF KeyringAssumption, NoCut, CutsSoFar, Texts

LEMMA AddCharKeeps ==
    ASSUME KeyringAssumption, NEW cut \in CutsSoFar, NEW x \in DOMAIN Width
    PROVE  AddChar(cut, x) \in CutsSoFar /\ AddChar(cut, x).open # <<>>
<1>1. /\ cut \in [done : Seq(Pieces), open : Texts, units : 0 .. MaxUnits]
      /\ cut.units = Units(cut.open) /\ cut.open \in Seq(DOMAIN Width)
  BY DEF CutsSoFar, Texts
<1>2. Width[x] \in 1 .. MaxUnits /\ MaxUnits \in Nat
  BY DEF KeyringAssumption
<1>3. CASE Fits(cut, x)
  <2> DEFINE new == [cut EXCEPT !.open = Append(cut.open, x), !.units = cut.units + Width[x]]
  <2>1. AddChar(cut, x) = new
    BY <1>1, <1>3 DEF AddChar
  <2>2. Append(cut.open, x) \in Texts /\ Append(cut.open, x) # <<>>
    BY <1>1 DEF Texts
  <2>3. Units(Append(cut.open, x)) = cut.units + Width[x]
    BY <1>1, UnitsOfMore DEF Texts
  <2>4. cut.units + Width[x] \in 0 .. MaxUnits
    <3>1. CASE cut.open = <<>>
      BY <1>1, <1>2, <3>1, UnitsOfNothing
    <3>2. CASE cut.open # <<>>
      BY <1>1, <1>2, <1>3, <3>2 DEF Fits
    <3> QED
      BY <3>1, <3>2
  <2>5. /\ new \in [done : Seq(Pieces), open : Texts, units : 0 .. MaxUnits]
        /\ new.open = Append(cut.open, x) /\ new.units = cut.units + Width[x]
    BY <1>1, <2>2, <2>4
  <2> HIDE DEF new
  <2> QED
    BY <2>1, <2>2, <2>3, <2>5 DEF CutsSoFar
<1>4. CASE ~Fits(cut, x)
  <2> DEFINE new == [done |-> Append(cut.done, cut.open), open |-> <<x>>, units |-> Width[x]]
  <2>1. AddChar(cut, x) = new
    BY <1>4 DEF AddChar
  <2>2. cut.open \in Pieces
    BY <1>1, <1>2, <1>4 DEF Fits, Pieces, Texts
  <2>3. Append(cut.done, cut.open) \in Seq(Pieces)
    BY <1>1, <2>2
  <2>4. <<x>> \in Texts /\ <<x>> # <<>> /\ <<x>> = Append(<<>>, x) /\ <<>> \in Texts
    BY DEF Texts
  <2>5. Units(<<x>>) = Width[x]
    <3>1. Units(Append(<<>>, x)) = 0 + Width[x]
      BY <2>4, UnitsOfMore, UnitsOfNothing
    <3> QED
      BY <1>2, <2>4, <3>1
  <2>6. /\ new \in [done : Seq(Pieces), open : Texts, units : 0 .. MaxUnits]
        /\ new.open = <<x>> /\ new.units = Width[x]
    BY <1>2, <2>3, <2>4
  <2> HIDE DEF new
  <2> QED
    BY <2>1, <2>4, <2>5, <2>6 DEF CutsSoFar
<1> QED
  BY <1>3, <1>4

LEMMA CutsAre ==
    ASSUME KeyringAssumption, NEW s \in Texts
    PROVE  /\ Cuts(s) \in [0 .. Len(s) -> CutsSoFar]
           /\ Len(s) > 0 => Cuts(s)[Len(s)].open # <<>>
<1> DEFINE Is(u) == u = [i \in 0 .. Len(s) |-> IF i = 0 THEN NoCut ELSE AddChar(u[i - 1], s[i])]
           Added(i, cut) == IF i + 1 \in 1 .. Len(s) THEN AddChar(cut, s[i + 1]) ELSE cut
           F == [p \in Nat \X CutsSoFar |-> Added(p[1], p[2])]
<1>1. Len(s) \in Nat /\ \A i \in 1 .. Len(s) : s[i] \in DOMAIN Width
  BY DEF Texts
<1>2. \A i \in Nat : \A cut \in CutsSoFar : Added(i, cut) \in CutsSoFar
  BY <1>1, AddCharKeeps
<1> HIDE DEF Added
<1>3. /\ F \in [Nat \X CutsSoFar -> CutsSoFar]
      /\ \A i \in Nat : \A cut \in CutsSoFar : F[<<i, cut>>] = Added(i, cut)
  BY <1>2
<1> HIDE DEF F
<1>4. PICK g \in [0 .. Len(s) -> CutsSoFar] : Steps(g, Len(s), NoCut, F)
  BY <1>1, <1>3, NoCutIsOne, Recursion
<1>5. g[0] = NoCut
  BY <1>4 DEF Steps
<1>6. ASSUME NEW i \in 1 .. Len(s) PROVE g[i] = AddChar(g[i - 1], s[i])
  <2>1. i - 1 \in 0 .. Len(s) - 1 /\ i - 1 \in Nat /\ (i - 1) + 1 = i /\ g[i - 1] \in CutsSoFar
    BY <1>1
  <2>2. g[(i - 1) + 1] = F[<<i - 1, g[i - 1]>>]
    BY <1>4, <2>1 DEF Steps
  <2>3. Added(i - 1, g[i - 1]) = AddChar(g[i - 1], s[i])
    BY <2>1 DEF Added
  <2> QED
    BY <1>3, <2>1, <2>2, <2>3
<1>7. Is(g)
  <2> DEFINE h == [i \in 0 .. Len(s) |-> IF i = 0 THEN NoCut ELSE AddChar(g[i - 1], s[i])]
  <2>1. \A i \in 0 .. Len(s) : h[i] = g[i]
    BY <1>1, <1>5, <1>6
  <2>2. h = g
    BY <2>1
  <2> QED
    BY <2>2
<1>8. Is(Cuts(s))
  <2> HIDE DEF Is
  <2>1. Cuts(s) = CHOOSE u : Is(u)
    BY DEF Cuts, Is
  <2> QED
    BY <1>7, <2>1
<1> DEFINE u == Cuts(s)
<1> HIDE DEF u
<1>9. /\ u = [i \in 0 .. Len(s) |-> u[i]] /\ u[0] = NoCut
      /\ \A i \in 1 .. Len(s) : u[i] = AddChar(u[i - 1], s[i])
  <2>1. u = [i \in 0 .. Len(s) |-> IF i = 0 THEN NoCut ELSE AddChar(u[i - 1], s[i])]
    BY <1>8 DEF u
  <2>2. \A i \in 0 .. Len(s) : u[i] = IF i = 0 THEN NoCut ELSE AddChar(u[i - 1], s[i])
    BY <2>1
  <2>3. \A i \in 1 .. Len(s) : i \in 0 .. Len(s) /\ i # 0
    BY <1>1
  <2>4. \A i \in 1 .. Len(s) : u[i] = AddChar(u[i - 1], s[i])
    BY <2>2, <2>3
  <2>5. u[0] = NoCut
    BY <1>1, <2>2
  <2> QED
    BY <2>1, <2>4, <2>5
<1> DEFINE T == {i \in 0 .. Len(s) : u[i] \in CutsSoFar}
<1>10. T = 0 .. Len(s)
  <2>1. T \in SUBSET (0 .. Len(s)) /\ 0 \in T
    BY <1>1, <1>9, NoCutIsOne
  <2>2. ASSUME NEW i \in 0 .. Len(s) - 1, i \in T PROVE i + 1 \in T
    <3>1. /\ i + 1 \in 1 .. Len(s) /\ i + 1 \in 0 .. Len(s) /\ (i + 1) - 1 = i
      BY <1>1
    <3>2. u[i + 1] = AddChar(u[i], s[i + 1])
      BY <1>9, <3>1
    <3> QED
      BY <1>1, <2>2, <3>1, <3>2, AddCharKeeps
  <2> HIDE DEF T
  <2> QED
    BY <1>1, <2>1, <2>2, InductiveUpTo
<1>11. \A i \in 0 .. Len(s) : u[i] \in CutsSoFar
  BY <1>10
<1>12. u \in [0 .. Len(s) -> CutsSoFar]
  BY <1>9, <1>11
<1>13. ASSUME Len(s) > 0 PROVE u[Len(s)].open # <<>>
  <2>1. Len(s) \in 1 .. Len(s) /\ Len(s) - 1 \in 0 .. Len(s)
    BY <1>1, <1>13
  <2>2. u[Len(s)] = AddChar(u[Len(s) - 1], s[Len(s)])
    BY <1>9, <2>1
  <2> QED
    BY <1>1, <1>11, <2>1, <2>2, AddCharKeeps
<1> QED
  BY <1>12, <1>13 DEF u

(* A secret that is cut comes in chunks that fit an entry, none of them    *)
(* empty, wherever wide characters fall (split_secret_chunks).             *)
LEMMA SplitFits ==
    ASSUME KeyringAssumption, NEW s \in Texts, s # <<>>
    PROVE  Split(s) \in Seq(Pieces) /\ Len(Split(s)) >= 1
<1> DEFINE cut == Cuts(s)[Len(s)]
<1>1. Len(s) \in Nat /\ Len(s) > 0
  BY DEF Texts
<1>2. cut \in CutsSoFar /\ cut.open # <<>>
  BY <1>1, CutsAre
<1> HIDE DEF cut
<1>3. cut.open \in Pieces /\ cut.done \in Seq(Pieces)
  BY <1>2 DEF CutsSoFar, Pieces, KeyringAssumption
<1>4. Split(s) = Append(cut.done, cut.open)
  BY DEF Split, cut
<1> QED
  BY <1>3, <1>4

----------------------------------------------------------------------------
(* The inductive invariant.                                                *)

(* What may be under the key.                                              *)
Storable == Secrets \union {<<>>}
Long(s) == s \in Secrets /\ ~Short(s) /\ Len(Split(s)) <= MaxChunks
Entries ==
    {e \in [kind : {"nothing", "plain", "manifest"}, gen : 0 .. MaxGens,
            count : 0 .. MaxChunks, secret : Storable] :
        /\ HasManifest(e) => e.gen # 0 /\ Long(e.secret) /\ e.count = Len(Split(e.secret))
        /\ ~HasManifest(e) => e.gen = 0 /\ e.count = 0 /\ Short(e.secret)}

(* A call, and what goes together at each of its points.                   *)
Records ==
    [op : {"none", "get", "set", "delete"},
     at : {"idle", "read", "part", "write", "publish", "undo", "erase", "sweep", "end"},
     secret : Storable, found : Entries, gen : 0 .. MaxGens, next : Nat \ {0}, told : Texts,
     done : BOOLEAN, failed : BOOLEAN]

PlaceOf(j) ==
    /\ j.at = "idle" => j = Idle
    /\ j.at # "idle" => j.op # "none"
    /\ j.op = "set" => j.secret \in Secrets
    /\ j.gen # 0 => j.op = "set" /\ Long(j.secret) /\ j.next \in 1 .. MaxChunks + 1
    /\ j.at \in {"read", "write", "publish", "erase"} => ~j.done /\ ~j.failed
    /\ j.at \in {"read", "part", "erase"} => j.gen = 0
    /\ j.at = "read" => j.next = 1
    /\ j.at = "part" => j.op = "get" /\ j.done /\ ~j.failed
    /\ j.at = "write" => j.gen # 0 /\ j.next <= Len(Split(j.secret))
    /\ j.at \in {"write", "publish", "undo"} => j.op = "set"
    /\ j.at = "publish" =>
           IF j.gen = 0 THEN Short(j.secret) ELSE j.next = Len(Split(j.secret)) + 1
    /\ j.at = "undo" => ~j.failed
    /\ j.at = "undo" /\ j.gen # 0 => j.next <= Len(Split(j.secret)) + 1
    /\ j.at = "erase" => j.op = "delete"
    /\ j.at = "sweep" =>
           /\ j.op \in {"set", "delete"} /\ (j.done \/ j.failed)
           /\ j.op = "set" => ~j.failed
           /\ j.next <= j.found.count + 1
    /\ j.at = "end" => j.failed \/ (j.done /\ (j.op = "get" => j.told = j.found.secret))

Jobs == {j \in Records : PlaceOf(j)}

ShapeInv ==
    /\ entry \in Entries
    /\ chunk \in [Names -> Texts]
    /\ job \in [Processes -> Jobs]
    /\ gens \in 0 .. MaxGens
    /\ calls \in Nat /\ faults \in Nat
    /\ harmed \subseteq 0 .. MaxGens
    /\ littered \in BOOLEAN

(* A generation is drawn once: while it is written, nobody else knows it,  *)
(* and who cleans up behind a manifest, or takes back one that was not     *)
(* published, has not the generation that is under the key.                *)
Writing(j) == j.at \in {"write", "publish"} /\ j.gen # 0
Removing(j) == IF j.at = "sweep" THEN j.found.gen ELSE IF j.at = "undo" THEN j.gen ELSE 0

DrawnOnce ==
    /\ entry.gen <= gens
    /\ \A c \in Processes : job[c].gen <= gens /\ job[c].found.gen <= gens
    /\ \A c, d \in Processes : c # d /\ job[c].gen # 0 => job[c].gen # job[d].gen
    /\ \A c \in Processes : Writing(job[c]) =>
           entry.gen # job[c].gen /\ \A d \in Processes : job[d].found.gen # job[c].gen
    /\ \A c \in Processes : Removing(job[c]) # 0 =>
           Removing(job[c]) # entry.gen \/ Removing(job[c]) \in harmed

(* What a writer has written is there.                                     *)
WrittenIsThere ==
    \A c \in Processes :
        Writing(job[c]) /\ job[c].gen \notin harmed =>
            \A i \in 1 .. job[c].next - 1 :
                chunk[<<job[c].gen, i>>] = Split(job[c].secret)[i]

ChunksFit ==
    \A n \in Names : chunk[n] # Missing /\ n[1] \notin harmed => Units(chunk[n]) <= MaxUnits

(* Without litter at most one call changes the key, and every chunk is of  *)
(* the entry, or of the call, which has still to publish or to delete it.  *)
Owns(j, n) ==
    \/ j.at \in {"write", "publish", "undo"} /\ n[1] = j.gen /\ n[2] < j.next
    \/ j.at = "sweep" /\ n[1] = j.found.gen /\ j.next <= n[2] /\ n[2] <= j.found.count

NoLitter ==
    ~littered =>
        /\ \A c, d \in Processes : Changes(c) /\ Changes(d) => c = d
        /\ \A c \in Processes :
              job[c].at \in {"write", "publish", "undo", "erase"} => job[c].found = entry
        /\ \A n \in Names : chunk[n] # Missing =>
              n \in Chunks(entry) \/ \E c \in Processes : Owns(job[c], n)

KeyringInv ==
    /\ ShapeInv /\ DrawnOnce /\ EntryIsWhole /\ WrittenIsThere /\ ChunksFit /\ NoLitter

----------------------------------------------------------------------------
(* Facts about shapes.                                                     *)

LEMMA KeptAreTexts ==
    ASSUME KeyringAssumption PROVE <<>> \in Texts /\ <<>> \in Storable /\ Storable \subseteq Texts
<1>1. <<>> \in Texts /\ Secrets \subseteq Texts
  BY DEF Texts, KeyringAssumption
<1> HIDE DEF Texts
<1> QED
  BY <1>1 DEF Storable

LEMMA JobIs ==
    ASSUME ShapeInv, NEW c \in Processes
    PROVE  /\ job[c] \in Records /\ PlaceOf(job[c])
           /\ job[c].secret \in Storable /\ job[c].found \in Entries
           /\ job[c].gen \in 0 .. MaxGens /\ job[c].next \in Nat \ {0}
           /\ job[c].told \in Texts
           /\ job[c].done \in BOOLEAN /\ job[c].failed \in BOOLEAN
  BY DEF ShapeInv, Jobs, Records

LEMMA GoMoves ==
    ASSUME ShapeInv, NEW c \in Processes, NEW j \in Jobs, Go(c, j)
    PROVE  /\ job' \in [Processes -> Jobs] /\ job'[c] = j
           /\ \A d \in Processes \ {c} : job'[d] = job[d]
  BY DEF ShapeInv, Go

LEMMA EntryIs ==
    ASSUME NEW e \in Entries
    PROVE  /\ e.gen \in 0 .. MaxGens /\ e.count \in 0 .. MaxChunks /\ e.secret \in Storable
           /\ HasManifest(e) => e.gen # 0 /\ Long(e.secret) /\ e.count = Len(Split(e.secret))
           /\ ~HasManifest(e) => e.gen = 0 /\ e.count = 0 /\ Short(e.secret)
  BY DEF Entries

LEMMA LongIs ==
    ASSUME KeyringAssumption, NEW s, Long(s)
    PROVE  /\ s \in Secrets /\ s \in Texts /\ Split(s) \in Seq(Pieces)
           /\ Len(Split(s)) \in 1 .. MaxChunks
<1>1. s \in Texts /\ s # <<>> /\ Len(Split(s)) <= MaxChunks
  BY UnitsOfNothing DEF KeyringAssumption, Long, Short, Texts
<1> QED
  BY <1>1, SplitFits DEF Long, KeyringAssumption

LEMMA NothingIs ==
    ASSUME KeyringAssumption PROVE Nothing \in Entries /\ Nothing.gen = 0 /\ Nothing.count = 0
  BY UnitsOfNothing DEF KeyringAssumption, Nothing, Entries, Storable, HasManifest, Short

LEMMA PlainIs ==
    ASSUME KeyringAssumption, NEW s \in Storable, Short(s)
    PROVE  Plain(s) \in Entries /\ Plain(s).gen = 0 /\ Plain(s).count = 0 /\ Plain(s).secret = s
<1>1. Nothing \in [kind : {"nothing"}, gen : 0 .. 0, count : 0 .. 0, secret : {<<>>}]
  BY DEF Nothing
<1>2. /\ Plain(s) \in [kind : {"plain"}, gen : 0 .. 0, count : 0 .. 0, secret : Storable]
      /\ Plain(s).secret = s
  BY <1>1 DEF Plain
<1>3. 0 .. 0 \subseteq 0 .. MaxGens /\ 0 .. 0 \subseteq 0 .. MaxChunks
  BY DEF KeyringAssumption
<1> QED
  BY <1>2, <1>3 DEF Entries, HasManifest

LEMMA ManifestIs ==
    ASSUME KeyringAssumption, NEW s, Long(s), NEW g \in 1 .. MaxGens
    PROVE  /\ Manifest(g, s) \in Entries /\ HasManifest(Manifest(g, s))
           /\ Manifest(g, s).gen = g /\ Manifest(g, s).secret = s
           /\ Manifest(g, s).count = Len(Split(s))
<1>1. s \in Storable /\ Len(Split(s)) \in 0 .. MaxChunks /\ g \in 0 .. MaxGens /\ g # 0
  BY LongIs DEF Storable, KeyringAssumption
<1> QED
  BY <1>1 DEF Manifest, Entries, HasManifest

LEMMA IdleIs == ASSUME KeyringAssumption PROVE Idle \in Jobs
<1>1. Nothing \in Entries /\ <<>> \in Storable /\ <<>> \in Texts
  BY NothingIs DEF Storable, Texts
<1>2. Idle \in Records
  BY <1>1 DEF Idle, Records, KeyringAssumption
<1> QED
  BY <1>2 DEF Jobs, PlaceOf, Idle

----------------------------------------------------------------------------
(* Every step keeps the shapes.  The lemmas of the calls say where a step  *)
(* leads.                                                                  *)

LEMMA StepShape ==
    ASSUME ShapeInv, NEW c \in Processes, NEW j \in Jobs, Go(c, j),
           entry' \in Entries, chunk' \in [Names -> Texts], gens' \in 0 .. MaxGens,
           calls' \in Nat, faults' \in Nat, harmed' \subseteq 0 .. MaxGens,
           littered' \in BOOLEAN
    PROVE  /\ ShapeInv' /\ job'[c] = j /\ job'[c] \in Jobs
           /\ \A d \in Processes \ {c} : job'[d] = job[d]
<1>1. job' \in [Processes -> Jobs] /\ job'[c] = j /\ \A d \in Processes \ {c} : job'[d] = job[d]
  BY GoMoves
<1>2. ShapeInv'
  BY <1>1 DEF ShapeInv
<1> QED
  BY <1>1, <1>2

(* Most steps leave alone what is under the key and what was drawn.        *)
Aside(c) ==
    /\ job'[c] \in Jobs /\ \A d \in Processes \ {c} : job'[d] = job[d]
    /\ UNCHANGED <<entry, gens>>

LEMMA AsideShape ==
    ASSUME ShapeInv, NEW c \in Processes, NEW j \in Jobs, Go(c, j),
           UNCHANGED <<entry, gens>>, chunk' \in [Names -> Texts], harmed' \subseteq 0 .. MaxGens,
           calls' \in Nat, faults' \in Nat, littered' \in BOOLEAN
    PROVE  ShapeInv' /\ Aside(c) /\ job'[c] = j
<1>1. entry' \in Entries /\ gens' \in 0 .. MaxGens
  BY DEF ShapeInv
<1> QED
  BY <1>1, StepShape DEF Aside

LEMMA BeginMoves ==
    ASSUME KeyringAssumption, ShapeInv, NEW c \in Processes, Begin(c)
    PROVE  /\ ShapeInv' /\ Aside(c) /\ UNCHANGED <<chunk, harmed>>
           /\ job[c] = Idle /\ job'[c].at = "read" /\ job'[c].gen = 0 /\ job'[c].found = Nothing
<1>1. job[c] = Idle
  BY JobIs DEF Begin, At, PlaceOf
<1>2. PICK j : /\ Go(c, j)
               /\ \/ j = [Idle EXCEPT !.op = "get", !.at = "read"]
                  \/ \E s \in Secrets :
                        j = [Idle EXCEPT !.op = "set", !.at = "read", !.secret = s]
                  \/ j = [Idle EXCEPT !.op = "delete", !.at = "read"]
  BY DEF Begin
<1>3. /\ Idle \in Records /\ Secrets \subseteq Storable
      /\ Idle.gen = 0 /\ Idle.found = Nothing /\ ~Idle.done /\ ~Idle.failed /\ Idle.next = 1
  BY IdleIs DEF Jobs, Storable, Idle
<1>4. /\ j \in Records /\ j.at = "read" /\ j.gen = 0 /\ j.found = Nothing
      /\ PlaceOf(j)
  <2>1. /\ j \in Records /\ j.at = "read" /\ j.gen = 0 /\ j.found = Nothing
        /\ ~j.done /\ ~j.failed /\ j.op \in {"get", "set", "delete"} /\ j.next = 1
        /\ j.op = "set" => j.secret \in Secrets
    <3>1. Idle \in Records
      BY <1>3
    <3>2. CASE j = [Idle EXCEPT !.op = "get", !.at = "read"]
      BY <1>3, <3>1, <3>2 DEF Records
    <3>3. CASE \E s \in Secrets :
                  j = [Idle EXCEPT !.op = "set", !.at = "read", !.secret = s]
      BY <1>3, <3>1, <3>3 DEF Records
    <3>4. CASE j = [Idle EXCEPT !.op = "delete", !.at = "read"]
      BY <1>3, <3>1, <3>4 DEF Records
    <3> QED
      BY <1>2, <3>2, <3>3, <3>4
  <2> QED
    BY <2>1 DEF PlaceOf
<1>5. j \in Jobs
  BY <1>4 DEF Jobs
<1>6. UNCHANGED <<entry, chunk, gens, harmed, faults>> /\ calls' = calls + 1
  BY DEF Begin, entryVars
<1>7. littered' \in BOOLEAN
  BY DEF Begin, Litter, ShapeInv
<1>8. ShapeInv' /\ Aside(c) /\ job'[c] = j
  <2>1. Go(c, j)
    BY <1>2
  <2>2. /\ calls' \in Nat /\ faults' \in Nat /\ harmed' \subseteq 0 .. MaxGens
        /\ chunk' \in [Names -> Texts]
    BY <1>6 DEF ShapeInv
  <2> QED
    BY <1>5, <1>6, <1>7, <2>1, <2>2, AsideShape
<1> QED
  BY <1>1, <1>4, <1>6, <1>8

LEMMA ReadEntryMoves ==
    ASSUME KeyringAssumption, ShapeInv, NEW c \in Processes, ReadEntry(c)
    PROVE  /\ ShapeInv' /\ Aside(c) /\ UNCHANGED <<chunk, harmed, littered>>
           /\ job[c].at = "read" /\ job[c].op = "get"
           /\ job'[c] = [job[c] EXCEPT !.at = "part", !.found = entry, !.done = TRUE,
                            !.told = IF HasManifest(entry) THEN <<>> ELSE entry.secret]
<1> DEFINE t == IF HasManifest(entry) THEN <<>> ELSE entry.secret
           j == [job[c] EXCEPT !.at = "part", !.found = entry, !.done = TRUE, !.told = t]
<1>1. t \in Texts
  <2>1. entry.secret \in Storable
    BY EntryIs DEF ShapeInv
  <2> QED
    BY <2>1, KeptAreTexts
<1> HIDE DEF t
<1>2. job[c].at = "read" /\ job[c].op = "get" /\ Go(c, j)
  BY DEF ReadEntry, At, t
<1>3. j \in Records
  BY <1>1, JobIs DEF Records, ShapeInv
<1>4. PlaceOf(j)
  BY <1>2, <1>3, JobIs DEF PlaceOf, Records
<1>5. j \in Jobs
  BY <1>3, <1>4 DEF Jobs
<1>6. UNCHANGED <<entry, chunk, gens, harmed, littered, calls, faults>>
  BY DEF ReadEntry, entryVars, Smoothly, pastVars
<1> HIDE DEF j
<1>7. ShapeInv' /\ Aside(c) /\ job'[c] = j
  BY <1>2, <1>5, <1>6, AsideShape DEF ShapeInv
<1> QED
  BY <1>2, <1>6, <1>7 DEF j, t

LEMMA EndMoves ==
    ASSUME KeyringAssumption, ShapeInv, NEW c \in Processes, job[c].at # "idle"
    PROVE  /\ Failed(job[c]) \in Jobs
           /\ Failed(job[c]) = [job[c] EXCEPT !.at = "end", !.failed = TRUE]
           /\ /\ job[c].failed \/ job[c].done
              /\ job[c].op = "get" => job[c].told = job[c].found.secret
              => /\ Ended(job[c]) \in Jobs
                 /\ Ended(job[c]) = [job[c] EXCEPT !.at = "end"]
<1> DEFINE f == [job[c] EXCEPT !.at = "end", !.failed = TRUE]
           e == [job[c] EXCEPT !.at = "end"]
<1>1. job[c] \in Records /\ PlaceOf(job[c])
  BY JobIs
<1>2. Ended(job[c]) = e /\ Failed(job[c]) = f
  BY <1>1 DEF Ended, Failed, Records
<1>3. f \in Records /\ PlaceOf(f)
  BY <1>1 DEF Records, PlaceOf
<1>4. /\ job[c].failed \/ job[c].done
      /\ job[c].op = "get" => job[c].told = job[c].found.secret
      => e \in Records /\ PlaceOf(e)
  BY <1>1 DEF Records, PlaceOf
<1> QED
  BY <1>2, <1>3, <1>4 DEF Jobs

LEMMA ReadChunkMoves ==
    ASSUME KeyringAssumption, ShapeInv, NEW c \in Processes, ReadChunk(c)
    PROVE  /\ ShapeInv' /\ Aside(c) /\ UNCHANGED <<chunk, harmed, littered>>
           /\ job[c].at = "part" /\ job[c].op = "get"
           /\ \/ job'[c] = [job[c] EXCEPT !.at = "end", !.failed = TRUE]
              \/ \E t \in Texts :
                    job'[c] = [job[c] EXCEPT !.next = job[c].next + 1, !.told = t]
<1> DEFINE text == chunk[<<job[c].found.gen, job[c].next>>]
           t == job[c].told \o text
           j == [job[c] EXCEPT !.next = job[c].next + 1, !.told = t]
<1>1. /\ job[c].at = "part" /\ job[c].next <= job[c].found.count
      /\ Go(c, IF text = Missing THEN Failed(job[c]) ELSE j)
  BY DEF ReadChunk, At
<1>2. /\ job[c].op = "get" /\ job[c] \in Records /\ PlaceOf(job[c])
      /\ job[c].next \in Nat \ {0} /\ job[c].told \in Texts
  BY <1>1, JobIs DEF PlaceOf
<1>3. <<job[c].found.gen, job[c].next>> \in Names
  <2> DEFINE found == job[c].found
  <2>1. found \in Entries /\ job[c].next \in Nat \ {0} /\ job[c].next <= found.count
    BY <1>1, <1>2, JobIs
  <2> HIDE DEF found
  <2>2. /\ found.gen \in 0 .. MaxGens /\ found.count \in Nat /\ found.count <= MaxChunks
        /\ found.gen = 0 => found.count = 0
    BY <2>1, EntryIs
  <2>3. found.gen \in 1 .. MaxGens /\ job[c].next \in 1 .. MaxChunks
    BY <2>1, <2>2 DEF KeyringAssumption
  <2> QED
    BY <2>3 DEF Names, found
<1>4. t \in Texts
  BY <1>2, <1>3 DEF ShapeInv, Texts
<1> HIDE DEF t
<1>5. j \in Records /\ PlaceOf(j)
  <2>1. j \in Records
    <3>1. job[c].next + 1 \in Nat \ {0}
      BY <1>2
    <3> QED
      BY <1>2, <1>4, <3>1 DEF Records
  <2>2. /\ j.at = "part" /\ j.op = "get" /\ j.done = job[c].done /\ j.failed = job[c].failed
        /\ j.gen = job[c].gen
    BY <1>1, <1>2 DEF Records
  <2> QED
    BY <1>1, <1>2, <2>1, <2>2 DEF PlaceOf
<1> DEFINE new == IF text = Missing THEN Failed(job[c]) ELSE j
<1>6. new \in Jobs
  BY <1>1, <1>5, EndMoves DEF Jobs
<1>7. UNCHANGED <<entry, chunk, gens, harmed, littered, calls, faults>>
  BY DEF ReadChunk, entryVars, Smoothly, pastVars
<1> HIDE DEF j, text
<1>8. new = j \/ new = [job[c] EXCEPT !.at = "end", !.failed = TRUE]
  BY <1>1, EndMoves
<1> HIDE DEF new
<1>9. ShapeInv' /\ Aside(c) /\ job'[c] = new
  <2>1. Go(c, new)
    BY <1>1 DEF new
  <2> QED
    BY <1>6, <1>7, <2>1, AsideShape DEF ShapeInv
<1> QED
  BY <1>1, <1>2, <1>4, <1>7, <1>8, <1>9 DEF j

LEMMA CheckHashMoves ==
    ASSUME KeyringAssumption, ShapeInv, NEW c \in Processes, CheckHash(c)
    PROVE  /\ ShapeInv' /\ Aside(c) /\ UNCHANGED <<chunk, harmed, littered>>
           /\ job[c].at = "part" /\ job[c].op = "get"
           /\ \/ job'[c] = [job[c] EXCEPT !.at = "end", !.failed = TRUE]
              \/ /\ job'[c] = [job[c] EXCEPT !.at = "end"]
                 /\ job[c].told = job[c].found.secret
<1> DEFINE new == IF HashAgrees(job[c]) THEN Ended(job[c]) ELSE Failed(job[c])
<1>1. job[c].at = "part" /\ Go(c, new)
  BY DEF CheckHash, At
<1>2. job[c].op = "get" /\ job[c].done
  BY <1>1, JobIs DEF PlaceOf
<1>3. /\ new \in Jobs
      /\ \/ new = [job[c] EXCEPT !.at = "end", !.failed = TRUE]
         \/ /\ new = [job[c] EXCEPT !.at = "end"]
            /\ job[c].told = job[c].found.secret
  BY <1>1, <1>2, EndMoves DEF HashAgrees
<1>4. UNCHANGED <<entry, chunk, gens, harmed, littered, calls, faults>>
  BY DEF CheckHash, entryVars, Smoothly, pastVars
<1> HIDE DEF new
<1>5. ShapeInv' /\ Aside(c) /\ job'[c] = new
  BY <1>1, <1>3, <1>4, AsideShape DEF ShapeInv
<1> QED
  BY <1>1, <1>2, <1>3, <1>4, <1>5
(* Recording what it found, a set goes on with its one entry, or with the  *)
(* chunks of a generation that it draws, or is refused.                    *)
LEMMA PrepareMoves ==
    ASSUME KeyringAssumption, ShapeInv, NEW c \in Processes, Prepare(c)
    PROVE  /\ ShapeInv' /\ UNCHANGED <<entry, chunk, harmed, littered>>
           /\ \A d \in Processes \ {c} : job'[d] = job[d]
           /\ job[c].at = "read" /\ job[c].op = "set" /\ job[c].gen = 0
           /\ job'[c].op = "set" /\ job'[c].found = entry /\ job'[c].secret = job[c].secret
           /\ job'[c].next = 1 /\ job'[c].done = job[c].done
           /\ \/ job'[c].at \in {"publish", "end"} /\ job'[c].gen = 0 /\ gens' = gens
              \/ job'[c].at = "write" /\ job'[c].gen = gens + 1 /\ gens' = gens + 1
           /\ (job'[c].at = "end" => job'[c].failed)
<1> DEFINE f == [job[c] EXCEPT !.found = entry]
<1>1. /\ job[c] \in Records /\ PlaceOf(job[c]) /\ entry \in Entries
      /\ gens \in 0 .. MaxGens /\ MaxGens \in Nat
  BY JobIs DEF ShapeInv, KeyringAssumption
<1>2. job[c].at = "read" /\ job[c].op = "set"
  BY <1>1 DEF Prepare, At, Records
<1>3. /\ job[c].secret \in Secrets /\ job[c].gen = 0 /\ job[c].next = 1
      /\ job[c].done = FALSE /\ job[c].failed = FALSE
  BY <1>1, <1>2 DEF PlaceOf, Records
<1>4. UNCHANGED <<entry, chunk, harmed, littered, calls, faults>>
  BY DEF Prepare, entryVars, Smoothly, pastVars
<1>5. /\ f \in Records /\ f.at = "read" /\ f.op = "set" /\ f.secret = job[c].secret
      /\ f.gen = 0 /\ f.next = 1 /\ f.done = FALSE /\ f.failed = FALSE /\ f.found = entry
  BY <1>1, <1>2, <1>3 DEF Records
<1>6. \/ /\ Short(job[c].secret) /\ Go(c, [f EXCEPT !.at = "publish"]) /\ gens' = gens
      \/ /\ Go(c, Failed(f)) /\ gens' = gens
      \/ /\ ~Short(job[c].secret) /\ Len(Split(job[c].secret)) <= MaxChunks
         /\ gens < MaxGens /\ gens' = gens + 1
         /\ Go(c, [f EXCEPT !.at = "write", !.gen = gens + 1])
  BY <1>5 DEF Prepare, Generation
<1> HIDE DEF f
<1>7. CASE Short(job[c].secret) /\ Go(c, [f EXCEPT !.at = "publish"]) /\ gens' = gens
  <2> DEFINE j == [f EXCEPT !.at = "publish"]
  <2>1. /\ j \in Records /\ j.at = "publish" /\ j.op = "set" /\ j.secret = job[c].secret
        /\ j.gen = 0 /\ j.next = 1 /\ j.done = FALSE /\ j.failed = FALSE /\ j.found = entry
    BY <1>5 DEF Records
  <2>2. Go(c, j) /\ gens' = gens
    BY <1>7
  <2> HIDE DEF j
  <2>3. j \in Jobs
    BY <1>3, <1>7, <2>1 DEF Jobs, PlaceOf
  <2>4. ShapeInv' /\ job'[c] = j /\ \A d \in Processes \ {c} : job'[d] = job[d]
    BY <1>1, <1>4, <2>2, <2>3, StepShape DEF ShapeInv
  <2> QED
    BY <1>2, <1>3, <1>4, <2>1, <2>2, <2>4
<1>8. CASE Go(c, Failed(f)) /\ gens' = gens
  <2> DEFINE j == Failed(f)
  <2>1. /\ j \in Records /\ j.at = "end" /\ j.op = "set" /\ j.secret = job[c].secret
        /\ j.gen = 0 /\ j.next = 1 /\ j.done = FALSE /\ j.failed = TRUE /\ j.found = entry
    BY <1>5 DEF Records, Failed, Ended
  <2>2. Go(c, j) /\ gens' = gens
    BY <1>8
  <2> HIDE DEF j
  <2>3. j \in Jobs
    BY <1>3, <2>1 DEF Jobs, PlaceOf
  <2>4. ShapeInv' /\ job'[c] = j /\ \A d \in Processes \ {c} : job'[d] = job[d]
    BY <1>1, <1>4, <2>2, <2>3, StepShape DEF ShapeInv
  <2> QED
    BY <1>2, <1>3, <1>4, <2>1, <2>2, <2>4
<1>9. CASE /\ ~Short(job[c].secret) /\ Len(Split(job[c].secret)) <= MaxChunks
           /\ gens < MaxGens /\ gens' = gens + 1
           /\ Go(c, [f EXCEPT !.at = "write", !.gen = gens + 1])
  <2> DEFINE j == [f EXCEPT !.at = "write", !.gen = gens + 1]
  <2>1. gens + 1 \in 0 .. MaxGens /\ gens + 1 # 0
    BY <1>1, <1>9
  <2>2. /\ j \in Records /\ j.at = "write" /\ j.op = "set" /\ j.secret = job[c].secret
        /\ j.gen = gens + 1 /\ j.next = 1 /\ j.done = FALSE /\ j.failed = FALSE
        /\ j.found = entry
    BY <1>5, <2>1 DEF Records
  <2>3. Go(c, j) /\ gens' = gens + 1
    BY <1>9
  <2> HIDE DEF j
  <2>4. Long(j.secret) /\ Len(Split(j.secret)) \in 1 .. MaxChunks /\ MaxChunks \in Nat
    <3>1. Long(j.secret)
      BY <1>3, <1>9, <2>2 DEF Long
    <3> QED
      BY <3>1, LongIs DEF KeyringAssumption
  <2>5. j \in Jobs
    <3>1. j.next \in 1 .. MaxChunks + 1 /\ j.next <= Len(Split(j.secret))
      BY <2>2, <2>4
    <3> QED
      BY <1>3, <2>1, <2>2, <2>4, <3>1 DEF Jobs, PlaceOf
  <2>6. ShapeInv' /\ job'[c] = j /\ \A d \in Processes \ {c} : job'[d] = job[d]
    <3>1. gens' \in 0 .. MaxGens
      BY <2>1, <2>3
    <3> QED
      BY <1>4, <2>3, <2>5, <3>1, StepShape DEF ShapeInv
  <2> QED
    BY <1>2, <1>3, <1>4, <2>2, <2>3, <2>6
<1> QED
  BY <1>6, <1>7, <1>8, <1>9

(* A step of a set that writes a chunk: the next one of its secret.        *)
LEMMA TextIs ==
    ASSUME KeyringAssumption, ShapeInv, NEW c \in Processes, job[c].at = "write"
    PROVE  /\ job[c].op = "set" /\ job[c].gen # 0 /\ Long(job[c].secret)
           /\ Len(Split(job[c].secret)) \in 1 .. MaxChunks
           /\ job[c].next \in 1 .. Len(Split(job[c].secret))
           /\ Text(job[c]) \in Pieces /\ Text(job[c]) = Split(job[c].secret)[job[c].next]
           /\ Name(job[c]) \in Names /\ Name(job[c]) = <<job[c].gen, job[c].next>>
<1>1. /\ job[c].op = "set" /\ job[c].gen # 0 /\ job[c].next <= Len(Split(job[c].secret))
      /\ Long(job[c].secret)
  BY JobIs DEF PlaceOf
<1>2. job[c].gen \in 0 .. MaxGens /\ job[c].next \in Nat \ {0}
  BY JobIs
<1>3. /\ Split(job[c].secret) \in Seq(Pieces)
      /\ Len(Split(job[c].secret)) \in 1 .. MaxChunks
  BY <1>1, LongIs
<1>4. MaxGens \in Nat /\ MaxChunks \in Nat
  BY DEF KeyringAssumption
<1>5. /\ job[c].next \in 1 .. Len(Split(job[c].secret))
      /\ Split(job[c].secret)[job[c].next] \in Pieces
  BY <1>1, <1>2, <1>3, <1>4
<1>6. <<job[c].gen, job[c].next>> \in Names
  <2>1. job[c].gen \in 1 .. MaxGens /\ job[c].next \in 1 .. MaxChunks
    BY <1>1, <1>2, <1>3, <1>4, <1>5
  <2> QED
    BY <2>1 DEF Names
<1> QED
  BY <1>1, <1>3, <1>5, <1>6 DEF Text, Name

LEMMA PiecesAreTexts == Pieces \subseteq Texts
  BY DEF Pieces

LEMMA WriteChunkMoves ==
    ASSUME KeyringAssumption, ShapeInv, NEW c \in Processes, WriteChunk(c)
    PROVE  /\ ShapeInv' /\ Aside(c) /\ UNCHANGED <<harmed, littered>>
           /\ job[c].at = "write" /\ job'[c].at \in {"write", "publish"}
           /\ job'[c].op = job[c].op /\ job'[c].gen = job[c].gen /\ job'[c].found = job[c].found
           /\ job'[c].secret = job[c].secret /\ job'[c].next = job[c].next + 1
           /\ chunk' = [chunk EXCEPT ![Name(job[c])] = Text(job[c])]
           /\ job'[c].done = job[c].done
<1> DEFINE len == Len(Split(job[c].secret))
           p == IF job[c].next = len THEN "publish" ELSE "write"
           j == [job[c] EXCEPT !.next = job[c].next + 1, !.at = p]
<1>1. job[c].at = "write" /\ chunk' = [chunk EXCEPT ![Name(job[c])] = Text(job[c])]
  BY DEF WriteChunk, At
<1>2. Go(c, j)
  BY DEF WriteChunk
<1>3. UNCHANGED <<entry, gens, harmed, littered, calls, faults>>
  BY DEF WriteChunk, Smoothly, pastVars
<1>4. /\ job[c] \in Records /\ PlaceOf(job[c]) /\ len \in 1 .. MaxChunks /\ MaxChunks \in Nat
      /\ job[c].next \in 1 .. len /\ job[c].gen # 0 /\ Long(job[c].secret)
      /\ job[c].op = "set"
  BY <1>1, TextIs, JobIs DEF KeyringAssumption
<1>5. /\ job[c].secret \in Secrets /\ job[c].done = FALSE /\ job[c].failed = FALSE
  BY <1>1, <1>4 DEF PlaceOf, Records
<1>6. /\ job[c].next + 1 \in Nat \ {0} /\ job[c].next + 1 \in 1 .. MaxChunks + 1
      /\ p = "write" => job[c].next + 1 <= len
      /\ p = "publish" => job[c].next + 1 = len + 1
      /\ p \in {"write", "publish"}
  BY <1>4
<1> HIDE DEF p
<1>7. /\ j \in Records /\ j.at = p /\ j.op = "set" /\ j.secret = job[c].secret
      /\ j.gen = job[c].gen /\ j.found = job[c].found /\ j.next = job[c].next + 1
      /\ j.done = FALSE /\ j.failed = FALSE
  <2>1. p \in {"idle", "read", "part", "write", "publish", "undo", "erase", "sweep", "end"}
    BY <1>6
  <2> QED
    BY <1>4, <1>5, <1>6, <2>1 DEF Records
<1> HIDE DEF j
<1>8. j \in Jobs
  <2>1. j.at # "publish" => j.at = "write"
    BY <1>6, <1>7
  <2>2. CASE j.at = "write"
    BY <1>4, <1>5, <1>6, <1>7, <2>2 DEF Jobs, PlaceOf
  <2>3. CASE j.at = "publish"
    BY <1>4, <1>5, <1>6, <1>7, <2>3 DEF Jobs, PlaceOf
  <2> QED
    BY <2>1, <2>2, <2>3
<1>9. chunk' \in [Names -> Texts]
  BY <1>1, TextIs, PiecesAreTexts DEF ShapeInv
<1>10. ShapeInv' /\ Aside(c) /\ job'[c] = j
  <2>1. /\ calls' \in Nat /\ faults' \in Nat /\ harmed' \subseteq 0 .. MaxGens
        /\ littered' \in BOOLEAN
    BY <1>3 DEF ShapeInv
  <2> QED
    BY <1>2, <1>3, <1>8, <1>9, <2>1, AsideShape
<1> QED
  BY <1>1, <1>3, <1>4, <1>5, <1>6, <1>7, <1>10

(* A write that failed: the chunks written so far are to be deleted.       *)
LEMMA UndoIs ==
    ASSUME KeyringAssumption, ShapeInv, NEW c \in Processes, NEW b \in BOOLEAN,
           job[c].at \in {"write", "publish"}
    PROVE  LET j == [job[c] EXCEPT !.at = "undo", !.done = b]
           IN  /\ j \in Jobs /\ j.at = "undo" /\ j.op = "set" /\ job[c].op = "set"
               /\ j.gen = job[c].gen /\ j.found = job[c].found /\ j.next = job[c].next
               /\ j.secret = job[c].secret /\ j.done = b
               /\ job[c].done = FALSE
<1> DEFINE j == [job[c] EXCEPT !.at = "undo", !.done = b]
<1>1. job[c] \in Records /\ PlaceOf(job[c])
  BY JobIs
<1>2. /\ job[c].op = "set" /\ job[c].secret \in Secrets /\ job[c].failed = FALSE
      /\ job[c].done = FALSE
      /\ job[c].gen # 0 => Long(job[c].secret) /\ job[c].next \in 1 .. MaxChunks + 1
  BY <1>1 DEF PlaceOf, Records
<1>3. job[c].gen # 0 => job[c].next <= Len(Split(job[c].secret)) + 1
  <2> SUFFICES ASSUME job[c].gen # 0 PROVE job[c].next <= Len(Split(job[c].secret)) + 1
    OBVIOUS
  <2>1. Len(Split(job[c].secret)) \in Nat /\ job[c].next \in Nat
    BY <1>2, LongIs, JobIs DEF KeyringAssumption
  <2>2. \/ job[c].next <= Len(Split(job[c].secret))
        \/ job[c].next = Len(Split(job[c].secret)) + 1
    BY <1>1 DEF PlaceOf
  <2> QED
    BY <2>1, <2>2
<1>4. /\ j \in Records /\ j.at = "undo" /\ j.op = "set" /\ j.secret = job[c].secret
      /\ j.gen = job[c].gen /\ j.found = job[c].found /\ j.next = job[c].next
      /\ j.done = b /\ j.failed = FALSE
  BY <1>1, <1>2 DEF Records
<1> HIDE DEF j
<1>5. j \in Jobs
  BY <1>2, <1>3, <1>4 DEF Jobs, PlaceOf
<1> QED
  BY <1>2, <1>4, <1>5 DEF j

LEMMA FailWriteMoves ==
    ASSUME KeyringAssumption, ShapeInv, NEW c \in Processes, FailWrite(c)
    PROVE  /\ ShapeInv' /\ Aside(c) /\ UNCHANGED <<chunk, harmed, littered>>
           /\ job[c].at \in {"write", "publish"} /\ job'[c].at = "undo"
           /\ job'[c].op = job[c].op /\ job'[c].gen = job[c].gen /\ job'[c].found = job[c].found
           /\ job'[c].next = job[c].next /\ job'[c].done = job[c].done
           /\ job'[c].secret = job[c].secret
<1> DEFINE j == [job[c] EXCEPT !.at = "undo", !.done = FALSE]
<1>1. job[c].at \in {"write", "publish"} /\ Go(c, Undoing(job[c]))
  BY DEF FailWrite, At
<1>2. /\ j \in Jobs /\ j.at = "undo" /\ j.op = "set" /\ job[c].op = "set"
      /\ j.gen = job[c].gen /\ j.found = job[c].found /\ j.next = job[c].next
      /\ j.secret = job[c].secret /\ j.done = FALSE /\ job[c].done = FALSE
  BY <1>1, UndoIs
<1>3. Undoing(job[c]) = j
  <2>1. job[c] \in Records
    BY JobIs
  <2> QED
    BY <1>2, <2>1 DEF Undoing, Records
<1>4. /\ UNCHANGED <<entry, chunk, gens, harmed, littered, calls>> /\ faults' = faults + 1
  BY DEF FailWrite, entryVars, Untouched, pastVars, Fault
<1> HIDE DEF j
<1>5. ShapeInv' /\ Aside(c) /\ job'[c] = j
  <2>1. /\ calls' \in Nat /\ faults' \in Nat /\ harmed' \subseteq 0 .. MaxGens
        /\ littered' \in BOOLEAN /\ chunk' \in [Names -> Texts]
    BY <1>4 DEF ShapeInv
  <2> QED
    BY <1>1, <1>2, <1>3, <1>4, <2>1, AsideShape
<1> QED
  BY <1>1, <1>2, <1>4, <1>5

(* The entry that a set writes.                                            *)
LEMMA NewEntryIs ==
    ASSUME KeyringAssumption, ShapeInv, NEW c \in Processes, job[c].at = "publish"
    PROVE  /\ job[c].op = "set" /\ job[c].secret \in Secrets
           /\ NewEntry(job[c]) \in Entries /\ NewEntry(job[c]).gen = job[c].gen
           /\ NewEntry(job[c]).secret = job[c].secret
           /\ NewEntry(job[c]).count = IF job[c].gen = 0 THEN 0 ELSE Len(Split(job[c].secret))
           /\ HasManifest(NewEntry(job[c])) <=> job[c].gen # 0
           /\ job[c].gen # 0 => /\ job[c].next = Len(Split(job[c].secret)) + 1
                                /\ Len(Split(job[c].secret)) \in Nat
<1>1. PlaceOf(job[c]) /\ job[c].gen \in 0 .. MaxGens /\ MaxGens \in Nat
  BY JobIs DEF KeyringAssumption
<1>2. job[c].op = "set" /\ job[c].secret \in Secrets
  BY <1>1 DEF PlaceOf
<1>3. CASE job[c].gen = 0
  <2>1. Short(job[c].secret) /\ job[c].secret \in Storable
    BY <1>1, <1>2, <1>3 DEF PlaceOf, Storable
  <2>2. NewEntry(job[c]) = Plain(job[c].secret)
    BY <1>3 DEF NewEntry
  <2>3. /\ Plain(job[c].secret) \in Entries /\ Plain(job[c].secret).gen = 0
        /\ Plain(job[c].secret).count = 0 /\ Plain(job[c].secret).secret = job[c].secret
    BY <2>1, PlainIs
  <2>4. ~HasManifest(Plain(job[c].secret))
    BY <2>3, EntryIs
  <2> QED
    BY <1>2, <1>3, <2>2, <2>3, <2>4
<1>4. CASE job[c].gen # 0
  <2>1. /\ Long(job[c].secret) /\ job[c].gen \in 1 .. MaxGens
        /\ job[c].next = Len(Split(job[c].secret)) + 1
    BY <1>1, <1>4 DEF PlaceOf
  <2>2. NewEntry(job[c]) = Manifest(job[c].gen, job[c].secret)
    BY <1>4 DEF NewEntry
  <2> QED
    BY <1>2, <1>4, <2>1, <2>2, ManifestIs, LongIs
<1> QED
  BY <1>3, <1>4

LEMMA PublishMoves ==
    ASSUME KeyringAssumption, ShapeInv, NEW c \in Processes, Publish(c)
    PROVE  /\ ShapeInv' /\ UNCHANGED <<chunk, gens, harmed, littered>>
           /\ \A d \in Processes \ {c} : job'[d] = job[d]
           /\ job[c].at = "publish" /\ entry' = NewEntry(job[c])
           /\ job'[c].at = "sweep" /\ job'[c].op = job[c].op /\ job'[c].secret = job[c].secret
           /\ job'[c].gen = job[c].gen /\ job'[c].found = job[c].found /\ job'[c].next = 1
           /\ job'[c].done = TRUE
<1> DEFINE j == [job[c] EXCEPT !.done = TRUE, !.at = "sweep", !.next = 1]
<1>1. job[c].at = "publish" /\ entry' = NewEntry(job[c])
  BY DEF Publish, At
<1>2. job[c] \in Records /\ PlaceOf(job[c])
  BY JobIs
<1>3. Go(c, j)
  BY <1>2 DEF Publish, Sweeping, Records
<1>4. UNCHANGED <<chunk, gens, harmed, littered, calls, faults>>
  BY DEF Publish, Smoothly, pastVars
<1>5. job[c].op = "set" /\ job[c].secret \in Secrets /\ job[c].failed = FALSE
  BY <1>1, <1>2 DEF PlaceOf, Records
<1>6. /\ j \in Records /\ j.at = "sweep" /\ j.op = "set" /\ j.secret = job[c].secret
      /\ j.gen = job[c].gen /\ j.found = job[c].found /\ j.next = 1
      /\ j.done = TRUE /\ j.failed = FALSE
  <2>1. job[c] \in Records /\ 1 \in Nat \ {0}
    BY <1>2
  <2>2. j \in Records
    BY <2>1 DEF Records
  <2>3. /\ j.at = "sweep" /\ j.op = job[c].op /\ j.secret = job[c].secret
        /\ j.gen = job[c].gen /\ j.found = job[c].found /\ j.next = 1
        /\ j.done = TRUE /\ j.failed = job[c].failed
    BY <2>1 DEF Records
  <2> QED
    BY <1>5, <2>2, <2>3
<1> HIDE DEF j
<1>7. j \in Jobs
  <2>1. job[c].found.count \in Nat /\ MaxChunks \in Nat
    BY JobIs, EntryIs DEF KeyringAssumption
  <2>2. j.next <= j.found.count + 1 /\ j.next \in 1 .. MaxChunks + 1
    BY <1>6, <2>1
  <2>3. job[c].gen # 0 => Long(job[c].secret)
    BY <1>2 DEF PlaceOf
  <2> QED
    BY <1>5, <1>6, <2>2, <2>3 DEF Jobs, PlaceOf
<1>8. ShapeInv' /\ job'[c] = j /\ \A d \in Processes \ {c} : job'[d] = job[d]
  <2>1. /\ calls' \in Nat /\ faults' \in Nat /\ harmed' \subseteq 0 .. MaxGens
        /\ littered' \in BOOLEAN /\ chunk' \in [Names -> Texts] /\ gens' \in 0 .. MaxGens
    BY <1>4 DEF ShapeInv
  <2>2. entry' \in Entries
    BY <1>1, NewEntryIs
  <2> QED
    BY <1>3, <1>7, <2>1, <2>2, StepShape
<1> QED
  BY <1>1, <1>4, <1>5, <1>6, <1>8

(* A write that takes place though it is reported as failed.               *)
LEMMA FailLateMoves ==
    ASSUME KeyringAssumption, ShapeInv, NEW c \in Processes, FailLate(c)
    PROVE  /\ ShapeInv' /\ UNCHANGED gens /\ littered'
           /\ \A d \in Processes \ {c} : job'[d] = job[d]
           /\ job[c].op = "set" /\ job'[c].at = "undo" /\ job'[c].op = "set"
           /\ job'[c].gen = job[c].gen /\ job'[c].found = job[c].found
           /\ job'[c].secret = job[c].secret /\ job'[c].next = job[c].next
           /\ \/ /\ job[c].at = "write" /\ UNCHANGED <<entry, harmed>>
                 /\ chunk' = [chunk EXCEPT ![Name(job[c])] = Text(job[c])]
                 /\ job'[c].done = job[c].done
              \/ /\ job[c].at = "publish" /\ UNCHANGED chunk
                 /\ entry' = NewEntry(job[c]) /\ harmed' = harmed \union {job[c].gen}
                 /\ job'[c].done = TRUE
<1> DEFINE i(b) == [job[c] EXCEPT !.at = "undo", !.done = b]
<1>1. job[c] \in Records
  BY JobIs
<1>2. gens' = gens /\ calls' = calls /\ faults' = faults + 1 /\ littered' = TRUE
  BY DEF FailLate, Fault, Litter
<1>3. CASE /\ job[c].at = "write" /\ Go(c, Undoing(job[c])) /\ UNCHANGED <<entry, harmed>>
           /\ chunk' = [chunk EXCEPT ![Name(job[c])] = Text(job[c])]
  <2> DEFINE j == i(FALSE)
  <2>1. /\ j \in Jobs /\ j.at = "undo" /\ j.op = "set" /\ job[c].op = "set"
        /\ j.gen = job[c].gen /\ j.found = job[c].found /\ j.next = job[c].next
        /\ j.secret = job[c].secret /\ j.done = FALSE /\ job[c].done = FALSE
    BY <1>3, UndoIs
  <2>2. Undoing(job[c]) = j
    BY <1>1, <2>1 DEF Undoing, Records
  <2> HIDE DEF j
  <2>3. chunk' \in [Names -> Texts]
    BY <1>3, TextIs, PiecesAreTexts DEF ShapeInv
  <2>4. ShapeInv' /\ job'[c] = j /\ \A d \in Processes \ {c} : job'[d] = job[d]
    <3>1. /\ calls' \in Nat /\ faults' \in Nat /\ harmed' \subseteq 0 .. MaxGens
          /\ littered' \in BOOLEAN /\ entry' \in Entries /\ gens' \in 0 .. MaxGens
      BY <1>2, <1>3 DEF ShapeInv
    <3> QED
      BY <1>3, <2>1, <2>2, <2>3, <3>1, StepShape
  <2> QED
    BY <1>2, <1>3, <2>1, <2>4
<1>4. CASE /\ job[c].at = "publish" /\ UNCHANGED chunk
           /\ entry' = NewEntry(job[c]) /\ harmed' = harmed \union {job[c].gen}
           /\ Go(c, Undoing([job[c] EXCEPT !.done = TRUE]))
  <2> DEFINE j == i(TRUE)
  <2>1. /\ j \in Jobs /\ j.at = "undo" /\ j.op = "set" /\ job[c].op = "set"
        /\ j.gen = job[c].gen /\ j.found = job[c].found /\ j.next = job[c].next
        /\ j.secret = job[c].secret /\ j.done = TRUE
    BY <1>4, UndoIs
  <2>2. Undoing([job[c] EXCEPT !.done = TRUE]) = j
    BY <1>1 DEF Undoing, Records
  <2> HIDE DEF j
  <2>3. entry' \in Entries
    BY <1>4, NewEntryIs
  <2>4. ShapeInv' /\ job'[c] = j /\ \A d \in Processes \ {c} : job'[d] = job[d]
    <3>1. /\ calls' \in Nat /\ faults' \in Nat
          /\ littered' \in BOOLEAN /\ chunk' \in [Names -> Texts] /\ gens' \in 0 .. MaxGens
      BY <1>2, <1>4 DEF ShapeInv
    <3>2. harmed' \subseteq 0 .. MaxGens
      BY <1>4, JobIs DEF ShapeInv
    <3> QED
      BY <1>4, <2>1, <2>2, <2>3, <3>1, <3>2, StepShape
  <2> QED
    BY <1>2, <1>4, <2>1, <2>4
<1> QED
  BY <1>3, <1>4 DEF FailLate, At

(* What a deletion of a chunk does.                                        *)
LEMMA DiscardIs ==
    ASSUME ShapeInv, NEW n \in Names, Discard(n)
    PROVE  /\ chunk' \in [Names -> Texts] /\ faults' \in Nat /\ littered' \in BOOLEAN
           /\ littered => littered'
           /\ \/ chunk' = [chunk EXCEPT ![n] = Missing] /\ littered' = littered
              \/ chunk' = chunk /\ littered'
<1>1. chunk \in [Names -> Texts] /\ faults \in Nat /\ littered \in BOOLEAN
  BY DEF ShapeInv
<1>2. CASE chunk' = [chunk EXCEPT ![n] = Missing] /\ UNCHANGED <<faults, littered>>
  <2>1. Missing \in Texts
    BY DEF Missing, Texts
  <2> QED
    BY <1>1, <1>2, <2>1
<1>3. CASE Fault("delete") /\ Litter(TRUE) /\ UNCHANGED chunk
  <2>1. faults' = faults + 1 /\ littered' = TRUE /\ chunk' = chunk
    BY <1>3 DEF Fault, Litter
  <2> QED
    BY <1>1, <2>1
<1> QED
  BY <1>2, <1>3 DEF Discard

LEMMA DeleteWrittenMoves ==
    ASSUME KeyringAssumption, ShapeInv, NEW c \in Processes, DeleteWritten(c)
    PROVE  /\ ShapeInv' /\ Aside(c) /\ UNCHANGED harmed /\ (littered => littered')
           /\ job[c].at = "undo" /\ job[c].op = "set" /\ job'[c].op = "set"
           /\ job'[c].gen = job[c].gen /\ job'[c].found = job[c].found
           /\ job'[c].secret = job[c].secret /\ job'[c].done = job[c].done
           /\ \/ /\ job[c].gen # 0 /\ job[c].next > 1 /\ job'[c].at = "undo"
                 /\ job'[c].next = job[c].next - 1
                 /\ <<job[c].gen, job[c].next - 1>> \in Names
                 /\ \/ /\ chunk' = [chunk EXCEPT ![<<job[c].gen, job[c].next - 1>>] = Missing]
                       /\ littered' = littered
                    \/ chunk' = chunk /\ littered'
              \/ /\ job[c].gen = 0 \/ job[c].next = 1
                 /\ job'[c].at = "end" /\ job'[c].failed /\ UNCHANGED <<chunk, littered>>
<1>1. job[c].at = "undo" /\ job[c] \in Records /\ PlaceOf(job[c])
  BY JobIs DEF DeleteWritten, At
<1>2. UNCHANGED <<entry, gens, calls, harmed>>
  BY DEF DeleteWritten
<1>3. job[c].op = "set" /\ job[c].secret \in Secrets /\ job[c].failed = FALSE
  BY <1>1 DEF PlaceOf, Records
<1>4. CASE /\ job[c].gen # 0 /\ job[c].next > 1
           /\ Go(c, [job[c] EXCEPT !.next = job[c].next - 1])
           /\ Discard(<<job[c].gen, job[c].next - 1>>)
  <2> DEFINE j == [job[c] EXCEPT !.next = job[c].next - 1]
  <2>1. /\ Long(job[c].secret) /\ job[c].next \in 1 .. MaxChunks + 1
        /\ job[c].next <= Len(Split(job[c].secret)) + 1
        /\ Len(Split(job[c].secret)) \in Nat /\ MaxChunks \in Nat
        /\ job[c].gen \in 0 .. MaxGens /\ MaxGens \in Nat
    <3>1. Long(job[c].secret) /\ job[c].next \in 1 .. MaxChunks + 1
      BY <1>1, <1>4 DEF PlaceOf
    <3>2. job[c].next <= Len(Split(job[c].secret)) + 1
      BY <1>1, <1>4 DEF PlaceOf
    <3> QED
      BY <3>1, <3>2, LongIs, JobIs DEF KeyringAssumption
  <2>2. /\ job[c].next - 1 \in Nat \ {0} /\ job[c].next - 1 \in 1 .. MaxChunks + 1
        /\ job[c].next - 1 <= Len(Split(job[c].secret)) + 1
    <3> DEFINE n == job[c].next
               l == Len(Split(job[c].secret))
    <3>1. /\ n \in 1 .. MaxChunks + 1 /\ n <= l + 1 /\ l \in Nat /\ MaxChunks \in Nat
          /\ n > 1
      BY <1>4, <2>1
    <3> HIDE DEF n, l
    <3>2. n - 1 \in Nat \ {0} /\ n - 1 \in 1 .. MaxChunks + 1 /\ n - 1 <= l + 1
      BY ONLY <3>1
    <3> QED
      BY <3>2 DEF n, l
  <2>3. <<job[c].gen, job[c].next - 1>> \in Names
    BY <1>4, <2>1, <2>2 DEF Names
  <2>4. /\ j \in Records /\ j.at = "undo" /\ j.op = "set" /\ j.secret = job[c].secret
        /\ j.gen = job[c].gen /\ j.found = job[c].found /\ j.next = job[c].next - 1
        /\ j.done = job[c].done /\ j.failed = FALSE
    BY <1>1, <1>3, <2>2 DEF Records
  <2> HIDE DEF j
  <2>5. j \in Jobs
    BY <1>3, <2>1, <2>2, <2>4 DEF Jobs, PlaceOf
  <2>6. /\ chunk' \in [Names -> Texts] /\ faults' \in Nat /\ littered' \in BOOLEAN
        /\ littered => littered'
        /\ \/ /\ chunk' = [chunk EXCEPT ![<<job[c].gen, job[c].next - 1>>] = Missing]
              /\ littered' = littered
           \/ chunk' = chunk /\ littered'
    BY <1>4, <2>3, DiscardIs
  <2>7. ShapeInv' /\ Aside(c) /\ job'[c] = j
    <3>1. Go(c, j) /\ calls' \in Nat /\ harmed' \subseteq 0 .. MaxGens
      BY <1>2, <1>4 DEF ShapeInv, j
    <3> QED
      BY <1>2, <2>5, <2>6, <3>1, AsideShape
  <2> QED
    BY <1>1, <1>2, <1>3, <1>4, <2>3, <2>4, <2>6, <2>7
<1>5. CASE /\ job[c].gen = 0 \/ job[c].next = 1
           /\ Go(c, Failed(job[c])) /\ UNCHANGED <<chunk, faults, littered>>
  <2> DEFINE j == Failed(job[c])
  <2>1. j \in Jobs /\ j = [job[c] EXCEPT !.at = "end", !.failed = TRUE]
    BY <1>1, EndMoves
  <2>2. /\ j.at = "end" /\ j.op = "set" /\ j.secret = job[c].secret
        /\ j.gen = job[c].gen /\ j.found = job[c].found /\ j.next = job[c].next
        /\ j.done = job[c].done /\ j.failed
    BY <1>1, <1>3, <2>1 DEF Records
  <2> HIDE DEF j
  <2>3. ShapeInv' /\ Aside(c) /\ job'[c] = j
    <3>1. /\ Go(c, j) /\ calls' \in Nat /\ faults' \in Nat /\ harmed' \subseteq 0 .. MaxGens
          /\ littered' \in BOOLEAN /\ chunk' \in [Names -> Texts]
      BY <1>2, <1>5 DEF ShapeInv, j
    <3> QED
      BY <1>2, <2>1, <3>1, AsideShape
  <2> QED
    BY <1>1, <1>2, <1>3, <1>5, <2>2, <2>3
<1> QED
  BY <1>4, <1>5 DEF DeleteWritten

LEMMA LookUpMoves ==
    ASSUME KeyringAssumption, ShapeInv, NEW c \in Processes, LookUp(c)
    PROVE  /\ ShapeInv' /\ Aside(c) /\ UNCHANGED <<chunk, harmed, littered>>
           /\ job[c].at = "read" /\ job[c].op = "delete" /\ job[c].gen = 0
           /\ job'[c].at = "erase" /\ job'[c].op = "delete" /\ job'[c].gen = 0
           /\ job'[c].found = entry /\ job'[c].done = job[c].done
<1> DEFINE j == [job[c] EXCEPT !.found = entry, !.at = "erase"]
<1>1. /\ job[c] \in Records /\ PlaceOf(job[c]) /\ entry \in Entries
      /\ job[c].at = "read" /\ job[c].op = "delete" /\ Go(c, j)
  BY JobIs DEF LookUp, At, ShapeInv
<1>2. /\ job[c].gen = 0 /\ job[c].done = FALSE /\ job[c].failed = FALSE
  BY <1>1 DEF PlaceOf, Records
<1>3. UNCHANGED <<entry, chunk, gens, harmed, littered, calls, faults>>
  BY DEF LookUp, entryVars, Smoothly, pastVars
<1>4. /\ j \in Records /\ j.at = "erase" /\ j.op = "delete" /\ j.gen = 0 /\ j.found = entry
      /\ j.done = FALSE /\ j.failed = FALSE
  BY <1>1, <1>2 DEF Records
<1> HIDE DEF j
<1>5. j \in Jobs
  BY <1>4 DEF Jobs, PlaceOf
<1>6. ShapeInv' /\ Aside(c) /\ job'[c] = j
  <2>1. /\ calls' \in Nat /\ faults' \in Nat /\ harmed' \subseteq 0 .. MaxGens
        /\ littered' \in BOOLEAN /\ chunk' \in [Names -> Texts]
    BY <1>3 DEF ShapeInv
  <2> QED
    BY <1>1, <1>3, <1>5, <2>1, AsideShape
<1> QED
  BY <1>1, <1>2, <1>3, <1>4, <1>6

LEMMA EraseMoves ==
    ASSUME KeyringAssumption, ShapeInv, NEW c \in Processes, Erase(c)
    PROVE  /\ ShapeInv' /\ UNCHANGED <<chunk, gens, littered>>
           /\ \A d \in Processes \ {c} : job'[d] = job[d]
           /\ job[c].at = "erase" /\ job[c].op = "delete" /\ job[c].gen = 0
           /\ job'[c].at = "sweep" /\ job'[c].op = "delete" /\ job'[c].gen = 0
           /\ job'[c].found = job[c].found /\ job'[c].next = 1
           /\ \/ entry' = Nothing /\ harmed' = harmed /\ job'[c].done = TRUE
              \/ /\ entry' = entry /\ harmed' = harmed \union {job[c].found.gen}
                 /\ job'[c].done = job[c].done
<1> DEFINE i(b, f) == [job[c] EXCEPT !.done = b, !.failed = f, !.at = "sweep", !.next = 1]
<1>1. job[c] \in Records /\ PlaceOf(job[c]) /\ job[c].at = "erase"
  BY JobIs DEF Erase, At
<1>2. /\ job[c].gen = 0 /\ job[c].done = FALSE /\ job[c].failed = FALSE
      /\ job[c].op = "delete"
  BY <1>1 DEF PlaceOf, Records
<1>3. chunk' = chunk /\ gens' = gens /\ calls' = calls /\ littered' = littered
  BY DEF Erase
<1>4. ASSUME NEW b \in BOOLEAN, NEW f \in BOOLEAN, b \/ f
      PROVE  /\ i(b, f) \in Jobs /\ i(b, f).at = "sweep" /\ i(b, f).op = "delete"
             /\ i(b, f).gen = 0 /\ i(b, f).found = job[c].found /\ i(b, f).next = 1
             /\ i(b, f).done = b
  <2> DEFINE j == i(b, f)
  <2>1. 1 \in Nat \ {0}
    OBVIOUS
  <2>2. j \in Records
    BY <1>1, <2>1 DEF Records
  <2>3. /\ j.at = "sweep" /\ j.op = "delete" /\ j.gen = 0 /\ j.found = job[c].found /\ j.next = 1
        /\ j.done = b /\ j.failed = f
    BY <1>1, <1>2 DEF Records
  <2> HIDE DEF j
  <2>4. job[c].found.count \in Nat
    BY JobIs, EntryIs DEF KeyringAssumption
  <2>5. j \in Jobs
    BY <1>4, <2>2, <2>3, <2>4 DEF Jobs, PlaceOf
  <2> QED
    BY <2>3, <2>5 DEF j
<1>5. CASE /\ entry' = Nothing /\ UNCHANGED <<faults, harmed>>
           /\ Go(c, Sweeping([job[c] EXCEPT !.done = TRUE]))
  <2> DEFINE j == i(TRUE, FALSE)
  <2>1. Sweeping([job[c] EXCEPT !.done = TRUE]) = j
    BY <1>1, <1>2 DEF Sweeping, Records
  <2>2. /\ j \in Jobs /\ j.at = "sweep" /\ j.op = "delete"
        /\ j.gen = 0 /\ j.found = job[c].found /\ j.next = 1 /\ j.done = TRUE
    BY <1>4
  <2> HIDE DEF j, i
  <2>3. ShapeInv' /\ job'[c] = j /\ \A d \in Processes \ {c} : job'[d] = job[d]
    <3>1. /\ calls' \in Nat /\ faults' \in Nat /\ harmed' \subseteq 0 .. MaxGens
          /\ littered' \in BOOLEAN /\ chunk' \in [Names -> Texts] /\ gens' \in 0 .. MaxGens
      BY <1>3, <1>5 DEF ShapeInv
    <3> QED
      BY <1>5, <2>1, <2>2, <3>1, StepShape, NothingIs
  <2> QED
    BY <1>1, <1>2, <1>3, <1>5, <2>2, <2>3
<1>6. CASE /\ Fault("delete") /\ entry' = entry /\ harmed' = harmed \union {job[c].found.gen}
           /\ Go(c, Sweeping([job[c] EXCEPT !.failed = TRUE]))
  <2> DEFINE j == i(FALSE, TRUE)
  <2>1. Sweeping([job[c] EXCEPT !.failed = TRUE]) = j
    BY <1>1, <1>2 DEF Sweeping, Records
  <2>2. /\ j \in Jobs /\ j.at = "sweep" /\ j.op = "delete"
        /\ j.gen = 0 /\ j.found = job[c].found /\ j.next = 1 /\ j.done = FALSE
    BY <1>4
  <2> HIDE DEF j, i
  <2>3. ShapeInv' /\ job'[c] = j /\ \A d \in Processes \ {c} : job'[d] = job[d]
    <3>1. /\ calls' \in Nat /\ faults' \in Nat /\ entry' \in Entries
          /\ littered' \in BOOLEAN /\ chunk' \in [Names -> Texts] /\ gens' \in 0 .. MaxGens
      BY <1>3, <1>6 DEF ShapeInv, Fault
    <3>2. harmed' \subseteq 0 .. MaxGens
      BY <1>6, JobIs, EntryIs DEF ShapeInv
    <3> QED
      BY <1>6, <2>1, <2>2, <3>1, <3>2, StepShape
  <2> QED
    BY <1>1, <1>2, <1>3, <1>6, <2>2, <2>3
<1> QED
  BY <1>5, <1>6 DEF Erase

LEMMA SweepMoves ==
    ASSUME KeyringAssumption, ShapeInv, NEW c \in Processes, Sweep(c)
    PROVE  /\ ShapeInv' /\ Aside(c) /\ UNCHANGED harmed /\ (littered => littered')
           /\ job[c].at = "sweep" /\ job[c].op \in {"set", "delete"} /\ job'[c].op = job[c].op
           /\ job'[c].gen = job[c].gen /\ job'[c].found = job[c].found
           /\ job'[c].secret = job[c].secret /\ job'[c].done = job[c].done
           /\ \/ /\ job[c].next <= job[c].found.count
                 /\ job'[c].at = "sweep" /\ job'[c].next = job[c].next + 1
                 /\ <<job[c].found.gen, job[c].next>> \in Names
                 /\ \/ /\ chunk' = [chunk EXCEPT ![<<job[c].found.gen, job[c].next>>] = Missing]
                       /\ littered' = littered
                    \/ chunk' = chunk /\ littered'
              \/ /\ job[c].next > job[c].found.count
                 /\ job'[c].at = "end" /\ job'[c].failed = job[c].failed
                 /\ UNCHANGED <<chunk, littered>>
<1>1. job[c].at = "sweep" /\ job[c] \in Records /\ PlaceOf(job[c])
  BY JobIs DEF Sweep, At
<1>2. UNCHANGED <<entry, gens, calls, harmed>>
  BY DEF Sweep
<1>3. /\ job[c].op \in {"set", "delete"} /\ (job[c].done \/ job[c].failed)
      /\ job[c].op = "set" => ~job[c].failed
      /\ job[c].failed \in BOOLEAN /\ job[c].done \in BOOLEAN
  <2>1. job[c].failed \in BOOLEAN /\ job[c].done \in BOOLEAN
    BY JobIs
  <2> QED
    BY <1>1, <2>1 DEF PlaceOf
<1>4. /\ job[c].op = "set" => job[c].secret \in Secrets
      /\ job[c].gen # 0 =>
            job[c].op = "set" /\ Long(job[c].secret) /\ job[c].next \in 1 .. MaxChunks + 1
  BY <1>1 DEF PlaceOf
<1>5. /\ job[c].found.count \in 0 .. MaxChunks /\ MaxChunks \in Nat
      /\ job[c].found.gen \in 0 .. MaxGens /\ MaxGens \in Nat
      /\ job[c].next \in Nat \ {0}
      /\ job[c].found.count # 0 => job[c].found.gen # 0
  BY JobIs, EntryIs DEF KeyringAssumption
<1>6. CASE /\ job[c].next <= job[c].found.count
           /\ Discard(<<job[c].found.gen, job[c].next>>)
           /\ Go(c, [job[c] EXCEPT !.next = job[c].next + 1,
                        !.failed = job[c].failed \/ (job[c].op = "delete" /\ faults' # faults)])
  <2> DEFINE f == job[c].failed \/ (job[c].op = "delete" /\ faults' # faults)
             j == [job[c] EXCEPT !.next = job[c].next + 1, !.failed = f]
  <2>1. f \in BOOLEAN /\ (job[c].failed => f) /\ (job[c].op = "set" => ~f)
    BY <1>3
  <2> HIDE DEF f
  <2>2. /\ job[c].next + 1 \in Nat \ {0} /\ job[c].next + 1 <= job[c].found.count + 1
        /\ job[c].next + 1 \in 1 .. MaxChunks + 1
    BY <1>5, <1>6
  <2>3. <<job[c].found.gen, job[c].next>> \in Names
    BY <1>5, <1>6 DEF Names
  <2>4. j \in Records
    BY <1>1, <2>1, <2>2 DEF Records
  <2>5. /\ j.at = "sweep" /\ j.op = job[c].op /\ j.secret = job[c].secret
        /\ j.gen = job[c].gen /\ j.found = job[c].found /\ j.next = job[c].next + 1
        /\ j.done = job[c].done /\ j.failed = f
    BY <1>1 DEF Records
  <2>6. Go(c, j)
    BY <1>6 DEF f
  <2> HIDE DEF j
  <2>7. j \in Jobs
    <3>1. j.done \/ j.failed
      BY <1>3, <2>1, <2>5
    <3>2. /\ j.op \in {"set", "delete"} /\ (j.op = "set" => ~j.failed)
          /\ j.next <= j.found.count + 1
      BY <1>3, <2>1, <2>2, <2>5
    <3>3. /\ j.op = "set" => j.secret \in Secrets
          /\ j.gen # 0 => j.op = "set" /\ Long(j.secret) /\ j.next \in 1 .. MaxChunks + 1
      BY <1>4, <2>2, <2>5
    <3>4. PlaceOf(j)
      BY <2>5, <3>1, <3>2, <3>3 DEF PlaceOf
    <3> QED
      BY <2>4, <3>4 DEF Jobs
  <2>8. /\ chunk' \in [Names -> Texts] /\ faults' \in Nat /\ littered' \in BOOLEAN
        /\ littered => littered'
        /\ \/ /\ chunk' = [chunk EXCEPT ![<<job[c].found.gen, job[c].next>>] = Missing]
              /\ littered' = littered
           \/ chunk' = chunk /\ littered'
    BY <1>6, <2>3, DiscardIs
  <2>9. ShapeInv' /\ Aside(c) /\ job'[c] = j
    <3>1. calls' \in Nat /\ harmed' \subseteq 0 .. MaxGens
      BY <1>2 DEF ShapeInv
    <3> QED
      BY <1>2, <2>6, <2>7, <2>8, <3>1, AsideShape
  <2> QED
    BY <1>1, <1>2, <1>3, <1>6, <2>3, <2>5, <2>8, <2>9
<1>7. CASE /\ job[c].next > job[c].found.count
           /\ Go(c, Ended(job[c])) /\ UNCHANGED <<chunk, faults, littered>>
  <2> DEFINE j == Ended(job[c])
  <2>1. j \in Jobs /\ j = [job[c] EXCEPT !.at = "end"]
    BY <1>1, <1>3, EndMoves
  <2>2. /\ j.at = "end" /\ j.op = job[c].op /\ j.secret = job[c].secret
        /\ j.gen = job[c].gen /\ j.found = job[c].found
        /\ j.done = job[c].done /\ j.failed = job[c].failed
    BY <1>1, <2>1 DEF Records
  <2>3. Go(c, j)
    BY <1>7
  <2> HIDE DEF j
  <2>4. ShapeInv' /\ Aside(c) /\ job'[c] = j
    <3>1. /\ calls' \in Nat /\ faults' \in Nat /\ harmed' \subseteq 0 .. MaxGens
          /\ littered' \in BOOLEAN /\ chunk' \in [Names -> Texts]
      BY <1>2, <1>7 DEF ShapeInv
    <3> QED
      BY <1>2, <2>1, <2>3, <3>1, AsideShape
  <2> QED
    BY <1>1, <1>2, <1>3, <1>7, <2>2, <2>4
<1> QED
  BY <1>6, <1>7 DEF Sweep

LEMMA LeaveMoves ==
    ASSUME KeyringAssumption, ShapeInv, NEW c \in Processes, Leave(c)
    PROVE  /\ ShapeInv' /\ Aside(c) /\ UNCHANGED <<chunk, harmed, littered>>
           /\ job[c].at = "end" /\ job'[c] = Idle
<1>1. job[c].at = "end" /\ Go(c, Idle) /\ Idle \in Jobs
  BY IdleIs DEF Leave, At
<1>2. UNCHANGED <<entry, chunk, gens, harmed, littered, calls, faults>>
  BY DEF Leave, entryVars, Smoothly, pastVars
<1>3. /\ calls' \in Nat /\ faults' \in Nat /\ harmed' \subseteq 0 .. MaxGens
      /\ littered' \in BOOLEAN /\ chunk' \in [Names -> Texts]
  BY <1>2 DEF ShapeInv
<1> QED
  BY <1>1, <1>2, <1>3, AsideShape

LEMMA FailReadMoves ==
    ASSUME KeyringAssumption, ShapeInv, NEW c \in Processes, FailRead(c)
    PROVE  /\ ShapeInv' /\ Aside(c) /\ UNCHANGED <<chunk, harmed, littered>>
           /\ job[c].at \in {"read", "part"}
           /\ job'[c] = [job[c] EXCEPT !.at = "end", !.failed = TRUE]
<1> DEFINE j == [job[c] EXCEPT !.at = "end", !.failed = TRUE]
<1>1. job[c].at \in {"read", "part"} /\ Go(c, Failed(job[c]))
  BY DEF FailRead, At
<1>2. j \in Jobs /\ Failed(job[c]) = j
  BY <1>1, EndMoves
<1>3. UNCHANGED <<entry, chunk, gens, harmed, littered, calls>> /\ faults' = faults + 1
  BY DEF FailRead, entryVars, Untouched, pastVars, Fault
<1> HIDE DEF j
<1>4. /\ calls' \in Nat /\ faults' \in Nat /\ harmed' \subseteq 0 .. MaxGens
      /\ littered' \in BOOLEAN /\ chunk' \in [Names -> Texts]
  BY <1>3 DEF ShapeInv
<1>5. ShapeInv' /\ Aside(c) /\ job'[c] = j
  BY <1>1, <1>2, <1>3, <1>4, AsideShape
<1> QED
  BY <1>1, <1>3, <1>5 DEF j

LEMMA ExitMoves ==
    ASSUME KeyringAssumption, ShapeInv, NEW c \in Processes, Exit(c)
    PROVE  /\ ShapeInv' /\ Aside(c) /\ UNCHANGED <<chunk, harmed>>
           /\ job'[c] = Idle /\ littered' = (littered \/ Changes(c)) /\ job[c].at # "idle"
<1>1. job[c].at # "idle" /\ Go(c, Idle) /\ Idle \in Jobs
  BY IdleIs DEF Exit, At
<1>2. /\ UNCHANGED <<entry, chunk, gens, harmed, calls>> /\ faults' = faults + 1
      /\ littered' = (littered \/ Changes(c))
  BY DEF Exit, entryVars, Fault, Litter
<1>3. /\ calls' \in Nat /\ faults' \in Nat /\ harmed' \subseteq 0 .. MaxGens
      /\ littered' \in BOOLEAN /\ chunk' \in [Names -> Texts]
  BY <1>2 DEF ShapeInv, Changes
<1> QED
  BY <1>1, <1>2, <1>3, AsideShape

LEMMA DamageMoves ==
    ASSUME KeyringAssumption, ShapeInv, Damage
    PROVE  /\ ShapeInv' /\ UNCHANGED <<entry, job, gens, littered>>
           /\ \E n \in Names : \E d \in Texts :
                 /\ chunk[n] # Missing /\ chunk' = [chunk EXCEPT ![n] = d]
                 /\ harmed' = harmed \union {n[1]}
<1>1. PICK n \in Names : /\ chunk[n] # Missing
                         /\ \E d \in Garbage \union {Missing} :
                               d # chunk[n] /\ chunk' = [chunk EXCEPT ![n] = d]
                         /\ harmed' = harmed \union {n[1]}
  BY DEF Damage
<1>2. PICK d \in Garbage \union {Missing} : chunk' = [chunk EXCEPT ![n] = d]
  BY <1>1
<1>3. d \in Texts
  <2>1. Garbage \subseteq Texts /\ Missing \in Texts
    BY KeptAreTexts DEF Texts, Missing, KeyringAssumption
  <2> HIDE DEF Texts
  <2> QED
    BY <2>1
<1>4. UNCHANGED <<entry, job, gens, calls, littered>> /\ faults' = faults + 1
  BY DEF Damage, Fault
<1>5. n[1] \in 0 .. MaxGens
  BY <1>1 DEF Names, KeyringAssumption
<1>6. ShapeInv'
  <2>1. chunk' \in [Names -> Texts]
    BY <1>2, <1>3 DEF ShapeInv
  <2>2. harmed' \subseteq 0 .. MaxGens
    BY <1>1, <1>5 DEF ShapeInv
  <2>3. faults' \in Nat
    BY <1>4 DEF ShapeInv
  <2> QED
    BY <1>4, <2>1, <2>2, <2>3 DEF ShapeInv
<1> QED
  BY <1>1, <1>2, <1>3, <1>4, <1>6

LEMMA ShapeStep ==
    ASSUME KeyringAssumption, ShapeInv, KeyringNext
    PROVE  ShapeInv'
<1>1. ASSUME NEW c \in Processes, Begin(c) PROVE ShapeInv'
  BY <1>1, BeginMoves
<1>2. ASSUME NEW c \in Processes, ReadEntry(c) PROVE ShapeInv'
  BY <1>2, ReadEntryMoves
<1>3. ASSUME NEW c \in Processes, ReadChunk(c) PROVE ShapeInv'
  BY <1>3, ReadChunkMoves
<1>4. ASSUME NEW c \in Processes, CheckHash(c) PROVE ShapeInv'
  BY <1>4, CheckHashMoves
<1>5. ASSUME NEW c \in Processes, Prepare(c) PROVE ShapeInv'
  BY <1>5, PrepareMoves
<1>6. ASSUME NEW c \in Processes, WriteChunk(c) PROVE ShapeInv'
  BY <1>6, WriteChunkMoves
<1>7. ASSUME NEW c \in Processes, Publish(c) PROVE ShapeInv'
  BY <1>7, PublishMoves
<1>8. ASSUME NEW c \in Processes, FailWrite(c) PROVE ShapeInv'
  BY <1>8, FailWriteMoves
<1>9. ASSUME NEW c \in Processes, FailLate(c) PROVE ShapeInv'
  BY <1>9, FailLateMoves
<1>10. ASSUME NEW c \in Processes, DeleteWritten(c) PROVE ShapeInv'
  BY <1>10, DeleteWrittenMoves
<1>11. ASSUME NEW c \in Processes, LookUp(c) PROVE ShapeInv'
  BY <1>11, LookUpMoves
<1>12. ASSUME NEW c \in Processes, Erase(c) PROVE ShapeInv'
  BY <1>12, EraseMoves
<1>13. ASSUME NEW c \in Processes, Sweep(c) PROVE ShapeInv'
  BY <1>13, SweepMoves
<1>14. ASSUME NEW c \in Processes, Leave(c) PROVE ShapeInv'
  BY <1>14, LeaveMoves
<1>15. ASSUME NEW c \in Processes, FailRead(c) PROVE ShapeInv'
  BY <1>15, FailReadMoves
<1>16. ASSUME NEW c \in Processes, Exit(c) PROVE ShapeInv'
  BY <1>16, ExitMoves
<1>17. ASSUME Damage PROVE ShapeInv'
  BY <1>17, DamageMoves
<1> QED
  BY <1>1, <1>2, <1>3, <1>4, <1>5, <1>6, <1>7, <1>8, <1>9, <1>10, <1>11, <1>12, <1>13,
     <1>14, <1>15, <1>16, <1>17 DEF KeyringNext

----------------------------------------------------------------------------
(* A generation is drawn once.                                             *)

\* A step that publishes, erases and draws nothing.
LEMMA DrawnOnceAside ==
    ASSUME KeyringAssumption, ShapeInv, DrawnOnce, NEW c \in Processes, Aside(c),
           harmed \subseteq harmed',
           job'[c].gen \in {0, job[c].gen},
           job'[c].found \in {job[c].found, entry, Nothing},
           Writing(job'[c]) => Writing(job[c]),
           Removing(job'[c]) # 0 =>
               Removing(job'[c]) # entry.gen \/ Removing(job'[c]) \in harmed'
    PROVE  DrawnOnce'
<1>1. /\ entry' = entry /\ gens' = gens /\ \A d \in Processes \ {c} : job'[d] = job[d]
  BY DEF Aside
<1>2. /\ gens \in Nat /\ Nothing.gen = 0 /\ entry.gen <= gens
      /\ \A d \in Processes : job[d].gen <= gens /\ job[d].found.gen <= gens
  BY NothingIs DEF DrawnOnce, ShapeInv, KeyringAssumption
<1>3. /\ \A d \in Processes : job'[d].gen \in {0, job[d].gen}
      /\ \A d \in Processes : job'[d].found.gen \in {job[d].found.gen, entry.gen, 0}
      /\ \A d \in Processes : Writing(job'[d]) => Writing(job[d]) /\ job'[d].gen = job[d].gen
  <2>1. \A j : Writing(j) => j.gen # 0
    BY DEF Writing
  <2> QED
    BY <1>1, <1>2, <2>1
<1>4. entry'.gen <= gens'
  BY <1>1, <1>2
<1>5. \A d \in Processes : job'[d].gen <= gens' /\ job'[d].found.gen <= gens'
  BY <1>1, <1>2, <1>3
<1>6. ASSUME NEW d \in Processes, NEW e \in Processes, d # e, job'[d].gen # 0
      PROVE  job'[d].gen # job'[e].gen
  <2>1. job'[d].gen = job[d].gen /\ job'[e].gen \in {0, job[e].gen}
    BY <1>3, <1>6
  <2>2. job[d].gen # job[e].gen
    BY <1>6, <2>1 DEF DrawnOnce
  <2> QED
    BY <1>6, <2>1, <2>2
<1>7. ASSUME NEW d \in Processes, Writing(job'[d])
      PROVE  entry'.gen # job'[d].gen /\ \A e \in Processes : job'[e].found.gen # job'[d].gen
  <2>1. Writing(job[d]) /\ job'[d].gen = job[d].gen
    BY <1>3, <1>7
  <2>2. entry.gen # job[d].gen /\ \A e \in Processes : job[e].found.gen # job[d].gen
    BY <2>1 DEF DrawnOnce
  <2>3. job[d].gen # 0
    BY <2>1 DEF Writing
  <2> QED
    BY <1>1, <1>3, <2>1, <2>2, <2>3
<1>8. ASSUME NEW d \in Processes, Removing(job'[d]) # 0
      PROVE  Removing(job'[d]) # entry'.gen \/ Removing(job'[d]) \in harmed'
  <2>1. CASE d = c
    BY <1>1, <1>8, <2>1
  <2>2. CASE d # c
    <3>1. job'[d] = job[d]
      BY <1>1, <2>2
    <3>2. Removing(job[d]) # entry.gen \/ Removing(job[d]) \in harmed
      BY <1>8, <3>1 DEF DrawnOnce
    <3> QED
      BY <1>1, <3>1, <3>2
  <2> QED
    BY <2>1, <2>2
<1> QED
  BY <1>4, <1>5, <1>6, <1>7, <1>8 DEF DrawnOnce

\* A manifest that is published is nobody's to remove, and no entry that
\* another call found.
LEMMA DrawnOncePublished ==
    ASSUME KeyringAssumption, ShapeInv, DrawnOnce, NEW c \in Processes,
           job[c].at = "publish", entry' = NewEntry(job[c]), gens' = gens,
           \A d \in Processes \ {c} : job'[d] = job[d], harmed \subseteq harmed',
           job'[c].gen = job[c].gen, job'[c].found = job[c].found,
           \/ job'[c].at = "sweep"
           \/ job'[c].at = "undo" /\ job[c].gen \in harmed'
    PROVE  DrawnOnce'
<1>1. entry'.gen = job[c].gen
  BY NewEntryIs
<1>2. \A d \in Processes : job'[d].gen = job[d].gen /\ job'[d].found = job[d].found
  OBVIOUS
<1>3. \A d \in Processes : Writing(job'[d]) => d # c /\ job'[d] = job[d]
  BY DEF Writing
<1>4. job[c].gen # 0 => \A d \in Processes : job[d].found.gen # job[c].gen
  BY DEF DrawnOnce, Writing
<1>5. entry'.gen <= gens'
  BY <1>1 DEF DrawnOnce
<1>6. \A d \in Processes : job'[d].gen <= gens' /\ job'[d].found.gen <= gens'
  BY <1>2 DEF DrawnOnce
<1>7. \A d, e \in Processes : d # e /\ job'[d].gen # 0 => job'[d].gen # job'[e].gen
  BY <1>2 DEF DrawnOnce
<1>8. ASSUME NEW d \in Processes, Writing(job'[d])
      PROVE  entry'.gen # job'[d].gen /\ \A e \in Processes : job'[e].found.gen # job'[d].gen
  <2>1. d # c /\ Writing(job[d]) /\ job'[d].gen = job[d].gen /\ job[d].gen # 0
    BY <1>3, <1>8 DEF Writing
  <2>2. job[d].gen # job[c].gen
    BY <2>1 DEF DrawnOnce
  <2>3. \A e \in Processes : job[e].found.gen # job[d].gen
    BY <2>1 DEF DrawnOnce
  <2> QED
    BY <1>1, <1>2, <2>1, <2>2, <2>3
<1>9. ASSUME NEW d \in Processes, Removing(job'[d]) # 0
      PROVE  Removing(job'[d]) # entry'.gen \/ Removing(job'[d]) \in harmed'
  <2>1. CASE job'[d].at = "sweep"
    <3>1. Removing(job'[d]) = job[d].found.gen
      BY <1>2, <2>1 DEF Removing
    <3> QED
      BY <1>1, <1>4, <1>9, <3>1
  <2>2. CASE job'[d].at = "undo" /\ d = c
    <3>1. Removing(job'[d]) = job[c].gen
      BY <1>2, <2>2 DEF Removing
    <3> QED
      BY <2>2, <3>1
  <2>3. CASE job'[d].at = "undo" /\ d # c
    <3>1. Removing(job'[d]) = job[d].gen /\ job[d].gen # 0
      BY <1>2, <1>9, <2>3 DEF Removing
    <3>2. job[d].gen # job[c].gen
      BY <2>3, <3>1 DEF DrawnOnce
    <3> QED
      BY <1>1, <3>1, <3>2
  <2> QED
    BY <1>9, <2>1, <2>2, <2>3 DEF Removing
<1> QED
  BY <1>5, <1>6, <1>7, <1>8, <1>9 DEF DrawnOnce

LEMMA DrawnOnceStep ==
    ASSUME KeyringAssumption, ShapeInv, DrawnOnce, KeyringNext
    PROVE  DrawnOnce'
<1>1. ASSUME NEW c \in Processes, Begin(c) PROVE DrawnOnce'
  <2>1. /\ Aside(c) /\ harmed' = harmed /\ job'[c].at = "read" /\ job'[c].gen = 0
        /\ job'[c].found = Nothing
    BY <1>1, BeginMoves
  <2>2. ~Writing(job'[c]) /\ Removing(job'[c]) = 0
    BY <2>1 DEF Writing, Removing
  <2> QED
    BY <2>1, <2>2, DrawnOnceAside
<1>2. ASSUME NEW c \in Processes, ReadEntry(c) PROVE DrawnOnce'
  <2>1. /\ Aside(c) /\ harmed' = harmed /\ job[c] \in Records
        /\ job'[c] = [job[c] EXCEPT !.at = "part", !.found = entry, !.done = TRUE,
                         !.told = IF HasManifest(entry) THEN <<>> ELSE entry.secret]
    BY <1>2, ReadEntryMoves, JobIs
  <2>2. job'[c].at = "part" /\ job'[c].gen = job[c].gen /\ job'[c].found = entry
    BY <2>1 DEF Records
  <2>3. ~Writing(job'[c]) /\ Removing(job'[c]) = 0
    BY <2>2 DEF Writing, Removing
  <2> QED
    BY <2>1, <2>2, <2>3, DrawnOnceAside
<1>3. ASSUME NEW c \in Processes, ReadChunk(c) PROVE DrawnOnce'
  <2>1. /\ Aside(c) /\ harmed' = harmed /\ job[c] \in Records /\ job[c].at = "part"
        /\ \/ job'[c] = [job[c] EXCEPT !.at = "end", !.failed = TRUE]
           \/ \E t \in Texts : job'[c] = [job[c] EXCEPT !.next = job[c].next + 1, !.told = t]
    BY <1>3, ReadChunkMoves, JobIs
  <2>2. /\ job'[c].at \in {"part", "end"} /\ job'[c].gen = job[c].gen
        /\ job'[c].found = job[c].found
    BY <2>1 DEF Records
  <2>3. ~Writing(job'[c]) /\ Removing(job'[c]) = 0
    BY <2>2 DEF Writing, Removing
  <2> QED
    BY <2>1, <2>2, <2>3, DrawnOnceAside
<1>4. ASSUME NEW c \in Processes, CheckHash(c) PROVE DrawnOnce'
  <2>1. /\ Aside(c) /\ harmed' = harmed /\ job[c] \in Records
        /\ \/ job'[c] = [job[c] EXCEPT !.at = "end", !.failed = TRUE]
           \/ job'[c] = [job[c] EXCEPT !.at = "end"]
    BY <1>4, CheckHashMoves, JobIs
  <2>2. job'[c].at = "end" /\ job'[c].gen = job[c].gen /\ job'[c].found = job[c].found
    BY <2>1 DEF Records
  <2>3. ~Writing(job'[c]) /\ Removing(job'[c]) = 0
    BY <2>2 DEF Writing, Removing
  <2> QED
    BY <2>1, <2>2, <2>3, DrawnOnceAside
<1>5. ASSUME NEW c \in Processes, Prepare(c) PROVE DrawnOnce'
  <2>1. /\ UNCHANGED <<entry, harmed>> /\ \A d \in Processes \ {c} : job'[d] = job[d]
        /\ job'[c].found = entry /\ job[c].gen = 0 /\ ShapeInv'
        /\ \/ job'[c].at \in {"publish", "end"} /\ job'[c].gen = 0 /\ gens' = gens
           \/ job'[c].at = "write" /\ job'[c].gen = gens + 1 /\ gens' = gens + 1
    BY <1>5, PrepareMoves
  <2>2. CASE job'[c].gen = 0 /\ gens' = gens
    <3>1. ~Writing(job'[c]) /\ Removing(job'[c]) = 0 /\ Aside(c)
      BY <2>1, <2>2 DEF Writing, Removing, Aside, ShapeInv
    <3> QED
      BY <2>1, <2>2, <3>1, DrawnOnceAside
  <2>3. CASE job'[c].at = "write" /\ job'[c].gen = gens + 1 /\ gens' = gens + 1
    <3>1. /\ gens \in Nat /\ entry.gen \in Nat /\ entry.gen <= gens
          /\ \A d \in Processes : /\ job[d].gen \in Nat /\ job[d].gen <= gens
                                /\ job[d].found.gen \in Nat /\ job[d].found.gen <= gens
      BY JobIs, EntryIs DEF DrawnOnce, ShapeInv, KeyringAssumption
    <3>2. \A d \in Processes : /\ d # c => job'[d] = job[d]
                             /\ job'[d].found.gen <= gens /\ job'[d].found.gen \in Nat
      BY <2>1, <3>1
    <3>3. \A d \in Processes : Removing(job'[d]) = IF d = c THEN 0 ELSE Removing(job[d])
      BY <2>1, <2>3 DEF Removing
    <3>4. entry'.gen <= gens'
      BY <2>1, <2>3, <3>1
    <3>5. \A d \in Processes : job'[d].gen <= gens' /\ job'[d].found.gen <= gens'
      BY <2>3, <3>1, <3>2
    <3>6. ASSUME NEW d \in Processes, NEW e \in Processes, d # e, job'[d].gen # 0
          PROVE  job'[d].gen # job'[e].gen
      <4>1. CASE d # c /\ e # c
        BY <3>2, <3>6, <4>1 DEF DrawnOnce
      <4>2. CASE d = c
        BY <2>3, <3>1, <3>2, <3>6, <4>2
      <4>3. CASE e = c
        BY <2>3, <3>1, <3>2, <3>6, <4>3
      <4> QED
        BY <4>1, <4>2, <4>3
    <3>7. ASSUME NEW d \in Processes, Writing(job'[d])
          PROVE  /\ entry'.gen # job'[d].gen
                 /\ \A e \in Processes : job'[e].found.gen # job'[d].gen
      <4>1. CASE d = c
        BY <2>1, <2>3, <3>1, <3>2, <4>1
      <4>2. CASE d # c
        <5>1. Writing(job[d]) /\ job'[d] = job[d]
          BY <3>2, <3>7, <4>2
        <5>2. /\ entry.gen # job[d].gen
              /\ \A e \in Processes : job[e].found.gen # job[d].gen
          BY <5>1 DEF DrawnOnce
        <5> QED
          BY <2>1, <3>2, <5>1, <5>2
      <4> QED
        BY <4>1, <4>2
    <3>8. \A d \in Processes : Removing(job'[d]) # 0 =>
              Removing(job'[d]) # entry'.gen \/ Removing(job'[d]) \in harmed'
      BY <2>1, <3>3 DEF DrawnOnce
    <3> QED
      BY <3>4, <3>5, <3>6, <3>7, <3>8 DEF DrawnOnce
  <2> QED
    BY <2>1, <2>2, <2>3
<1>6. ASSUME NEW c \in Processes, WriteChunk(c) PROVE DrawnOnce'
  <2>1. /\ Aside(c) /\ harmed' = harmed /\ job[c].at = "write"
        /\ job'[c].at \in {"write", "publish"} /\ job'[c].gen = job[c].gen
        /\ job'[c].found = job[c].found
    BY <1>6, WriteChunkMoves
  <2>2. (Writing(job'[c]) => Writing(job[c])) /\ Removing(job'[c]) = 0
    BY <2>1 DEF Writing, Removing
  <2> QED
    BY <2>1, <2>2, DrawnOnceAside
<1>7. ASSUME NEW c \in Processes, Publish(c) PROVE DrawnOnce'
  BY <1>7, PublishMoves, DrawnOncePublished
<1>8. ASSUME NEW c \in Processes, FailWrite(c) PROVE DrawnOnce'
  <2>1. /\ Aside(c) /\ harmed' = harmed /\ job[c].at \in {"write", "publish"}
        /\ job'[c].at = "undo" /\ job'[c].gen = job[c].gen /\ job'[c].found = job[c].found
    BY <1>8, FailWriteMoves
  <2>2. /\ ~Writing(job'[c]) /\ Removing(job'[c]) = job[c].gen
        /\ job[c].gen # 0 => Writing(job[c])
    BY <2>1 DEF Writing, Removing
  <2>3. Removing(job'[c]) # 0 => Removing(job'[c]) # entry.gen
    BY <2>2 DEF DrawnOnce
  <2> QED
    BY <2>1, <2>2, <2>3, DrawnOnceAside
<1>9. ASSUME NEW c \in Processes, FailLate(c) PROVE DrawnOnce'
  <2>1. /\ gens' = gens /\ \A d \in Processes \ {c} : job'[d] = job[d]
        /\ job'[c].at = "undo" /\ job'[c].gen = job[c].gen /\ job'[c].found = job[c].found
        /\ ShapeInv'
        /\ \/ /\ job[c].at = "write" /\ entry' = entry /\ harmed' = harmed
           \/ /\ job[c].at = "publish" /\ entry' = NewEntry(job[c])
              /\ harmed' = harmed \union {job[c].gen}
    BY <1>9, FailLateMoves
  <2>2. CASE job[c].at = "write" /\ entry' = entry /\ harmed' = harmed
    <3>1. /\ ~Writing(job'[c]) /\ Removing(job'[c]) = job[c].gen
          /\ job[c].gen # 0 => Writing(job[c])
      BY <2>1, <2>2 DEF Writing, Removing
    <3>2. Removing(job'[c]) # 0 => Removing(job'[c]) # entry.gen
      BY <3>1 DEF DrawnOnce
    <3>3. Aside(c)
      BY <2>1, <2>2 DEF Aside, ShapeInv
    <3> QED
      BY <2>1, <2>2, <3>1, <3>2, <3>3, DrawnOnceAside
  <2>3. CASE /\ job[c].at = "publish" /\ entry' = NewEntry(job[c])
             /\ harmed' = harmed \union {job[c].gen}
    BY <2>1, <2>3, DrawnOncePublished
  <2> QED
    BY <2>1, <2>2, <2>3
<1>10. ASSUME NEW c \in Processes, DeleteWritten(c) PROVE DrawnOnce'
  <2>1. /\ Aside(c) /\ harmed' = harmed /\ job[c].at = "undo" /\ job'[c].at \in {"undo", "end"}
        /\ job'[c].gen = job[c].gen /\ job'[c].found = job[c].found
    BY <1>10, DeleteWrittenMoves
  <2>2. ~Writing(job'[c]) /\ (Removing(job'[c]) # 0 => Removing(job'[c]) = Removing(job[c]))
    BY <2>1 DEF Writing, Removing
  <2>3. Removing(job'[c]) # 0 =>
            Removing(job'[c]) # entry.gen \/ Removing(job'[c]) \in harmed'
    BY <2>1, <2>2 DEF DrawnOnce
  <2> QED
    BY <2>1, <2>2, <2>3, DrawnOnceAside
<1>11. ASSUME NEW c \in Processes, LookUp(c) PROVE DrawnOnce'
  <2>1. /\ Aside(c) /\ harmed' = harmed /\ job'[c].at = "erase" /\ job'[c].gen = 0
        /\ job'[c].found = entry
    BY <1>11, LookUpMoves
  <2>2. ~Writing(job'[c]) /\ Removing(job'[c]) = 0
    BY <2>1 DEF Writing, Removing
  <2> QED
    BY <2>1, <2>2, DrawnOnceAside
<1>12. ASSUME NEW c \in Processes, Erase(c) PROVE DrawnOnce'
  <2>1. /\ gens' = gens /\ \A d \in Processes \ {c} : job'[d] = job[d]
        /\ job'[c].at = "sweep" /\ job[c].gen = 0 /\ job'[c].gen = 0
        /\ job'[c].found = job[c].found /\ ShapeInv'
        /\ \/ entry' = Nothing /\ harmed' = harmed
           \/ entry' = entry /\ harmed' = harmed \union {job[c].found.gen}
    BY <1>12, EraseMoves
  <2>2. ~Writing(job'[c]) /\ Removing(job'[c]) = job[c].found.gen
    BY <2>1 DEF Writing, Removing
  <2>3. CASE entry' = entry /\ harmed' = harmed \union {job[c].found.gen}
    <3>1. Aside(c)
      BY <2>1, <2>3 DEF Aside, ShapeInv
    <3> QED
      BY <2>1, <2>2, <2>3, <3>1, DrawnOnceAside
  <2>4. CASE entry' = Nothing /\ harmed' = harmed
    <3>1. entry'.gen = 0 /\ gens \in Nat
      BY <2>4, NothingIs DEF ShapeInv, KeyringAssumption
    <3>2. \A d \in Processes : job'[d].gen = job[d].gen /\ job'[d].found = job[d].found
      BY <2>1
    <3>3. \A d \in Processes : Writing(job'[d]) => Writing(job[d]) /\ job'[d].gen # 0
      BY <2>1, <2>2 DEF Writing
    <3> QED
      BY <2>1, <2>4, <3>1, <3>2, <3>3 DEF DrawnOnce
  <2> QED
    BY <2>1, <2>3, <2>4
<1>13. ASSUME NEW c \in Processes, Sweep(c) PROVE DrawnOnce'
  <2>1. /\ Aside(c) /\ harmed' = harmed /\ job[c].at = "sweep"
        /\ job'[c].at \in {"sweep", "end"}
        /\ job'[c].gen = job[c].gen /\ job'[c].found = job[c].found
    BY <1>13, SweepMoves
  <2>2. ~Writing(job'[c]) /\ (Removing(job'[c]) # 0 => Removing(job'[c]) = Removing(job[c]))
    BY <2>1 DEF Writing, Removing
  <2>3. Removing(job'[c]) # 0 =>
            Removing(job'[c]) # entry.gen \/ Removing(job'[c]) \in harmed'
    BY <2>1, <2>2 DEF DrawnOnce
  <2> QED
    BY <2>1, <2>2, <2>3, DrawnOnceAside
<1>14. ASSUME NEW c \in Processes, Aside(c), harmed' = harmed, job'[c] = Idle
       PROVE  DrawnOnce'
  <2>1. job'[c].gen = 0 /\ job'[c].found = Nothing /\ job'[c].at = "idle"
    BY <1>14 DEF Idle
  <2>2. ~Writing(job'[c]) /\ Removing(job'[c]) = 0
    BY <2>1 DEF Writing, Removing
  <2> QED
    BY <1>14, <2>1, <2>2, DrawnOnceAside
<1>15. ASSUME NEW c \in Processes, Leave(c) PROVE DrawnOnce'
  BY <1>14, <1>15, LeaveMoves
<1>16. ASSUME NEW c \in Processes, Exit(c) PROVE DrawnOnce'
  BY <1>14, <1>16, ExitMoves
<1>17. ASSUME NEW c \in Processes, FailRead(c) PROVE DrawnOnce'
  <2>1. /\ Aside(c) /\ harmed' = harmed /\ job[c] \in Records
        /\ job'[c] = [job[c] EXCEPT !.at = "end", !.failed = TRUE]
    BY <1>17, FailReadMoves, JobIs
  <2>2. job'[c].at = "end" /\ job'[c].gen = job[c].gen /\ job'[c].found = job[c].found
    BY <2>1 DEF Records
  <2>3. ~Writing(job'[c]) /\ Removing(job'[c]) = 0
    BY <2>2 DEF Writing, Removing
  <2> QED
    BY <2>1, <2>2, <2>3, DrawnOnceAside
<1>18. ASSUME Damage PROVE DrawnOnce'
  <2>1. entry' = entry /\ job' = job /\ gens' = gens /\ harmed \subseteq harmed'
    BY <1>18, DamageMoves
  <2> QED
    BY <2>1 DEF DrawnOnce
<1> QED
  BY <1>1, <1>2, <1>3, <1>4, <1>5, <1>6, <1>7, <1>8, <1>9, <1>10, <1>11, <1>12, <1>13,
     <1>15, <1>16, <1>17, <1>18 DEF KeyringNext

----------------------------------------------------------------------------
(* The chunks: a manifest is whole, a writer's are there, and all fit.     *)
ChunkInv == EntryIsWhole /\ WrittenIsThere /\ ChunksFit

LEMMA ChunksAreNames ==
    ASSUME KeyringAssumption, NEW e \in Entries
    PROVE  HasManifest(e) => /\ Chunks(e) \subseteq Names
                             /\ \A n \in Chunks(e) : n[1] = e.gen
<1>1. MaxGens \in Nat /\ MaxChunks \in Nat
  BY DEF KeyringAssumption
<1> SUFFICES ASSUME HasManifest(e) PROVE Chunks(e) \subseteq Names /\ \A n \in Chunks(e) : n[1] = e.gen
  OBVIOUS
<1>2. e.gen \in 1 .. MaxGens /\ e.count \in 0 .. MaxChunks
  BY <1>1, EntryIs
<1> QED
  BY <1>1, <1>2 DEF Chunks, Names

LEMMA WriterIs ==
    ASSUME KeyringAssumption, ShapeInv, NEW c \in Processes, Writing(job[c])
    PROVE  /\ job[c].gen # 0 /\ job[c].next \in Nat \ {0}
           /\ Len(Split(job[c].secret)) \in Nat
           /\ \A i \in 1 .. job[c].next - 1 : <<job[c].gen, i>> \in Names
<1>1. /\ job[c].gen # 0 /\ job[c].gen \in 0 .. MaxGens /\ MaxGens \in Nat /\ MaxChunks \in Nat
  BY JobIs DEF Writing, KeyringAssumption
<1>2. Long(job[c].secret) /\ job[c].next \in 1 .. MaxChunks + 1
  BY <1>1, JobIs DEF PlaceOf
<1>3. \A i \in 1 .. job[c].next - 1 : i \in 1 .. MaxChunks
  BY <1>1, <1>2
<1> QED
  BY <1>1, <1>2, <1>3, LongIs DEF Names

\* A step that leaves the keyring alone.
LEMMA ChunksAside ==
    ASSUME ChunkInv, NEW c \in Processes, entry' = entry, chunk' = chunk, harmed \subseteq harmed',
           \A d \in Processes \ {c} : job'[d] = job[d],
           Writing(job'[c]) =>
               \/ job'[c].next = 1
               \/ /\ Writing(job[c]) /\ job'[c].gen = job[c].gen
                  /\ job'[c].secret = job[c].secret /\ job'[c].next = job[c].next
    PROVE  ChunkInv'
<1>1. EntryIsWhole'
  BY DEF ChunkInv, EntryIsWhole, HasManifest, Chunks
<1>2. WrittenIsThere'
  <2> SUFFICES ASSUME NEW d \in Processes, Writing(job'[d]), job'[d].gen \notin harmed',
                      NEW i \in 1 .. job'[d].next - 1
               PROVE  chunk'[<<job'[d].gen, i>>] = Split(job'[d].secret)[i]
    BY DEF WrittenIsThere
  <2>1. job'[d].next # 1
    OBVIOUS
  <2>2. /\ Writing(job[d]) /\ job'[d].gen = job[d].gen
        /\ job'[d].secret = job[d].secret /\ job'[d].next = job[d].next
    BY <2>1
  <2> QED
    BY <2>2 DEF ChunkInv, WrittenIsThere
<1>3. ChunksFit'
  BY DEF ChunkInv, ChunksFit
<1> QED
  BY <1>1, <1>2, <1>3 DEF ChunkInv

\* A chunk that is deleted is of nobody's manifest.
LEMMA ChunkGone ==
    ASSUME KeyringAssumption, ShapeInv, ShapeInv', DrawnOnce, ChunkInv, NEW c \in Processes, Aside(c),
           harmed' = harmed, NEW n \in Names, Removing(job[c]) # 0, n[1] = Removing(job[c]),
           chunk' = [chunk EXCEPT ![n] = Missing], ~Writing(job'[c])
    PROVE  ChunkInv'
<1>1. chunk'[n] = Missing /\ \A m \in Names : m # n => chunk'[m] = chunk[m]
  BY DEF ShapeInv
<1>2. entry' = entry /\ entry \in Entries
  BY DEF Aside, ShapeInv
<1>3. EntryIsWhole'
  <2> SUFFICES ASSUME HasManifest(entry), entry.gen \notin harmed, NEW m \in Chunks(entry)
               PROVE  chunk'[m] = Split(entry.secret)[m[2]]
    BY <1>2 DEF EntryIsWhole, HasManifest, Chunks
  <2>1. Removing(job[c]) # entry.gen
    BY DEF DrawnOnce
  <2>2. m \in Names /\ m # n
    BY <1>2, <2>1, ChunksAreNames
  <2> QED
    BY <1>1, <2>2 DEF ChunkInv, EntryIsWhole
<1>4. WrittenIsThere'
  <2> SUFFICES ASSUME NEW d \in Processes, Writing(job'[d]), job'[d].gen \notin harmed',
                      NEW i \in 1 .. job'[d].next - 1
               PROVE  chunk'[<<job'[d].gen, i>>] = Split(job'[d].secret)[i]
    BY DEF WrittenIsThere
  <2>1. d # c /\ job'[d] = job[d] /\ Writing(job[d])
    BY DEF Aside
  <2>2. job[d].gen # Removing(job[c])
    <3>1. job[d].gen # 0 /\ job[c].found.gen # job[d].gen /\ job[d].gen # job[c].gen
      BY <2>1, WriterIs DEF DrawnOnce
    <3> QED
      BY <3>1 DEF Removing
  <2>3. <<job[d].gen, i>> \in Names /\ <<job[d].gen, i>> # n
    BY <2>1, <2>2, WriterIs
  <2>4. chunk[<<job[d].gen, i>>] = Split(job[d].secret)[i]
    BY <2>1 DEF ChunkInv, WrittenIsThere
  <2> QED
    BY <1>1, <2>1, <2>3, <2>4
<1>5. ChunksFit'
  BY <1>1 DEF ChunkInv, ChunksFit
<1> QED
  BY <1>3, <1>4, <1>5 DEF ChunkInv

\* A chunk that is written is of the writer alone.
LEMMA ChunkWritten ==
    ASSUME KeyringAssumption, ShapeInv, ShapeInv', DrawnOnce, ChunkInv, NEW c \in Processes, Aside(c),
           harmed' = harmed, job[c].at = "write",
           chunk' = [chunk EXCEPT ![Name(job[c])] = Text(job[c])],
           job'[c].gen = job[c].gen, job'[c].secret = job[c].secret,
           Writing(job'[c]) => job'[c].next = job[c].next + 1
    PROVE  ChunkInv'
<1> DEFINE n == Name(job[c])
<1>1. /\ n \in Names /\ n = <<job[c].gen, job[c].next>> /\ Text(job[c]) \in Pieces
      /\ Text(job[c]) = Split(job[c].secret)[job[c].next]
      /\ job[c].gen # 0 /\ Writing(job[c])
  BY TextIs DEF Writing
<1> HIDE DEF n
<1>2. chunk'[n] = Text(job[c]) /\ \A m \in Names : m # n => chunk'[m] = chunk[m]
  BY <1>1 DEF ShapeInv, n
<1>3. entry' = entry /\ entry \in Entries
  BY DEF Aside, ShapeInv
<1>4. EntryIsWhole'
  <2> SUFFICES ASSUME HasManifest(entry), entry.gen \notin harmed, NEW m \in Chunks(entry)
               PROVE  chunk'[m] = Split(entry.secret)[m[2]]
    BY <1>3 DEF EntryIsWhole, HasManifest, Chunks
  <2>1. job[c].gen # entry.gen
    BY <1>1 DEF DrawnOnce
  <2>2. m \in Names /\ m # n
    BY <1>1, <1>3, <2>1, ChunksAreNames
  <2> QED
    BY <1>2, <2>2 DEF ChunkInv, EntryIsWhole
<1>5. WrittenIsThere'
  <2> SUFFICES ASSUME NEW d \in Processes, Writing(job'[d]), job'[d].gen \notin harmed',
                      NEW i \in 1 .. job'[d].next - 1
               PROVE  chunk'[<<job'[d].gen, i>>] = Split(job'[d].secret)[i]
    BY DEF WrittenIsThere
  <2>1. CASE d # c
    <3>1. job'[d] = job[d] /\ Writing(job[d]) /\ job[d].gen # 0
      BY <2>1 DEF Aside, Writing
    <3>2. job[d].gen # job[c].gen
      BY <2>1, <3>1 DEF DrawnOnce
    <3>3. <<job[d].gen, i>> \in Names /\ <<job[d].gen, i>> # n
      BY <1>1, <3>1, <3>2, WriterIs
    <3>4. chunk[<<job[d].gen, i>>] = Split(job[d].secret)[i]
      BY <3>1 DEF ChunkInv, WrittenIsThere
    <3> QED
      BY <1>2, <3>1, <3>3, <3>4
  <2>2. CASE d = c
    <3>1. i \in 1 .. (job[c].next + 1) - 1 /\ job[c].next \in Nat
      BY <2>2, JobIs
    <3>2. CASE i = job[c].next
      BY <1>1, <1>2, <2>2, <3>2
    <3>3. CASE i # job[c].next
      <4>1. i \in 1 .. job[c].next - 1
        BY <3>1, <3>3
      <4>2. <<job[c].gen, i>> \in Names /\ <<job[c].gen, i>> # n
        BY <1>1, <3>3, <4>1, WriterIs
      <4>3. chunk[<<job[c].gen, i>>] = Split(job[c].secret)[i]
        BY <1>1, <2>2, <4>1 DEF ChunkInv, WrittenIsThere
      <4> QED
        BY <1>2, <2>2, <4>2, <4>3
    <3> QED
      BY <3>2, <3>3
  <2> QED
    BY <2>1, <2>2
<1>6. ChunksFit'
  <2>1. Units(Text(job[c])) <= MaxUnits
    BY <1>1 DEF Pieces
  <2> QED
    BY <1>2, <2>1 DEF ChunkInv, ChunksFit
<1> QED
  BY <1>4, <1>5, <1>6 DEF ChunkInv

\* What is published is whole.
LEMMA ChunksPublished ==
    ASSUME KeyringAssumption, ShapeInv, ChunkInv, NEW c \in Processes,
           job[c].at = "publish", entry' = NewEntry(job[c]), chunk' = chunk,
           harmed \subseteq harmed',
           \A d \in Processes \ {c} : job'[d] = job[d], ~Writing(job'[c])
    PROVE  ChunkInv'
<1>1. EntryIsWhole'
  <2> SUFFICES ASSUME HasManifest(entry'), entry'.gen \notin harmed', NEW m \in Chunks(entry')
               PROVE  chunk[m] = Split(entry'.secret)[m[2]]
    BY DEF EntryIsWhole, HasManifest, Chunks
  <2>1. /\ job[c].gen # 0 /\ entry'.gen = job[c].gen /\ entry'.secret = job[c].secret
        /\ entry'.count = Len(Split(job[c].secret)) /\ entry'.count \in Nat
        /\ job[c].next = entry'.count + 1
    BY NewEntryIs
  <2>2. m[2] \in 1 .. job[c].next - 1 /\ m = <<job[c].gen, m[2]>>
    BY <2>1 DEF Chunks
  <2>3. Writing(job[c]) /\ job[c].gen \notin harmed
    BY <2>1 DEF Writing
  <2> QED
    BY <2>1, <2>2, <2>3 DEF ChunkInv, WrittenIsThere
<1>2. WrittenIsThere'
  BY DEF ChunkInv, WrittenIsThere
<1>3. ChunksFit'
  BY DEF ChunkInv, ChunksFit
<1> QED
  BY <1>1, <1>2, <1>3 DEF ChunkInv

LEMMA ChunkStep ==
    ASSUME KeyringAssumption, ShapeInv, DrawnOnce, ChunkInv, KeyringNext
    PROVE  ChunkInv'
<1>1. ASSUME NEW c \in Processes, Aside(c), chunk' = chunk, harmed \subseteq harmed',
             job'[c].at \notin {"write", "publish"}
      PROVE  ChunkInv'
  BY <1>1, ChunksAside DEF Aside, Writing
<1>2. ASSUME NEW c \in Processes, Begin(c) PROVE ChunkInv'
  BY <1>1, <1>2, BeginMoves
<1>3. ASSUME NEW c \in Processes, ReadEntry(c) PROVE ChunkInv'
  <2>1. job'[c].at = "part"
    BY <1>3, ReadEntryMoves, JobIs DEF Records
  <2> QED
    BY <1>1, <1>3, <2>1, ReadEntryMoves
<1>4. ASSUME NEW c \in Processes, ReadChunk(c) PROVE ChunkInv'
  <2>1. /\ job[c] \in Records /\ job[c].at = "part"
        /\ \/ job'[c] = [job[c] EXCEPT !.at = "end", !.failed = TRUE]
           \/ \E t \in Texts : job'[c] = [job[c] EXCEPT !.next = job[c].next + 1, !.told = t]
    BY <1>4, ReadChunkMoves, JobIs
  <2>2. job'[c].at \in {"part", "end"}
    BY <2>1 DEF Records
  <2> QED
    BY <1>1, <1>4, <2>2, ReadChunkMoves
<1>5. ASSUME NEW c \in Processes, CheckHash(c) PROVE ChunkInv'
  <2>1. /\ job[c] \in Records
        /\ \/ job'[c] = [job[c] EXCEPT !.at = "end", !.failed = TRUE]
           \/ job'[c] = [job[c] EXCEPT !.at = "end"]
    BY <1>5, CheckHashMoves, JobIs
  <2>2. job'[c].at = "end"
    BY <2>1 DEF Records
  <2> QED
    BY <1>1, <1>5, <2>2, CheckHashMoves
<1>6. ASSUME NEW c \in Processes, Prepare(c) PROVE ChunkInv'
  <2>1. /\ UNCHANGED <<entry, chunk, harmed>> /\ job'[c].next = 1
        /\ \A d \in Processes \ {c} : job'[d] = job[d]
    BY <1>6, PrepareMoves
  <2> QED
    BY <2>1, ChunksAside
<1>7. ASSUME NEW c \in Processes, WriteChunk(c) PROVE ChunkInv'
  BY <1>7, WriteChunkMoves, ChunkWritten
<1>8. ASSUME NEW c \in Processes, Publish(c) PROVE ChunkInv'
  <2>1. job'[c].at = "sweep"
    BY <1>8, PublishMoves
  <2>2. ~Writing(job'[c])
    BY <2>1 DEF Writing
  <2> QED
    BY <1>8, <2>2, PublishMoves, ChunksPublished
<1>9. ASSUME NEW c \in Processes, FailWrite(c) PROVE ChunkInv'
  BY <1>1, <1>9, FailWriteMoves
<1>10. ASSUME NEW c \in Processes, FailLate(c) PROVE ChunkInv'
  <2>1. /\ ShapeInv' /\ gens' = gens /\ \A d \in Processes \ {c} : job'[d] = job[d]
        /\ job'[c].at = "undo" /\ job'[c].gen = job[c].gen /\ job'[c].secret = job[c].secret
        /\ \/ /\ job[c].at = "write" /\ UNCHANGED <<entry, harmed>>
              /\ chunk' = [chunk EXCEPT ![Name(job[c])] = Text(job[c])]
           \/ /\ job[c].at = "publish" /\ chunk' = chunk
              /\ entry' = NewEntry(job[c]) /\ harmed' = harmed \union {job[c].gen}
    BY <1>10, FailLateMoves
  <2>2. ~Writing(job'[c])
    BY <2>1 DEF Writing
  <2>3. CASE /\ job[c].at = "write" /\ UNCHANGED <<entry, harmed>>
             /\ chunk' = [chunk EXCEPT ![Name(job[c])] = Text(job[c])]
    <3>1. Aside(c)
      BY <2>1, <2>3 DEF Aside, ShapeInv
    <3> QED
      BY <2>1, <2>2, <2>3, <3>1, ChunkWritten
  <2>4. CASE /\ job[c].at = "publish" /\ chunk' = chunk
             /\ entry' = NewEntry(job[c]) /\ harmed' = harmed \union {job[c].gen}
    BY <2>1, <2>2, <2>4, ChunksPublished
  <2> QED
    BY <2>1, <2>3, <2>4
<1>11. ASSUME NEW c \in Processes, DeleteWritten(c) PROVE ChunkInv'
  <2>1. /\ ShapeInv' /\ Aside(c) /\ harmed' = harmed /\ job[c].at = "undo"
        /\ job'[c].at \in {"undo", "end"}
        /\ \/ chunk' = chunk
           \/ /\ job[c].gen # 0 /\ <<job[c].gen, job[c].next - 1>> \in Names
              /\ chunk' = [chunk EXCEPT ![<<job[c].gen, job[c].next - 1>>] = Missing]
    BY <1>11, DeleteWrittenMoves
  <2>2. ~Writing(job'[c]) /\ Removing(job[c]) = job[c].gen
    BY <2>1 DEF Writing, Removing
  <2>3. CASE chunk' = chunk
    BY <1>1, <2>1, <2>3
  <2>4. CASE /\ job[c].gen # 0 /\ <<job[c].gen, job[c].next - 1>> \in Names
             /\ chunk' = [chunk EXCEPT ![<<job[c].gen, job[c].next - 1>>] = Missing]
    <3>1. <<job[c].gen, job[c].next - 1>>[1] = Removing(job[c]) /\ Removing(job[c]) # 0
      BY <2>2, <2>4
    <3> QED
      BY <2>1, <2>2, <2>4, <3>1, ChunkGone
  <2> QED
    BY <2>1, <2>3, <2>4
<1>12. ASSUME NEW c \in Processes, LookUp(c) PROVE ChunkInv'
  BY <1>1, <1>12, LookUpMoves
<1>13. ASSUME NEW c \in Processes, Erase(c) PROVE ChunkInv'
  <2>1. /\ \A d \in Processes \ {c} : job'[d] = job[d]
        /\ job'[c].at = "sweep" /\ chunk' = chunk /\ gens' = gens /\ ShapeInv'
        /\ \/ entry' = Nothing /\ harmed' = harmed
           \/ entry' = entry /\ harmed' = harmed \union {job[c].found.gen}
    BY <1>13, EraseMoves
  <2>2. CASE entry' = entry /\ harmed' = harmed \union {job[c].found.gen}
    <3>1. Aside(c)
      BY <2>1, <2>2 DEF Aside, ShapeInv
    <3> QED
      BY <1>1, <2>1, <2>2, <3>1
  <2>3. CASE entry' = Nothing /\ harmed' = harmed
    <3>1. EntryIsWhole'
      BY <2>3 DEF EntryIsWhole, HasManifest, Nothing
    <3>2. \A d \in Processes : Writing(job'[d]) => Writing(job[d]) /\ job'[d] = job[d]
      BY <2>1 DEF Writing
    <3>3. WrittenIsThere'
      BY <2>1, <2>3, <3>2 DEF ChunkInv, WrittenIsThere
    <3>4. ChunksFit'
      BY <2>1, <2>3 DEF ChunkInv, ChunksFit
    <3> QED
      BY <3>1, <3>3, <3>4 DEF ChunkInv
  <2> QED
    BY <2>1, <2>2, <2>3
<1>14. ASSUME NEW c \in Processes, Sweep(c) PROVE ChunkInv'
  <2>1. /\ ShapeInv' /\ Aside(c) /\ harmed' = harmed /\ job[c].at = "sweep"
        /\ job'[c].at \in {"sweep", "end"}
        /\ \/ chunk' = chunk
           \/ /\ <<job[c].found.gen, job[c].next>> \in Names
              /\ chunk' = [chunk EXCEPT ![<<job[c].found.gen, job[c].next>>] = Missing]
    BY <1>14, SweepMoves
  <2>2. ~Writing(job'[c]) /\ Removing(job[c]) = job[c].found.gen
    BY <2>1 DEF Writing, Removing
  <2>3. CASE chunk' = chunk
    BY <1>1, <2>1, <2>3
  <2>4. CASE /\ <<job[c].found.gen, job[c].next>> \in Names
             /\ chunk' = [chunk EXCEPT ![<<job[c].found.gen, job[c].next>>] = Missing]
    <3>1. <<job[c].found.gen, job[c].next>>[1] = Removing(job[c]) /\ Removing(job[c]) # 0
      BY <2>2, <2>4 DEF Names
    <3> QED
      BY <2>1, <2>2, <2>4, <3>1, ChunkGone
  <2> QED
    BY <2>1, <2>3, <2>4
<1>15. ASSUME NEW c \in Processes, Leave(c) PROVE ChunkInv'
  BY <1>1, <1>15, LeaveMoves DEF Idle
<1>16. ASSUME NEW c \in Processes, FailRead(c) PROVE ChunkInv'
  <2>1. job[c] \in Records /\ job'[c] = [job[c] EXCEPT !.at = "end", !.failed = TRUE]
    BY <1>16, FailReadMoves, JobIs
  <2>2. job'[c].at = "end"
    BY ONLY <2>1 DEF Records
  <2> QED
    BY <1>1, <1>16, <2>2, FailReadMoves
<1>17. ASSUME NEW c \in Processes, Exit(c) PROVE ChunkInv'
  BY <1>1, <1>17, ExitMoves DEF Idle
<1>18. ASSUME Damage PROVE ChunkInv'
  <2>1. entry' = entry /\ job' = job /\ entry \in Entries
    BY <1>18, DamageMoves DEF ShapeInv
  <2>2. PICK n \in Names : \E d \in Texts : /\ chunk' = [chunk EXCEPT ![n] = d]
                                            /\ harmed' = harmed \union {n[1]}
    BY <1>18, DamageMoves
  <2>3. harmed' = harmed \union {n[1]} /\ \A m \in Names : m # n => chunk'[m] = chunk[m]
    BY <2>2 DEF ShapeInv
  <2>4. EntryIsWhole'
    <3> SUFFICES ASSUME HasManifest(entry), entry.gen \notin harmed', NEW m \in Chunks(entry)
                 PROVE  chunk'[m] = Split(entry.secret)[m[2]]
      BY <2>1 DEF EntryIsWhole, HasManifest, Chunks
    <3>1. m \in Names /\ m # n
      BY <2>1, <2>3, ChunksAreNames
    <3> QED
      BY <2>3, <3>1 DEF ChunkInv, EntryIsWhole
  <2>5. WrittenIsThere'
    <3> SUFFICES ASSUME NEW d \in Processes, Writing(job[d]), job[d].gen \notin harmed',
                        NEW i \in 1 .. job[d].next - 1
                 PROVE  chunk'[<<job[d].gen, i>>] = Split(job[d].secret)[i]
      BY <2>1 DEF WrittenIsThere
    <3>1. <<job[d].gen, i>> \in Names /\ <<job[d].gen, i>> # n
      BY <2>3, WriterIs
    <3> QED
      BY <2>3, <3>1 DEF ChunkInv, WrittenIsThere
  <2>6. ChunksFit'
    BY <2>3 DEF ChunkInv, ChunksFit
  <2> QED
    BY <2>4, <2>5, <2>6 DEF ChunkInv
<1> QED
  BY <1>2, <1>3, <1>4, <1>5, <1>6, <1>7, <1>8, <1>9, <1>10, <1>11, <1>12, <1>13, <1>14,
     <1>15, <1>16, <1>17, <1>18 DEF KeyringNext

----------------------------------------------------------------------------
(* Nothing is left behind.                                                 *)
LEMMA NoLitterMoves ==
    ASSUME ShapeInv, NoLitter, NEW c \in Processes, \A d \in Processes \ {c} : job'[d] = job[d],
           littered => littered',
           ~littered' =>
               /\ entry' # entry => Changes(c)
               /\ job'[c].op \in {"set", "delete"} =>
                      Changes(c) \/ \A d \in Processes : ~Changes(d)
               /\ job'[c].at \in {"write", "publish", "undo", "erase"} => job'[c].found = entry'
               /\ \A n \in Names : chunk'[n] # Missing =>
                     \/ n \in Chunks(entry') \/ Owns(job'[c], n)
                     \/ chunk[n] # Missing /\ ~Owns(job[c], n) /\ n \notin Chunks(entry)
    PROVE  NoLitter'
<1> SUFFICES ASSUME ~littered'
             PROVE  /\ \A d, e \in Processes : job'[d].op \in {"set", "delete"}
                          /\ job'[e].op \in {"set", "delete"} => d = e
                    /\ \A d \in Processes : job'[d].at \in {"write", "publish", "undo", "erase"} =>
                          job'[d].found = entry'
                    /\ \A n \in Names : chunk'[n] # Missing =>
                          n \in Chunks(entry') \/ \E d \in Processes : Owns(job'[d], n)
  BY DEF NoLitter, Changes, Chunks, Owns
<1>1. /\ \A d, e \in Processes : Changes(d) /\ Changes(e) => d = e
      /\ \A d \in Processes :
            job[d].at \in {"write", "publish", "undo", "erase"} => job[d].found = entry
      /\ \A n \in Names : chunk[n] # Missing =>
            n \in Chunks(entry) \/ \E d \in Processes : Owns(job[d], n)
  BY DEF NoLitter
<1>2. \A d, e \in Processes : job'[d].op \in {"set", "delete"}
          /\ job'[e].op \in {"set", "delete"} => d = e
  BY <1>1 DEF Changes
<1>3. ASSUME NEW d \in Processes, job'[d].at \in {"write", "publish", "undo", "erase"}
      PROVE  job'[d].found = entry'
  <2>1. CASE d = c
    BY <1>3, <2>1
  <2>2. CASE d # c
    <3>1. job'[d] = job[d] /\ job[d].found = entry
      BY <1>1, <1>3, <2>2
    <3>2. Changes(d)
      BY <1>3, <3>1, JobIs DEF PlaceOf, Changes
    <3>3. entry' = entry
      BY <1>1, <2>2, <3>2
    <3> QED
      BY <3>1, <3>3
  <2> QED
    BY <2>1, <2>2
<1>4. ASSUME NEW n \in Names, chunk'[n] # Missing
      PROVE  n \in Chunks(entry') \/ \E d \in Processes : Owns(job'[d], n)
  <2>1. CASE n \in Chunks(entry') \/ Owns(job'[c], n)
    BY <2>1
  <2>2. CASE chunk[n] # Missing /\ ~Owns(job[c], n) /\ n \notin Chunks(entry)
    <3>1. PICK d \in Processes : Owns(job[d], n)
      BY <1>1, <2>2
    <3>2. job'[d] = job[d]
      BY <2>2, <3>1
    <3> QED
      BY <3>1, <3>2
  <2> QED
    BY <1>4, <2>1, <2>2
<1> QED
  BY <1>2, <1>3, <1>4

\* A step beside the keyring, of a call that goes on owning what it owned.
LEMMA NoLitterAside ==
    ASSUME ShapeInv, NoLitter, NEW c \in Processes, \A d \in Processes \ {c} : job'[d] = job[d],
           littered => littered', entry' = entry, chunk' = chunk,
           ~littered' =>
               /\ job'[c].op \in {"set", "delete"} =>
                      Changes(c) \/ \A d \in Processes : ~Changes(d)
               /\ job'[c].at \in {"write", "publish", "undo", "erase"} => job'[c].found = entry
               /\ \A n \in Names : Owns(job[c], n) => Owns(job'[c], n)
    PROVE  NoLitter'
<1>1. ~littered' => \A n \in Names : chunk'[n] # Missing =>
          \/ n \in Chunks(entry') \/ Owns(job'[c], n)
          \/ chunk[n] # Missing /\ ~Owns(job[c], n) /\ n \notin Chunks(entry)
  BY DEF Chunks
<1> QED
  BY <1>1, NoLitterMoves

\* Who owns nothing.
LEMMA OwnsNothing ==
    ASSUME NEW j, NEW n \in Names,
           j.at \notin {"write", "publish", "undo", "sweep"}
    PROVE  ~Owns(j, n)
  BY DEF Owns

LEMMA FoundIs ==
    ASSUME NoLitter, NEW c \in Processes, ~littered,
           job[c].at \in {"write", "publish", "undo", "erase"}
    PROVE  job[c].found = entry
  BY DEF NoLitter

LEMMA NoLitterStep ==
    ASSUME KeyringAssumption, ShapeInv, NoLitter, KeyringNext
    PROVE  NoLitter'
<1>1. ASSUME NEW c \in Processes, Begin(c) PROVE NoLitter'
  <2>1. /\ Aside(c) /\ chunk' = chunk /\ job[c] = Idle /\ job'[c].at = "read"
    BY <1>1, BeginMoves
  <2>2. \/ job'[c].op = "get" /\ littered' = littered
        \/ littered' = (littered \/ \E d \in Processes : Changes(d))
    <3>1. CASE Go(c, [Idle EXCEPT !.op = "get", !.at = "read"]) /\ Litter(FALSE)
      <4>1. job'[c] = [Idle EXCEPT !.op = "get", !.at = "read"] /\ littered' = littered
        BY <3>1 DEF Go, ShapeInv, Litter
      <4> QED
        BY <4>1 DEF Idle
    <3>2. CASE Litter(\E d \in Processes : Changes(d))
      BY <3>2 DEF Litter
    <3> QED
      BY <1>1, <3>1, <3>2 DEF Begin
  <2>3. ~littered' => /\ ~littered
                      /\ job'[c].op = "get" \/ \A d \in Processes : ~Changes(d)
    BY <2>2 DEF ShapeInv
  <2>4. \A n \in Names : ~Owns(job[c], n)
    BY <2>1, OwnsNothing DEF Idle
  <2> QED
    BY <2>1, <2>3, <2>4, NoLitterAside DEF Aside
\* A call that changes nothing owns nothing.
<1>2. ASSUME NEW c \in Processes, Aside(c), UNCHANGED <<chunk, littered>>,
             job'[c].op = job[c].op, job[c].at \in {"read", "part", "end"},
             job'[c].at \in {"part", "end"}
      PROVE  NoLitter'
  <2>1. \A n \in Names : ~Owns(job[c], n)
    BY <1>2, OwnsNothing
  <2>2. job'[c].op \in {"set", "delete"} => Changes(c)
    BY <1>2 DEF Changes
  <2> QED
    BY <1>2, <2>1, <2>2, NoLitterAside DEF Aside
<1>3. ASSUME NEW c \in Processes, ReadEntry(c) PROVE NoLitter'
  <2>1. PICK t : /\ job[c] \in Records /\ job[c].at = "read"
                 /\ job'[c] = [job[c] EXCEPT !.at = "part", !.found = entry, !.done = TRUE,
                                   !.told = t]
    BY <1>3, ReadEntryMoves, JobIs
  <2>2. job'[c].at = "part" /\ job'[c].op = job[c].op
    BY ONLY <2>1 DEF Records
  <2> QED
    BY <1>2, <1>3, <2>1, <2>2, ReadEntryMoves
<1>4. ASSUME NEW c \in Processes, ReadChunk(c) PROVE NoLitter'
  <2>1. /\ job[c] \in Records /\ job[c].at = "part"
        /\ \/ job'[c] = [job[c] EXCEPT !.at = "end", !.failed = TRUE]
           \/ \E t \in Texts : job'[c] = [job[c] EXCEPT !.next = job[c].next + 1, !.told = t]
    BY <1>4, ReadChunkMoves, JobIs
  <2>2. job'[c].at \in {"part", "end"} /\ job'[c].op = job[c].op
    BY <2>1 DEF Records
  <2> QED
    BY <1>2, <1>4, <2>1, <2>2, ReadChunkMoves
<1>5. ASSUME NEW c \in Processes, CheckHash(c) PROVE NoLitter'
  <2>1. /\ job[c] \in Records /\ job[c].at = "part"
        /\ \/ job'[c] = [job[c] EXCEPT !.at = "end", !.failed = TRUE]
           \/ job'[c] = [job[c] EXCEPT !.at = "end"]
    BY <1>5, CheckHashMoves, JobIs
  <2>2. job'[c].at = "end" /\ job'[c].op = job[c].op
    BY <2>1 DEF Records
  <2> QED
    BY <1>2, <1>5, <2>1, <2>2, CheckHashMoves
<1>6. ASSUME NEW c \in Processes, Prepare(c) PROVE NoLitter'
  <2>1. /\ UNCHANGED <<entry, chunk, littered>> /\ \A d \in Processes \ {c} : job'[d] = job[d]
        /\ job'[c].found = entry /\ job[c].at = "read" /\ job[c].op = "set"
    BY <1>6, PrepareMoves
  <2>2. \A n \in Names : ~Owns(job[c], n)
    BY <2>1, OwnsNothing
  <2>3. Changes(c)
    BY <2>1 DEF Changes
  <2> QED
    BY <2>1, <2>2, <2>3, NoLitterAside
<1>7. ASSUME NEW c \in Processes, WriteChunk(c) PROVE NoLitter'
  <2>1. /\ Aside(c) /\ littered' = littered /\ job[c].at = "write"
        /\ job'[c].at \in {"write", "publish"} /\ job'[c].op = job[c].op
        /\ job'[c].gen = job[c].gen /\ job'[c].found = job[c].found
        /\ job'[c].next = job[c].next + 1
        /\ chunk' = [chunk EXCEPT ![Name(job[c])] = Text(job[c])]
    BY <1>7, WriteChunkMoves
  <2>2. /\ Name(job[c]) \in Names /\ Name(job[c]) = <<job[c].gen, job[c].next>>
        /\ job[c].op = "set" /\ job[c].next \in Nat
    BY <2>1, TextIs, JobIs
  <2>3. \A n \in Names : n # Name(job[c]) => chunk'[n] = chunk[n]
    BY <2>1 DEF ShapeInv
  <2>4. \A n \in Names : n[2] \in Nat
    BY DEF Names, KeyringAssumption
  <2>5. \A n \in Names : Owns(job[c], n) => Owns(job'[c], n)
    BY <2>1, <2>2, <2>4 DEF Owns
  <2>6. Owns(job'[c], Name(job[c]))
    BY <2>1, <2>2 DEF Owns
  <2>7. Changes(c) /\ entry' = entry /\ \A d \in Processes \ {c} : job'[d] = job[d]
    BY <2>1, <2>2 DEF Changes, Aside
  <2>8. ~littered' => job'[c].found = entry'
    BY <2>1, <2>7, FoundIs
  <2>9. ASSUME NEW n \in Names, chunk'[n] # Missing
        PROVE  \/ n \in Chunks(entry') \/ Owns(job'[c], n)
               \/ chunk[n] # Missing /\ ~Owns(job[c], n) /\ n \notin Chunks(entry)
    <3>1. Chunks(entry') = Chunks(entry)
      BY <2>7 DEF Chunks
    <3> QED
      BY <2>3, <2>5, <2>6, <2>9, <3>1
  <2> QED
    BY <2>1, <2>7, <2>8, <2>9, NoLitterMoves
<1>8. ASSUME NEW c \in Processes, Publish(c) PROVE NoLitter'
  <2>1. /\ UNCHANGED <<chunk, littered>> /\ \A d \in Processes \ {c} : job'[d] = job[d]
        /\ job[c].at = "publish" /\ entry' = NewEntry(job[c]) /\ job'[c].at = "sweep"
        /\ job'[c].op = job[c].op /\ job'[c].found = job[c].found /\ job'[c].next = 1
    BY <1>8, PublishMoves
  <2>2. /\ job[c].op = "set" /\ NewEntry(job[c]).gen = job[c].gen
        /\ NewEntry(job[c]).count = IF job[c].gen = 0 THEN 0 ELSE Len(Split(job[c].secret))
        /\ job[c].gen # 0 => /\ job[c].next = Len(Split(job[c].secret)) + 1
                             /\ Len(Split(job[c].secret)) \in Nat
    BY <2>1, NewEntryIs
  <2>3. Changes(c)
    BY <2>2 DEF Changes
  <2>4. \A n \in Names : n[1] # 0 /\ n[2] \in Nat /\ n[2] >= 1 /\ n = <<n[1], n[2]>>
    BY DEF Names, KeyringAssumption
  <2>5. ASSUME NEW n \in Names, Owns(job[c], n) PROVE n \in Chunks(entry')
    <3>1. n[1] = job[c].gen /\ n[2] < job[c].next
      BY <2>1, <2>5 DEF Owns
    <3>2. n[2] \in 1 .. entry'.count /\ n[1] = entry'.gen
      BY <2>1, <2>2, <2>4, <3>1
    <3> QED
      BY <2>4, <3>2 DEF Chunks
  <2>6. ASSUME NEW n \in Names, n \in Chunks(entry), ~littered PROVE Owns(job'[c], n)
    <3>1. job[c].found = entry
      BY <2>1, <2>6, FoundIs
    <3>2. n[1] = entry.gen /\ n[2] \in 1 .. entry.count
      BY <2>6 DEF Chunks
    <3> QED
      BY <2>1, <3>1, <3>2 DEF Owns
  <2> QED
    BY <2>1, <2>3, <2>5, <2>6, NoLitterMoves
<1>9. ASSUME NEW c \in Processes, FailWrite(c) PROVE NoLitter'
  <2>1. /\ Aside(c) /\ UNCHANGED <<chunk, littered>> /\ job[c].at \in {"write", "publish"}
        /\ job'[c].at = "undo" /\ job'[c].op = job[c].op /\ job'[c].gen = job[c].gen
        /\ job'[c].found = job[c].found /\ job'[c].next = job[c].next
    BY <1>9, FailWriteMoves
  <2>2. \A n \in Names : Owns(job[c], n) => Owns(job'[c], n)
    BY <2>1 DEF Owns
  <2>3. job'[c].op \in {"set", "delete"} => Changes(c)
    BY <2>1 DEF Changes
  <2>4. ~littered' => job'[c].found = entry
    BY <2>1, FoundIs
  <2> QED
    BY <2>1, <2>2, <2>3, <2>4, NoLitterAside DEF Aside
<1>10. ASSUME NEW c \in Processes, FailLate(c) PROVE NoLitter'
  BY <1>10, FailLateMoves DEF NoLitter
<1>11. ASSUME NEW c \in Processes, DeleteWritten(c) PROVE NoLitter'
  <2>1. /\ Aside(c) /\ (littered => littered') /\ job[c].at = "undo" /\ job[c].op = "set"
        /\ job'[c].op = "set" /\ job'[c].gen = job[c].gen /\ job'[c].found = job[c].found
        /\ \/ /\ job'[c].at = "undo" /\ job'[c].next = job[c].next - 1
              /\ <<job[c].gen, job[c].next - 1>> \in Names
              /\ \/ /\ chunk' = [chunk EXCEPT ![<<job[c].gen, job[c].next - 1>>] = Missing]
                    /\ littered' = littered
                 \/ chunk' = chunk /\ littered'
           \/ /\ job[c].gen = 0 \/ job[c].next = 1
              /\ job'[c].at = "end" /\ UNCHANGED <<chunk, littered>>
    BY <1>11, DeleteWrittenMoves
  <2>2. Changes(c) /\ entry' = entry /\ \A d \in Processes \ {c} : job'[d] = job[d]
    BY <2>1 DEF Changes, Aside
  <2>3. ~littered' => job'[c].found = entry
    BY <2>1, FoundIs
  <2>4. \A n \in Names : n[1] # 0 /\ n[2] \in Nat /\ n[2] >= 1 /\ n = <<n[1], n[2]>>
    BY DEF Names, KeyringAssumption
  <2>5. CASE littered'
    BY <2>5 DEF NoLitter
  <2>6. CASE /\ job[c].gen = 0 \/ job[c].next = 1
             /\ job'[c].at = "end" /\ UNCHANGED <<chunk, littered>>
    <3>1. \A n \in Names : ~Owns(job[c], n)
      BY <2>1, <2>4, <2>6 DEF Owns
    <3> QED
      BY <2>1, <2>2, <2>6, <3>1, NoLitterAside
  <2>7. CASE /\ job'[c].at = "undo" /\ job'[c].next = job[c].next - 1
             /\ <<job[c].gen, job[c].next - 1>> \in Names
             /\ chunk' = [chunk EXCEPT ![<<job[c].gen, job[c].next - 1>>] = Missing]
    <3> DEFINE m == <<job[c].gen, job[c].next - 1>>
    <3>1. chunk'[m] = Missing /\ \A n \in Names : n # m => chunk'[n] = chunk[n]
      BY <2>7 DEF ShapeInv
    <3>2. ASSUME NEW n \in Names, Owns(job[c], n), n # m PROVE Owns(job'[c], n)
      <4>1. n[1] = job[c].gen /\ n[2] < job[c].next
        BY <2>1, <3>2 DEF Owns
      <4>2. n[2] # job[c].next - 1
        BY <2>4, <3>2, <4>1
      <4>3. n[2] < job[c].next - 1
        BY <2>4, <4>1, <4>2, JobIs
      <4> QED
        BY <2>1, <2>7, <4>1, <4>3 DEF Owns
    <3> HIDE DEF m
    <3>3. ASSUME NEW n \in Names, chunk'[n] # Missing
          PROVE  \/ n \in Chunks(entry') \/ Owns(job'[c], n)
                 \/ chunk[n] # Missing /\ ~Owns(job[c], n) /\ n \notin Chunks(entry)
      <4>1. Chunks(entry') = Chunks(entry)
        BY <2>2 DEF Chunks
      <4> QED
        BY <3>1, <3>2, <3>3, <4>1
    <3> QED
      BY <2>1, <2>2, <2>3, <3>3, NoLitterMoves
  <2> QED
    BY <2>1, <2>5, <2>6, <2>7
<1>12. ASSUME NEW c \in Processes, LookUp(c) PROVE NoLitter'
  <2>1. /\ Aside(c) /\ UNCHANGED <<chunk, littered>> /\ job[c].at = "read"
        /\ job[c].op = "delete" /\ job'[c].found = entry
    BY <1>12, LookUpMoves
  <2>2. Changes(c) /\ \A n \in Names : ~Owns(job[c], n)
    BY <2>1, OwnsNothing DEF Changes
  <2> QED
    BY <2>1, <2>2, NoLitterAside DEF Aside
<1>13. ASSUME NEW c \in Processes, Erase(c) PROVE NoLitter'
  <2>1. /\ UNCHANGED <<chunk, littered>> /\ \A d \in Processes \ {c} : job'[d] = job[d]
        /\ job[c].at = "erase" /\ job[c].op = "delete" /\ job'[c].at = "sweep"
        /\ job'[c].found = job[c].found /\ job'[c].next = 1
    BY <1>13, EraseMoves
  <2>2. Changes(c) /\ \A n \in Names : ~Owns(job[c], n)
    BY <2>1, OwnsNothing DEF Changes
  <2>3. ASSUME NEW n \in Names, n \in Chunks(entry), ~littered PROVE Owns(job'[c], n)
    <3>1. job[c].found = entry
      BY <2>1, <2>3, FoundIs
    <3>2. n[1] = entry.gen /\ n[2] \in 1 .. entry.count
      BY <2>3 DEF Chunks
    <3> QED
      BY <2>1, <3>1, <3>2 DEF Owns
  <2> QED
    BY <2>1, <2>2, <2>3, NoLitterMoves
<1>14. ASSUME NEW c \in Processes, Sweep(c) PROVE NoLitter'
  <2>1. /\ Aside(c) /\ (littered => littered') /\ job[c].at = "sweep"
        /\ job[c].op \in {"set", "delete"} /\ job'[c].found = job[c].found
        /\ \/ /\ job'[c].at = "sweep" /\ job'[c].next = job[c].next + 1
              /\ <<job[c].found.gen, job[c].next>> \in Names
              /\ \/ /\ chunk' = [chunk EXCEPT ![<<job[c].found.gen, job[c].next>>] = Missing]
                    /\ littered' = littered
                 \/ chunk' = chunk /\ littered'
           \/ /\ job[c].next > job[c].found.count
              /\ job'[c].at = "end" /\ UNCHANGED <<chunk, littered>>
    BY <1>14, SweepMoves
  <2>2. Changes(c) /\ entry' = entry /\ \A d \in Processes \ {c} : job'[d] = job[d]
    BY <2>1 DEF Changes, Aside
  <2>3. \A n \in Names : n[2] \in Nat /\ n = <<n[1], n[2]>>
    BY DEF Names, KeyringAssumption
  <2>4. job[c].next \in Nat /\ job[c].found.count \in Nat
    BY JobIs, EntryIs DEF KeyringAssumption
  <2>5. CASE littered'
    BY <2>5 DEF NoLitter
  <2>6. CASE /\ job[c].next > job[c].found.count
             /\ job'[c].at = "end" /\ UNCHANGED <<chunk, littered>>
    <3>1. \A n \in Names : ~Owns(job[c], n)
      BY <2>1, <2>3, <2>4, <2>6 DEF Owns
    <3> QED
      BY <2>1, <2>2, <2>6, <3>1, NoLitterAside
  <2>7. CASE /\ job'[c].at = "sweep" /\ job'[c].next = job[c].next + 1
             /\ <<job[c].found.gen, job[c].next>> \in Names
             /\ chunk' = [chunk EXCEPT ![<<job[c].found.gen, job[c].next>>] = Missing]
    <3> DEFINE m == <<job[c].found.gen, job[c].next>>
    <3>1. chunk'[m] = Missing /\ \A n \in Names : n # m => chunk'[n] = chunk[n]
      BY <2>7 DEF ShapeInv
    <3>2. ASSUME NEW n \in Names, Owns(job[c], n), n # m PROVE Owns(job'[c], n)
      <4>1. n[1] = job[c].found.gen /\ job[c].next <= n[2] /\ n[2] <= job[c].found.count
        BY <2>1, <3>2 DEF Owns
      <4>2. n[2] # job[c].next
        BY <2>3, <3>2, <4>1
      <4>3. job[c].next + 1 <= n[2]
        BY <2>3, <2>4, <4>1, <4>2
      <4> QED
        BY <2>1, <2>7, <4>1, <4>3 DEF Owns
    <3> HIDE DEF m
    <3>3. ASSUME NEW n \in Names, chunk'[n] # Missing
          PROVE  \/ n \in Chunks(entry') \/ Owns(job'[c], n)
                 \/ chunk[n] # Missing /\ ~Owns(job[c], n) /\ n \notin Chunks(entry)
      <4>1. Chunks(entry') = Chunks(entry)
        BY <2>2 DEF Chunks
      <4> QED
        BY <3>1, <3>2, <3>3, <4>1
    <3> QED
      BY <2>1, <2>2, <2>7, <3>3, NoLitterMoves
  <2> QED
    BY <2>1, <2>5, <2>6, <2>7
<1>15. ASSUME NEW c \in Processes, Leave(c) PROVE NoLitter'
  <2>1. Aside(c) /\ UNCHANGED <<chunk, littered>> /\ job[c].at = "end" /\ job'[c] = Idle
    BY <1>15, LeaveMoves
  <2>2. /\ \A n \in Names : ~Owns(job[c], n)
        /\ job'[c].op = "none" /\ job'[c].at = "idle"
    BY <2>1, OwnsNothing DEF Idle
  <2> QED
    BY <2>1, <2>2, NoLitterAside DEF Aside
<1>16. ASSUME NEW c \in Processes, FailRead(c) PROVE NoLitter'
  <2>1. /\ job[c] \in Records /\ job[c].at \in {"read", "part"}
        /\ job'[c] = [job[c] EXCEPT !.at = "end", !.failed = TRUE]
    BY <1>16, FailReadMoves, JobIs
  <2>2. job'[c].at = "end" /\ job'[c].op = job[c].op
    BY <2>1 DEF Records
  <2> QED
    BY <1>2, <1>16, <2>1, <2>2, FailReadMoves
<1>17. ASSUME NEW c \in Processes, Exit(c) PROVE NoLitter'
  <2>1. Aside(c) /\ chunk' = chunk /\ littered' = (littered \/ Changes(c)) /\ job'[c] = Idle
    BY <1>17, ExitMoves
  <2>2. ~Changes(c) => \A n \in Names : ~Owns(job[c], n)
    BY JobIs DEF Changes, PlaceOf, Owns
  <2>3. job'[c].op = "none" /\ job'[c].at = "idle"
    BY <2>1 DEF Idle
  <2>4. (littered => littered') /\ (~littered' => ~Changes(c))
    BY <2>1
  <2> QED
    BY <2>1, <2>2, <2>3, <2>4, NoLitterAside DEF Aside
<1>18. ASSUME Damage PROVE NoLitter'
  <2>1. entry' = entry /\ job' = job /\ littered' = littered
    BY <1>18, DamageMoves
  <2>2. PICK n \in Names : \E d \in Texts : /\ chunk[n] # Missing
                                            /\ chunk' = [chunk EXCEPT ![n] = d]
    BY <1>18, DamageMoves
  <2>3. \A m \in Names : chunk'[m] # Missing => chunk[m] # Missing
    BY <2>2 DEF ShapeInv
  <2> QED
    BY <2>1, <2>3 DEF NoLitter, Changes, Chunks, Owns
<1> QED
  BY <1>1, <1>3, <1>4, <1>5, <1>6, <1>7, <1>8, <1>9, <1>10, <1>11, <1>12, <1>13, <1>14,
     <1>15, <1>16, <1>17, <1>18 DEF KeyringNext

----------------------------------------------------------------------------
LEMMA KeyringInitInv ==
    ASSUME KeyringAssumption, KeyringInit
    PROVE  KeyringInv
<1>1. /\ entry = Nothing /\ chunk = [n \in Names |-> Missing] /\ job = [c \in Processes |-> Idle]
      /\ gens = 0 /\ calls = 0 /\ faults = 0 /\ harmed = {} /\ littered = FALSE
  BY DEF KeyringInit
<1>2. Nothing \in Entries /\ Idle \in Jobs /\ Missing \in Texts /\ Nothing.gen = 0
  BY NothingIs, IdleIs, KeptAreTexts DEF Missing
<1>3. \A c \in Processes : /\ job[c].at = "idle" /\ job[c].op = "none" /\ job[c].gen = 0
                         /\ job[c].found.gen = 0
  BY <1>1, <1>2 DEF Idle
<1>4. \A n \in Names : chunk[n] = Missing
  BY <1>1
<1>5. ShapeInv
  <2>1. chunk \in [Names -> Texts] /\ job \in [Processes -> Jobs] /\ entry \in Entries
    BY <1>1, <1>2
  <2>2. /\ gens \in 0 .. MaxGens /\ calls \in Nat /\ faults \in Nat
        /\ harmed \subseteq 0 .. MaxGens /\ littered \in BOOLEAN
    <3>1. MaxGens \in Nat
      BY DEF KeyringAssumption
    <3>2. {} \subseteq 0 .. MaxGens /\ FALSE \in BOOLEAN
      OBVIOUS
    <3>3. littered \in BOOLEAN
      BY <1>1, <3>2
    <3> QED
      BY <1>1, <3>1, <3>2, <3>3
  <2> QED
    BY <2>1, <2>2 DEF ShapeInv
<1>6. DrawnOnce
  BY <1>1, <1>2, <1>3 DEF DrawnOnce, Writing, Removing
<1>7. EntryIsWhole
  BY <1>1 DEF EntryIsWhole, HasManifest, Nothing
<1>8. WrittenIsThere
  BY <1>3 DEF WrittenIsThere, Writing
<1>9. ChunksFit
  BY <1>4 DEF ChunksFit
<1>10. NoLitter
  BY <1>3, <1>4 DEF NoLitter, Changes
<1> QED
  BY <1>5, <1>6, <1>7, <1>8, <1>9, <1>10 DEF KeyringInv

(* The invariant of the keyring, whatever processes do at the same time    *)
(* and wherever they end (SystemKeyringStore).                             *)
THEOREM KeyringSafety ==
    ASSUME KeyringAssumption
    PROVE  KeyringSpec => []KeyringInv
<1>1. KeyringInit => KeyringInv
  BY KeyringInitInv
<1>2. KeyringInv /\ [KeyringNext]_keyringVars => KeyringInv'
  <2> SUFFICES ASSUME KeyringInv, [KeyringNext]_keyringVars PROVE KeyringInv'
    OBVIOUS
  <2>1. /\ ShapeInv /\ DrawnOnce /\ EntryIsWhole /\ WrittenIsThere /\ ChunksFit /\ NoLitter
    BY DEF KeyringInv
  <2>2. CASE KeyringNext
    <3>1. ShapeInv'
      BY <2>1, <2>2, ShapeStep
    <3>2. DrawnOnce'
      BY <2>1, <2>2, DrawnOnceStep
    <3>3. ChunkInv'
      BY <2>1, <2>2, ChunkStep DEF ChunkInv
    <3>4. NoLitter'
      BY <2>1, <2>2, NoLitterStep
    <3> QED
      BY <3>1, <3>2, <3>3, <3>4 DEF KeyringInv, ChunkInv
  <2>3. CASE UNCHANGED keyringVars
    BY <2>1, <2>3 DEF KeyringInv, ShapeInv, DrawnOnce, EntryIsWhole, WrittenIsThere, ChunksFit,
       NoLitter, keyringVars, entryVars, pastVars, Changes, Chunks, HasManifest
  <2> QED
    BY <2>2, <2>3
<1> QED
  BY <1>1, <1>2, PTL DEF KeyringSpec

(* The manifest under the key has all its chunks, each of its own secret,  *)
(* for any number of processes that set, delete and clean up at once.      *)
THEOREM KeyringEntryIsWhole ==
    ASSUME KeyringAssumption
    PROVE  KeyringSpec => []EntryIsWhole
<1>1. KeyringInv => EntryIsWhole
  BY DEF KeyringInv
<1> QED
  BY <1>1, KeyringSafety, PTL

(* When nobody changes the key, no piece is left of a secret that was      *)
(* replaced, deleted or refused half-way.                                  *)
THEOREM KeyringNoPieceIsLeft ==
    ASSUME KeyringAssumption
    PROVE  KeyringSpec => []NoPieceIsLeft
<1>1. KeyringInv => NoPieceIsLeft
  <2> SUFFICES ASSUME KeyringInv, ~littered, \A c \in Processes : ~Changes(c),
                      NEW n \in Names, chunk[n] # Missing
               PROVE  HasManifest(entry) /\ n \in Chunks(entry)
    BY DEF NoPieceIsLeft
  <2>1. ShapeInv /\ NoLitter
    BY DEF KeyringInv
  <2>2. \A c \in Processes : ~Owns(job[c], n)
    BY <2>1, JobIs DEF PlaceOf, Owns, Changes
  <2>3. n \in Chunks(entry)
    BY <2>1, <2>2 DEF NoLitter
  <2>4. entry.count # 0 /\ entry \in Entries
    BY <2>1, <2>3 DEF Chunks, ShapeInv
  <2> QED
    BY <2>3, <2>4, EntryIs
<1> QED
  BY <1>1, KeyringSafety, PTL

(* No entry is longer than the keyring of the system takes, wherever the   *)
(* wide characters of a secret fall (split_secret_chunks).                 *)
THEOREM KeyringEntriesFit ==
    ASSUME KeyringAssumption
    PROVE  KeyringSpec => []EntriesFit
<1>1. KeyringInv => EntriesFit
  <2> SUFFICES ASSUME KeyringInv PROVE EntriesFit
    OBVIOUS
  <2>1. entry \in Entries /\ ChunksFit
    BY DEF KeyringInv, ShapeInv
  <2>2. entry.kind = "plain" => Units(entry.secret) <= MaxUnits
    BY <2>1, EntryIs DEF HasManifest, Short
  <2> QED
    BY <2>1, <2>2 DEF EntriesFit, ChunksFit
<1> QED
  BY <1>1, KeyringSafety, PTL

----------------------------------------------------------------------------
(* Seen from outside the keyring is a store of whole secrets.              *)
Seen == [c \in Processes |-> AsCall(job[c])]
Shown == Told(entry.secret)
Result(j) ==
    IF j.op # "get" \/ ~j.done THEN NoSecret
    ELSE IF j.at = "end" /\ ~j.failed THEN Told(j.told) ELSE Told(j.found.secret)
View(op, secret, done, result, outcome) ==
    [op |-> op, secret |-> secret, done |-> done, result |-> result, outcome |-> outcome]

LEMMA AsCallIs ==
    ASSUME NEW j
    PROVE  AsCall(j) = View(j.op, IF j.op = "set" THEN j.secret ELSE NoSecret, j.done, Result(j),
                            IF j.at # "end" THEN "pending"
                            ELSE IF j.failed THEN "error" ELSE "ok")
<1>1. Outcome(j) = IF j.at # "end" THEN "pending" ELSE IF j.failed THEN "error" ELSE "ok"
  BY DEF Outcome
<1>2. (IF j.op # "get" \/ ~j.done THEN NoSecret
       ELSE IF Outcome(j) = "ok" THEN Told(j.told) ELSE Told(j.found.secret)) = Result(j)
  BY <1>1 DEF Result
<1> QED
  BY <1>1, <1>2 DEF AsCall, View

LEMMA DoneView ==
    ASSUME NEW op, NEW s, NEW done, NEW r, NEW outcome, NEW new
    PROVE  [View(op, s, done, r, outcome) EXCEPT !.done = new] = View(op, s, new, r, outcome)
  BY DEF View

LEMMA ResultView ==
    ASSUME NEW op, NEW s, NEW done, NEW r, NEW outcome, NEW new
    PROVE  [View(op, s, done, r, outcome) EXCEPT !.result = new] = View(op, s, done, new, outcome)
  BY DEF View

LEMMA OutcomeView ==
    ASSUME NEW op, NEW s, NEW done, NEW r, NEW outcome, NEW new
    PROVE  [View(op, s, done, r, outcome) EXCEPT !.outcome = new] = View(op, s, done, r, new)
  BY DEF View

(* The same of two records that are views.                                 *)
LEMMA OutcomeOfView ==
    ASSUME NEW op, NEW s, NEW done, NEW r, NEW outcome, NEW new, NEW v, NEW w,
           v = View(op, s, done, r, outcome), w = View(op, s, done, r, new)
    PROVE  [v EXCEPT !.outcome = new] = w
  BY OutcomeView

\* A call that takes effect.
LEMMA Effective ==
    ASSUME NEW v, NEW new, new = TRUE
    PROVE  [v EXCEPT !.done = TRUE] = [v EXCEPT !.done = new]
  OBVIOUS

\* The call that a client of the store sees moves with the client's own.
LEMMA SeenMoves ==
    ASSUME ShapeInv, ShapeInv', NEW c \in Processes, \A d \in Processes \ {c} : job'[d] = job[d]
    PROVE  /\ Seen[c] = AsCall(job[c])
           /\ \A r : AsCall(job'[c]) = r => Seen' = [Seen EXCEPT ![c] = r]
<1>1. Seen[c] = AsCall(job[c])
  BY DEF Seen
<1>2. ASSUME NEW r, AsCall(job'[c]) = r PROVE Seen' = [Seen EXCEPT ![c] = r]
  <2>1. Seen' = [d \in Processes |-> AsCall(job'[d])]
    BY DEF Seen, AsCall, Outcome, Told
  <2>2. [Seen EXCEPT ![c] = r] = [d \in Processes |-> IF d = c THEN r ELSE AsCall(job[d])]
    BY DEF Seen
  <2> QED
    BY <1>2, <2>1, <2>2
<1> QED
  BY <1>1, <1>2

LEMMA IdleSeen == AsCall(Idle) = Contract!Free
  BY AsCallIs DEF Idle, Result, View, Contract!Free

LEMMA BusySeen ==
    ASSUME ShapeInv, NEW c \in Processes, job[c].at # "idle"
    PROVE  Seen[c] # Contract!Free /\ (job[c].at # "end" => Seen[c].outcome = "pending")
<1>1. job[c].op # "none"
  BY JobIs DEF PlaceOf
<1>2. AsCall(job[c]).op = job[c].op /\ (job[c].at # "end" => AsCall(job[c]).outcome = "pending")
  BY AsCallIs DEF View
<1>3. Seen[c] = AsCall(job[c])
  BY DEF Seen
<1> QED
  BY <1>1, <1>2, <1>3 DEF Contract!Free

LEMMA ContractIs ==
    /\ Contract!secretVars = <<Shown, Seen>>
    /\ \A c : Contract!Pending(c) <=> Seen[c] # Contract!Free /\ Seen[c].outcome = "pending"
    /\ \A c : Contract!Fail(c) <=>
          /\ Contract!Pending(c)
          /\ Seen' = [Seen EXCEPT ![c] = [Seen[c] EXCEPT !.outcome = "error"]] /\ Shown' = Shown
    /\ \A c : Contract!Return(c) <=>
          /\ Contract!Pending(c) /\ Seen[c].done
          /\ Seen' = [Seen EXCEPT ![c] = [Seen[c] EXCEPT !.outcome = "ok"]] /\ Shown' = Shown
    /\ \A c : Contract!Leave(c) <=>
          /\ Seen[c] # Contract!Free
          /\ Seen' = [Seen EXCEPT ![c] = Contract!Free] /\ Shown' = Shown
  BY DEF Contract!secretVars, Contract!Pending, Contract!Fail, Contract!Return, Contract!Leave,
         Seen, Shown

\* A call that goes on unseen, and one that is given up.
LEMMA StutterSeen ==
    ASSUME ShapeInv, ShapeInv', NEW c \in Processes, \A d \in Processes \ {c} : job'[d] = job[d],
           entry' = entry, AsCall(job'[c]) = AsCall(job[c])
    PROVE  UNCHANGED Contract!secretVars
<1>1. Seen' = [Seen EXCEPT ![c] = AsCall(job[c])] /\ Seen[c] = AsCall(job[c])
  BY SeenMoves
<1>2. [Seen EXCEPT ![c] = Seen[c]] = Seen
  BY DEF Seen
<1>3. Shown' = Shown
  BY DEF Shown, Told
<1> QED
  BY <1>1, <1>2, <1>3, ContractIs DEF Seen, Shown, Contract!secretVars

LEMMA FailSeen ==
    ASSUME ShapeInv, ShapeInv', NEW c \in Processes, \A d \in Processes \ {c} : job'[d] = job[d],
           entry' = entry, job[c].at \notin {"idle", "end"},
           AsCall(job'[c]) = View(AsCall(job[c]).op, AsCall(job[c]).secret, AsCall(job[c]).done,
                                  AsCall(job[c]).result, "error")
    PROVE  Contract!Fail(c)
<1>1. Contract!Pending(c)
  BY BusySeen, ContractIs
<1>2. AsCall(job'[c]) = [Seen[c] EXCEPT !.outcome = "error"]
  <2> DEFINE v == AsCall(job[c])
  <2>1. v = View(v.op, v.secret, v.done, v.result, "pending")
    <3>1. PICK op, s, done, res : v = View(op, s, done, res, "pending")
      BY AsCallIs
    <3> HIDE DEF v
    <3> QED
      BY <3>1 DEF View
  <2>2. AsCall(job'[c]) = View(v.op, v.secret, v.done, v.result, "error")
    OBVIOUS
  <2> HIDE DEF v
  <2>3. [v EXCEPT !.outcome = "error"] = AsCall(job'[c])
    BY ONLY <2>1, <2>2, OutcomeOfView
  <2>4. Seen[c] = v
    BY SeenMoves DEF v
  <2> QED
    BY ONLY <2>3, <2>4
<1>3. Seen' = [Seen EXCEPT ![c] = [Seen[c] EXCEPT !.outcome = "error"]]
  BY <1>2, SeenMoves
<1>4. Shown' = Shown
  BY DEF Shown, Told
<1> QED
  BY <1>1, <1>3, <1>4, ContractIs

LEMMA LeaveSeen ==
    ASSUME ShapeInv, ShapeInv', NEW c \in Processes, \A d \in Processes \ {c} : job'[d] = job[d],
           entry' = entry, job[c].at # "idle", job'[c] = Idle
    PROVE  Contract!Leave(c)
<1>1. Seen' = [Seen EXCEPT ![c] = Contract!Free]
  BY SeenMoves, IdleSeen
<1>2. Shown' = Shown
  BY DEF Shown, Told
<1> QED
  BY <1>1, <1>2, BusySeen, ContractIs

\* The entry is written: the secret is stored.
LEMMA SetSeen ==
    ASSUME KeyringAssumption, ShapeInv, ShapeInv', NEW c \in Processes,
           \A d \in Processes \ {c} : job'[d] = job[d],
           job[c].at = "publish", entry' = NewEntry(job[c]),
           job'[c].op = job[c].op, job'[c].secret = job[c].secret, job'[c].done = TRUE,
           job'[c].at # "end"
    PROVE  Contract!Set(c)
<1>1. job[c].op = "set" /\ entry'.secret = job[c].secret /\ job[c].secret \in Secrets
  BY NewEntryIs
<1>2. job[c].done = FALSE
  <2>1. ~job[c].done /\ job[c].done \in BOOLEAN
    BY JobIs DEF PlaceOf
  <2> QED
    BY <2>1
<1>3. Seen[c] = View("set", job[c].secret, job[c].done, NoSecret, "pending")
  BY <1>1, <1>2, SeenMoves, AsCallIs DEF Result
<1>4. AsCall(job'[c]) = View("set", job[c].secret, job'[c].done, NoSecret, "pending")
  BY <1>1, AsCallIs DEF Result
<1>5. Seen' = [Seen EXCEPT ![c].done = TRUE]
  <2>1. [View("set", job[c].secret, job[c].done, NoSecret, "pending") EXCEPT !.done = job'[c].done] =
            View("set", job[c].secret, job'[c].done, NoSecret, "pending")
    BY DoneView
  <2>2. AsCall(job'[c]) = [Seen[c] EXCEPT !.done = job'[c].done]
    BY <1>3, <1>4, <2>1
  <2>3. [Seen[c] EXCEPT !.done = TRUE] = [Seen[c] EXCEPT !.done = job'[c].done]
    BY Effective
  <2>4. Seen' = [Seen EXCEPT ![c] = [Seen[c] EXCEPT !.done = TRUE]]
    BY <2>2, <2>3, SeenMoves
  <2> QED
    BY <2>4
<1>6. Contract!Effect(c, "set")
  <2>1. Contract!Pending(c)
    BY BusySeen, ContractIs
  <2>2. Seen[c].op = "set" /\ ~Seen[c].done
    BY <1>2, <1>3 DEF View
  <2> QED
    BY <2>1, <2>2 DEF Contract!Effect, Seen
<1>7. Shown' = Contract!Told(Seen[c].secret)
  <2>1. Seen[c].secret = job[c].secret
    BY <1>3 DEF View
  <2>2. Contract!Told(job[c].secret) = Told(job[c].secret)
    BY <1>1 DEF Contract!Told, Told
  <2>3. Shown' = Told(entry'.secret)
    BY DEF Shown, Told
  <2> QED
    BY <1>1, <2>1, <2>2, <2>3
<1> QED
  BY <1>5, <1>6, <1>7 DEF Contract!Set, Seen, Shown

LEMMA DeleteSeen ==
    ASSUME ShapeInv, ShapeInv', NEW c \in Processes, \A d \in Processes \ {c} : job'[d] = job[d],
           job[c].at = "erase", job[c].op = "delete", entry' = Nothing,
           job'[c].op = "delete", job'[c].at # "end", job'[c].done = TRUE
    PROVE  Contract!Delete(c)
<1>1. job[c].done = FALSE
  <2>1. ~job[c].done /\ job[c].done \in BOOLEAN
    BY JobIs DEF PlaceOf
  <2> QED
    BY <2>1
<1>2. Seen[c] = View("delete", NoSecret, job[c].done, NoSecret, "pending")
  BY <1>1, SeenMoves, AsCallIs DEF Result
<1>3. AsCall(job'[c]) = View("delete", NoSecret, job'[c].done, NoSecret, "pending")
  BY AsCallIs DEF Result
<1>4. Seen' = [Seen EXCEPT ![c].done = TRUE]
  <2>1. [View("delete", NoSecret, job[c].done, NoSecret, "pending") EXCEPT !.done = job'[c].done] =
            View("delete", NoSecret, job'[c].done, NoSecret, "pending")
    BY DoneView
  <2>2. AsCall(job'[c]) = [Seen[c] EXCEPT !.done = job'[c].done]
    BY <1>2, <1>3, <2>1
  <2>3. [Seen[c] EXCEPT !.done = TRUE] = [Seen[c] EXCEPT !.done = job'[c].done]
    BY Effective
  <2>4. Seen' = [Seen EXCEPT ![c] = [Seen[c] EXCEPT !.done = TRUE]]
    BY <2>2, <2>3, SeenMoves
  <2> QED
    BY <2>4
<1>5. Contract!Effect(c, "delete")
  <2>1. Contract!Pending(c)
    BY BusySeen, ContractIs
  <2>2. Seen[c].op = "delete" /\ ~Seen[c].done
    BY <1>1, <1>2 DEF View
  <2> QED
    BY <2>1, <2>2 DEF Contract!Effect, Seen
<1>6. Shown' = NoSecret
  BY DEF Shown, Told, Nothing
<1> QED
  BY <1>4, <1>5, <1>6 DEF Contract!Delete, Seen, Shown

\* The entry is read: what get will tell.
LEMMA GetSeen ==
    ASSUME ShapeInv, ShapeInv', NEW c \in Processes, \A d \in Processes \ {c} : job'[d] = job[d],
           entry' = entry, job[c].at = "read", job[c].op = "get",
           job'[c].op = "get", job'[c].at = "part", job'[c].done = TRUE, job'[c].found = entry
    PROVE  Contract!Get(c)
<1>1. job[c].done = FALSE
  <2>1. ~job[c].done /\ job[c].done \in BOOLEAN
    BY JobIs DEF PlaceOf
  <2> QED
    BY <2>1
<1>2. Seen[c] = View("get", NoSecret, job[c].done, NoSecret, "pending")
  BY <1>1, SeenMoves, AsCallIs DEF Result
<1>3. AsCall(job'[c]) = View("get", NoSecret, job'[c].done, Shown, "pending")
  <2>1. Result(job'[c]) = Shown
    BY DEF Result, Shown
  <2> QED
    BY <2>1, AsCallIs
<1>4. Seen' = [Seen EXCEPT ![c].done = TRUE, ![c].result = Shown]
  <2> DEFINE v == [Seen[c] EXCEPT !.done = TRUE]
  <2>1. [Seen[c] EXCEPT !.done = TRUE] = [Seen[c] EXCEPT !.done = job'[c].done]
    BY Effective
  <2>2. v = View("get", NoSecret, job'[c].done, NoSecret, "pending")
    BY <1>2, <2>1, DoneView
  <2>3. [Seen EXCEPT ![c].done = TRUE, ![c].result = Shown] =
            [[Seen EXCEPT ![c] = v] EXCEPT ![c].result = Shown]
    OBVIOUS
  <2> HIDE DEF v
  <2>4. [v EXCEPT !.result = Shown] = AsCall(job'[c])
    BY <1>3, <2>2, ResultView
  <2>5. [[Seen EXCEPT ![c] = v] EXCEPT ![c].result = Shown] =
            [Seen EXCEPT ![c] = [v EXCEPT !.result = Shown]]
    BY DEF Seen
  <2>6. Seen' = [Seen EXCEPT ![c] = [v EXCEPT !.result = Shown]]
    BY <2>4, SeenMoves
  <2> QED
    BY <2>3, <2>5, <2>6
<1>5. Contract!Effect(c, "get")
  <2>1. Contract!Pending(c)
    BY BusySeen, ContractIs
  <2>2. Seen[c].op = "get" /\ ~Seen[c].done
    BY <1>1, <1>2 DEF View
  <2> QED
    BY <2>1, <2>2 DEF Contract!Effect, Seen
<1>6. Shown' = Shown
  BY DEF Shown, Told
<1> QED
  BY <1>4, <1>5, <1>6 DEF Contract!Get, Seen, Shown

\* A call is made.
LEMMA BeginSeen ==
    ASSUME ShapeInv, ShapeInv', NEW c \in Processes, \A d \in Processes \ {c} : job'[d] = job[d],
           entry' = entry, job[c] = Idle, job'[c].at = "read", job'[c].done = Idle.done,
           \/ job'[c].op \in {"get", "delete"}
           \/ job'[c].op = "set" /\ job'[c].secret \in Secrets
    PROVE  Contract!Call(c)
<1> DEFINE op == job'[c].op
           s == IF op = "set" THEN job'[c].secret ELSE NoSecret
<1>1. Contract!Free = View("none", NoSecret, Idle.done, NoSecret, "pending")
  BY DEF Contract!Free, View, Idle
<1>2. AsCall(job'[c]) = View(op, s, Idle.done, NoSecret, "pending")
  <2>1. ~job'[c].done
    BY DEF Idle
  <2>2. Result(job'[c]) = NoSecret
    BY <2>1 DEF Result
  <2> QED
    BY <2>2, AsCallIs
<1>3. Contract!Asked(op, s) = AsCall(job'[c])
  <2> HIDE DEF op, s
  <2>1. [View("none", NoSecret, Idle.done, NoSecret, "pending") EXCEPT !.op = op] =
            View(op, NoSecret, Idle.done, NoSecret, "pending")
    BY DEF View
  <2>2. [View(op, NoSecret, Idle.done, NoSecret, "pending") EXCEPT !.secret = s] =
            View(op, s, Idle.done, NoSecret, "pending")
    BY DEF View
  <2>3. Contract!Asked(op, s) = [[Contract!Free EXCEPT !.op = op] EXCEPT !.secret = s]
    BY DEF Contract!Asked
  <2> QED
    BY <1>1, <1>2, <2>1, <2>2, <2>3
<1>4. Seen' = [Seen EXCEPT ![c] = Contract!Asked(op, s)]
  BY <1>3, SeenMoves
<1>5. Seen[c] = Contract!Free /\ Shown' = Shown
  BY IdleSeen DEF Seen, Shown, Told
<1>6. \/ op \in {"get", "delete"} /\ s = NoSecret
      \/ op = "set" /\ s \in Secrets
  OBVIOUS
<1> HIDE DEF op, s
<1>7. CASE op \in {"get", "delete"} /\ s = NoSecret
  BY <1>4, <1>5, <1>7 DEF Contract!Call, Seen, Shown
<1>8. CASE op = "set" /\ s \in Secrets
  BY <1>4, <1>5, <1>8 DEF Contract!Call, Seen, Shown
<1> QED
  BY <1>6, <1>7, <1>8

\* What a client sees of a call follows from what the call is.
LEMMA SameSeen ==
    ASSUME NEW i, NEW j, j.op = i.op, j.done = i.done, j.at # "end", i.at # "end",
           j.op = "set" => j.secret = i.secret,
           j.op = "get" /\ j.done => j.found.secret = i.found.secret
    PROVE  AsCall(j) = AsCall(i)
<1>1. Result(j) = Result(i)
  BY DEF Result
<1> QED
  BY <1>1, AsCallIs

LEMMA FailedSeen ==
    ASSUME NEW i, NEW j, j.op = i.op, j.done = i.done, j.at = "end", j.failed, i.at # "end",
           j.op = "set" => j.secret = i.secret,
           j.op = "get" /\ j.done => j.found.secret = i.found.secret
    PROVE  AsCall(j) = View(AsCall(i).op, AsCall(i).secret, AsCall(i).done, AsCall(i).result,
                            "error")
<1>1. Result(j) = Result(i)
  BY DEF Result
<1>2. AsCall(i) = View(i.op, IF i.op = "set" THEN i.secret ELSE NoSecret, i.done, Result(i),
                       "pending")
  BY AsCallIs
<1>3. /\ AsCall(i).op = i.op /\ AsCall(i).done = i.done /\ AsCall(i).result = Result(i)
      /\ AsCall(i).secret = IF i.op = "set" THEN i.secret ELSE NoSecret
  BY <1>2 DEF View
<1>4. AsCall(j) = View(j.op, IF j.op = "set" THEN j.secret ELSE NoSecret, j.done, Result(j),
                       "error")
  BY AsCallIs
<1> QED
  BY <1>1, <1>3, <1>4

\* A call is over, and it took effect.
LEMMA ReturnSeen ==
    ASSUME ShapeInv, ShapeInv', NEW c \in Processes, \A d \in Processes \ {c} : job'[d] = job[d],
           entry' = entry, job[c].at \notin {"idle", "end"}, job[c].done,
           job'[c].at = "end", job'[c].failed = FALSE, job'[c].done = job[c].done,
           job'[c].op = job[c].op, job'[c].op = "set" => job'[c].secret = job[c].secret,
           job'[c].op = "get" => job'[c].told = job[c].found.secret
    PROVE  Contract!Return(c)
<1> DEFINE s == IF job[c].op = "set" THEN job[c].secret ELSE NoSecret
<1> DEFINE d == job[c].done
<1> DEFINE r == Result(job[c])
<1>1. Result(job'[c]) = Result(job[c])
  BY DEF Result
<1>2. AsCall(job[c]) = View(job[c].op, s, d, r, "pending")
  BY AsCallIs
<1>3. AsCall(job'[c]) = View(job[c].op, s, d, r, "ok")
  BY <1>1, AsCallIs
<1> HIDE DEF s, d, r
<1>4. Seen[c] = AsCall(job[c]) /\ Seen[c].done
  BY <1>2, SeenMoves DEF View, d
<1>5. [Seen[c] EXCEPT !.outcome = "ok"] = AsCall(job'[c])
  <2>1. [AsCall(job[c]) EXCEPT !.outcome = "ok"] = AsCall(job'[c])
    BY ONLY <1>2, <1>3, OutcomeOfView
  <2> QED
    BY <1>4, <2>1
<1>6. Seen' = [Seen EXCEPT ![c] = [Seen[c] EXCEPT !.outcome = "ok"]]
  BY <1>5, SeenMoves
<1>7. Shown' = Shown /\ Contract!Pending(c)
  BY BusySeen, ContractIs DEF Shown, Told
<1> QED
  BY <1>4, <1>6, <1>7, ContractIs

LEMMA RefineStep ==
    ASSUME KeyringAssumption, ShapeInv, KeyringNext
    PROVE  [Contract!SecretNext]_(Contract!secretVars)
<1>1. ShapeInv'
  BY ShapeStep
<1>2. ASSUME NEW c \in Processes, Begin(c) PROVE Contract!SecretNext
  <2>1. Aside(c) /\ job[c] = Idle /\ job'[c].at = "read"
    BY <1>2, BeginMoves
  <2>2. PICK j : /\ Go(c, j)
                 /\ \/ j = [Idle EXCEPT !.op = "get", !.at = "read"]
                    \/ \E s \in Secrets :
                          j = [Idle EXCEPT !.op = "set", !.at = "read", !.secret = s]
                    \/ j = [Idle EXCEPT !.op = "delete", !.at = "read"]
    BY <1>2 DEF Begin
  <2>3. job'[c] = j
    BY <2>2 DEF Go, ShapeInv
  <2>4. /\ j.done = Idle.done
        /\ j.op \in {"get", "delete"} \/ (j.op = "set" /\ j.secret \in Secrets)
    <3>1. Idle \in Records
      BY IdleIs DEF Jobs
    <3> QED
      BY <2>2, <3>1 DEF Records
  <2>5. Contract!Call(c)
    BY <1>1, <2>1, <2>3, <2>4, BeginSeen DEF Aside
  <2> QED
    BY <2>5 DEF Contract!SecretNext
<1>3. ASSUME NEW c \in Processes, ReadEntry(c) PROVE Contract!SecretNext
  <2>1. /\ Aside(c) /\ job[c] \in Records /\ job[c].at = "read" /\ job[c].op = "get"
        /\ job'[c] = [job[c] EXCEPT !.at = "part", !.found = entry, !.done = TRUE,
                         !.told = IF HasManifest(entry) THEN <<>> ELSE entry.secret]
    BY <1>3, ReadEntryMoves, JobIs
  <2>2. job'[c].at = "part" /\ job'[c].op = "get" /\ job'[c].done = TRUE /\ job'[c].found = entry
    BY <2>1 DEF Records
  <2>3. Contract!Get(c)
    BY <1>1, <2>1, <2>2, GetSeen DEF Aside
  <2> QED
    BY <2>3 DEF Contract!SecretNext
\* The call is given up.
<1>4. ASSUME NEW c \in Processes, Aside(c), job[c].at \notin {"idle", "end"},
             job'[c] = [job[c] EXCEPT !.at = "end", !.failed = TRUE]
      PROVE  Contract!SecretNext
  <2>1. /\ job'[c].at = "end" /\ job'[c].failed /\ job'[c].op = job[c].op
        /\ job'[c].done = job[c].done /\ job'[c].secret = job[c].secret
        /\ job'[c].found = job[c].found
    BY <1>4, JobIs DEF Records
  <2>2. AsCall(job'[c]) = View(AsCall(job[c]).op, AsCall(job[c]).secret, AsCall(job[c]).done,
                               AsCall(job[c]).result, "error")
    <3>1. job[c].at # "end"
      BY <1>4
    <3> QED
      BY <2>1, <3>1, FailedSeen
  <2>3. entry' = entry /\ \A d \in Processes \ {c} : job'[d] = job[d]
    BY <1>4 DEF Aside
  <2>4. Contract!Fail(c)
    BY <1>1, <1>4, <2>2, <2>3, FailSeen
  <2> QED
    BY <2>4 DEF Contract!SecretNext
<1>5. ASSUME NEW c \in Processes, ReadChunk(c) PROVE [Contract!SecretNext]_(Contract!secretVars)
  <2>1. /\ Aside(c) /\ job[c] \in Records /\ job[c].at = "part"
        /\ \/ job'[c] = [job[c] EXCEPT !.at = "end", !.failed = TRUE]
           \/ \E t \in Texts : job'[c] = [job[c] EXCEPT !.next = job[c].next + 1, !.told = t]
    BY <1>5, ReadChunkMoves, JobIs
  <2>2. CASE job'[c] = [job[c] EXCEPT !.at = "end", !.failed = TRUE]
    BY <1>4, <2>1, <2>2
  <2>3. CASE \E t \in Texts : job'[c] = [job[c] EXCEPT !.next = job[c].next + 1, !.told = t]
    <3>1. /\ job'[c].at = "part" /\ job'[c].op = job[c].op /\ job'[c].done = job[c].done
          /\ job'[c].secret = job[c].secret /\ job'[c].found = job[c].found
      BY <2>1, <2>3 DEF Records
    <3>2. AsCall(job'[c]) = AsCall(job[c])
      <4>1. job[c].at # "end" /\ job'[c].at # "end"
        BY <2>1, <3>1
      <4> QED
        BY <3>1, <4>1, SameSeen
    <3>3. entry' = entry /\ \A d \in Processes \ {c} : job'[d] = job[d]
      BY <2>1 DEF Aside
    <3>4. UNCHANGED Contract!secretVars
      BY <1>1, <3>2, <3>3, StutterSeen
    <3> QED
      BY <3>4
  <2> QED
    BY <2>1, <2>2, <2>3
<1>6. ASSUME NEW c \in Processes, CheckHash(c) PROVE Contract!SecretNext
  <2>1. /\ Aside(c) /\ job[c] \in Records /\ job[c].at = "part" /\ job[c].op = "get"
        /\ \/ job'[c] = [job[c] EXCEPT !.at = "end", !.failed = TRUE]
           \/ /\ job'[c] = [job[c] EXCEPT !.at = "end"]
              /\ job[c].told = job[c].found.secret
    BY <1>6, CheckHashMoves, JobIs
  <2>2. job[c].done /\ job[c].failed = FALSE
    BY <2>1, JobIs DEF PlaceOf
  <2>3. CASE job'[c] = [job[c] EXCEPT !.at = "end", !.failed = TRUE]
    BY <1>4, <2>1, <2>3
  <2>4. CASE job'[c] = [job[c] EXCEPT !.at = "end"] /\ job[c].told = job[c].found.secret
    <3>1. /\ job'[c].at = "end" /\ job'[c].failed = FALSE /\ job'[c].op = job[c].op
          /\ job'[c].done = job[c].done /\ job'[c].told = job[c].found.secret
      <4>1. /\ job'[c].at = "end" /\ job'[c].failed = job[c].failed /\ job'[c].op = job[c].op
            /\ job'[c].done = job[c].done /\ job'[c].told = job[c].told
        <5>1. job[c] \in Records /\ job'[c] = [job[c] EXCEPT !.at = "end"]
          BY <2>1, <2>4
        <5> QED
          BY ONLY <5>1 DEF Records
      <4> QED
        BY <2>2, <2>4, <4>1
    <3>2. Contract!Return(c)
      BY <1>1, <2>1, <2>2, <3>1, ReturnSeen DEF Aside
    <3> QED
      BY <3>2 DEF Contract!SecretNext
  <2> QED
    BY <2>1, <2>3, <2>4
<1>7. ASSUME NEW c \in Processes, Prepare(c) PROVE [Contract!SecretNext]_(Contract!secretVars)
  <2>1. /\ entry' = entry /\ \A d \in Processes \ {c} : job'[d] = job[d]
        /\ job[c].at = "read" /\ job[c].op = "set" /\ job'[c].op = "set"
        /\ job'[c].secret = job[c].secret /\ job'[c].done = job[c].done
        /\ job'[c].at \in {"publish", "end", "write"}
        /\ job'[c].at = "end" => job'[c].failed
    BY <1>7, PrepareMoves
  <2>2. CASE job'[c].at = "end"
    <3>1. Contract!Fail(c)
      BY <1>1, <2>1, <2>2, FailedSeen, FailSeen
    <3> QED
      BY <3>1 DEF Contract!SecretNext
  <2>3. CASE job'[c].at # "end"
    BY <1>1, <2>1, <2>3, SameSeen, StutterSeen
  <2> QED
    BY <2>2, <2>3
<1>8. ASSUME NEW c \in Processes, WriteChunk(c) PROVE UNCHANGED Contract!secretVars
  <2>1. /\ Aside(c) /\ job[c].at = "write" /\ job'[c].at \in {"write", "publish"}
        /\ job'[c].op = job[c].op /\ job'[c].secret = job[c].secret
        /\ job'[c].done = job[c].done /\ job'[c].found = job[c].found
    BY <1>8, WriteChunkMoves
  <2> QED
    BY <1>1, <2>1, SameSeen, StutterSeen DEF Aside
<1>9. ASSUME NEW c \in Processes, Publish(c) PROVE Contract!SecretNext
  <2>1. Contract!Set(c)
    BY <1>1, <1>9, PublishMoves, SetSeen
  <2> QED
    BY <2>1 DEF Contract!SecretNext
<1>10. ASSUME NEW c \in Processes, FailWrite(c) PROVE UNCHANGED Contract!secretVars
  <2>1. /\ Aside(c) /\ job[c].at \in {"write", "publish"} /\ job'[c].at = "undo"
        /\ job'[c].op = job[c].op /\ job'[c].secret = job[c].secret
        /\ job'[c].done = job[c].done /\ job'[c].found = job[c].found
    BY <1>10, FailWriteMoves
  <2> QED
    BY <1>1, <2>1, SameSeen, StutterSeen DEF Aside
<1>11. ASSUME NEW c \in Processes, FailLate(c)
       PROVE  [Contract!SecretNext]_(Contract!secretVars)
  <2>1. /\ \A d \in Processes \ {c} : job'[d] = job[d]
        /\ job[c].op = "set" /\ job'[c].at = "undo" /\ job'[c].op = "set"
        /\ job'[c].secret = job[c].secret /\ job'[c].found = job[c].found
        /\ \/ job[c].at = "write" /\ entry' = entry /\ job'[c].done = job[c].done
           \/ job[c].at = "publish" /\ entry' = NewEntry(job[c]) /\ job'[c].done = TRUE
    BY <1>11, FailLateMoves
  <2>2. CASE job[c].at = "write" /\ entry' = entry /\ job'[c].done = job[c].done
    BY <1>1, <2>1, <2>2, SameSeen, StutterSeen
  <2>3. CASE job[c].at = "publish" /\ entry' = NewEntry(job[c]) /\ job'[c].done = TRUE
    <3>1. Contract!Set(c)
      BY <1>1, <2>1, <2>3, SetSeen
    <3> QED
      BY <3>1 DEF Contract!SecretNext
  <2> QED
    BY <2>1, <2>2, <2>3
<1>12. ASSUME NEW c \in Processes, DeleteWritten(c)
       PROVE  [Contract!SecretNext]_(Contract!secretVars)
  <2>1. /\ Aside(c) /\ job[c].at = "undo" /\ job'[c].op = job[c].op
        /\ job'[c].secret = job[c].secret /\ job'[c].done = job[c].done
        /\ job'[c].found = job[c].found
        /\ job'[c].at = "undo" \/ (job'[c].at = "end" /\ job'[c].failed)
    BY <1>12, DeleteWrittenMoves
  <2>2. CASE job'[c].at = "undo"
    BY <1>1, <2>1, <2>2, SameSeen, StutterSeen DEF Aside
  <2>3. CASE job'[c].at = "end" /\ job'[c].failed
    <3>1. Contract!Fail(c)
      BY <1>1, <2>1, <2>3, FailedSeen, FailSeen DEF Aside
    <3> QED
      BY <3>1 DEF Contract!SecretNext
  <2> QED
    BY <2>1, <2>2, <2>3
<1>13. ASSUME NEW c \in Processes, LookUp(c) PROVE UNCHANGED Contract!secretVars
  <2>1. /\ Aside(c) /\ job[c].at = "read" /\ job'[c].at = "erase"
        /\ job[c].op = "delete" /\ job'[c].op = "delete" /\ job'[c].done = job[c].done
    BY <1>13, LookUpMoves
  <2> QED
    BY <1>1, <2>1, SameSeen, StutterSeen DEF Aside
<1>14. ASSUME NEW c \in Processes, Erase(c) PROVE [Contract!SecretNext]_(Contract!secretVars)
  <2>1. /\ \A d \in Processes \ {c} : job'[d] = job[d]
        /\ job[c].at = "erase" /\ job[c].op = "delete" /\ job'[c].at = "sweep"
        /\ job'[c].op = "delete"
        /\ \/ entry' = Nothing /\ job'[c].done = TRUE
           \/ entry' = entry /\ job'[c].done = job[c].done
    BY <1>14, EraseMoves
  <2>2. CASE entry' = Nothing /\ job'[c].done = TRUE
    <3>1. Contract!Delete(c)
      BY <1>1, <2>1, <2>2, DeleteSeen
    <3> QED
      BY <3>1 DEF Contract!SecretNext
  <2>3. CASE entry' = entry /\ job'[c].done = job[c].done
    BY <1>1, <2>1, <2>3, SameSeen, StutterSeen
  <2> QED
    BY <2>1, <2>2, <2>3
<1>15. ASSUME NEW c \in Processes, Sweep(c) PROVE [Contract!SecretNext]_(Contract!secretVars)
  <2>1. /\ Aside(c) /\ job[c].at = "sweep" /\ job'[c].op = job[c].op
        /\ job[c].op \in {"set", "delete"}
        /\ job'[c].secret = job[c].secret /\ job'[c].done = job[c].done
        /\ job'[c].found = job[c].found
        /\ job'[c].at = "sweep" \/ (job'[c].at = "end" /\ job'[c].failed = job[c].failed)
    BY <1>15, SweepMoves
  <2>2. (job[c].done \/ job[c].failed) /\ job[c].failed \in BOOLEAN
    <3>1. job[c].done \/ job[c].failed
      BY <2>1, JobIs DEF PlaceOf
    <3> QED
      BY <3>1, JobIs
  <2>3. CASE job'[c].at = "sweep"
    BY <1>1, <2>1, <2>3, SameSeen, StutterSeen DEF Aside
  <2>4. CASE job'[c].at = "end" /\ job'[c].failed = job[c].failed /\ job[c].failed
    <3>1. Contract!Fail(c)
      BY <1>1, <2>1, <2>4, FailedSeen, FailSeen DEF Aside
    <3> QED
      BY <3>1 DEF Contract!SecretNext
  <2>5. CASE job'[c].at = "end" /\ job'[c].failed = job[c].failed /\ ~job[c].failed
    <3>1. job'[c].failed = FALSE /\ job[c].done
      BY <2>2, <2>5
    <3>2. Contract!Return(c)
      BY <1>1, <2>1, <2>5, <3>1, ReturnSeen DEF Aside
    <3> QED
      BY <3>2 DEF Contract!SecretNext
  <2> QED
    BY <2>1, <2>3, <2>4, <2>5
<1>16. ASSUME NEW c \in Processes, Leave(c) PROVE Contract!SecretNext
  <2>1. Contract!Leave(c)
    BY <1>1, <1>16, LeaveMoves, LeaveSeen DEF Aside
  <2> QED
    BY <2>1 DEF Contract!SecretNext
<1>17. ASSUME NEW c \in Processes, FailRead(c) PROVE Contract!SecretNext
  BY <1>4, <1>17, FailReadMoves
<1>18. ASSUME NEW c \in Processes, Exit(c) PROVE Contract!SecretNext
  <2>1. Contract!Leave(c)
    BY <1>1, <1>18, ExitMoves, LeaveSeen DEF Aside
  <2> QED
    BY <2>1 DEF Contract!SecretNext
<1>19. ASSUME Damage PROVE UNCHANGED Contract!secretVars
  <2>1. entry' = entry /\ job' = job
    BY <1>19, DamageMoves
  <2> QED
    BY <2>1 DEF Contract!secretVars, AsCall, Outcome, Told
<1> QED
  BY <1>2, <1>3, <1>5, <1>6, <1>7, <1>8, <1>9, <1>10, <1>11, <1>12, <1>13, <1>14, <1>15,
     <1>16, <1>17, <1>18, <1>19 DEF KeyringNext

(* The keyring keeps whole secrets: what get tells is a secret that was    *)
(* under the key at some moment of the call, and what set and delete       *)
(* report as done was done at one (SecretStore for SystemKeyringStore).    *)
THEOREM KeyringImplementsSecretStore ==
    ASSUME KeyringAssumption
    PROVE  KeyringSpec => ImplementsSecretStore
<1>1. KeyringInit => Contract!SecretInit
  <2> SUFFICES ASSUME KeyringInit PROVE Contract!SecretInit
    OBVIOUS
  <2>1. Told(entry.secret) = NoSecret
    BY DEF KeyringInit, Told, Nothing
  <2>2. [c \in Processes |-> AsCall(job[c])] = [c \in Processes |-> Contract!Free]
    BY IdleSeen DEF KeyringInit
  <2> QED
    BY <2>1, <2>2 DEF Contract!SecretInit
<1>2. KeyringInv /\ [KeyringNext]_keyringVars => [Contract!SecretNext]_(Contract!secretVars)
  <2> SUFFICES ASSUME KeyringInv, [KeyringNext]_keyringVars
               PROVE  [Contract!SecretNext]_(Contract!secretVars)
    OBVIOUS
  <2>1. CASE KeyringNext
    BY <2>1, RefineStep DEF KeyringInv
  <2>2. CASE UNCHANGED keyringVars
    <3>1. entry' = entry /\ job' = job
      BY <2>2 DEF keyringVars, entryVars
    <3>2. UNCHANGED Contract!secretVars
      BY <3>1 DEF Contract!secretVars, AsCall, Outcome, Told
    <3> QED
      BY <3>2
  <2> QED
    BY <2>1, <2>2
<1> QED
  BY <1>1, <1>2, KeyringSafety, PTL DEF KeyringSpec, ImplementsSecretStore, Contract!SecretSpec

-----------------------------------------------------------------------------
(* The vault.                                                              *)

(* What the variables of the vault hold.                                  *)
MaybeSecret == VaultSecrets \union {NoSecret}
VaultKey == [password : Passwords \union {NoPassword}, salt : Nat]
VaultFile == [whole : BOOLEAN, key : VaultKey, values : [Keys -> MaybeSecret]]
VaultPoints == {"idle", "snapshot", "open", "write", "rename", "done", "failed"}
VaultJob == [op : {"none", "create", "change"}, at : VaultPoints, name : Keys \union {0},
        contents : VaultFile, inode : {0} \union Vault!Inodes]

(* The last change of a secret, made by a call of a thread that did not    *)
(* return yet, or reported.                                                *)
LastChange == [secret : MaybeSecret, by : Threads \union {"ok", "failed"}]

VaultTypes ==
    /\ key \in VaultKey /\ values \in [Keys -> MaybeSecret]
    /\ vault \in {0} \union Vault!Inodes /\ tmp \in {0} \union Vault!Inodes
    /\ node \in [Vault!Inodes -> VaultFile]
    /\ work \in [Threads -> VaultJob]
    /\ salts \in Nat
    /\ last \in [Keys -> LastChange]

(* At most one call is under way.                                          *)
OneCall ==
    \A t \in Threads, u \in Threads :
        ~Vault!At(t, "idle") /\ ~Vault!At(u, "idle") => t = u

(* Where a call is tells what is in memory, in the temporary file and in   *)
(* the vault: the call writes what is in memory, and reports success when  *)
(* that is in the vault.                                                   *)
CallInv(t) ==
    /\ Vault!At(t, "idle") => work[t] = Vault!Idle
    /\ work[t].op = "change" => work[t].name \in Keys
    /\ ~Vault!At(t, "idle") /\ ~Vault!At(t, "failed") => Vault!Unlocked
    /\ Vault!At(t, "open") \/ Vault!At(t, "write") \/ Vault!At(t, "rename") =>
           work[t].contents = Vault!Contents(key, values)
    /\ IF Vault!At(t, "write") \/ Vault!At(t, "rename")
       THEN work[t].inode = tmp /\ tmp # 0
       ELSE work[t].inode = 0
    /\ Vault!At(t, "write") => ~node[tmp].whole
    /\ Vault!At(t, "rename") => node[tmp] = work[t].contents
    /\ Vault!At(t, "done") => vault # 0 /\ node[vault] = Vault!Contents(key, values)
    /\ work[t].op = "change" /\ last[work[t].name].by = t =>
          values[work[t].name] = last[work[t].name].secret

(* The vault is whole, no temporary file, and of the key in memory.        *)
FileInv ==
    vault # 0 =>
        /\ tmp # vault /\ node[vault].whole
        /\ Vault!Unlocked => node[vault].key = key

(* A change that was reported is in the vault, and in memory unless that   *)
(* is locked.                                                              *)
KeptInv ==
    \A k \in Keys : last[k].by = "ok" =>
        /\ Vault!OnDisk(k) \/ (vault = 0 /\ last[k].secret = NoSecret)
        /\ Vault!Unlocked => values[k] = last[k].secret

(* What holds as long as calls did not overlap.  The place of a call says  *)
(* nothing of the files once two of them write to the temporary name.      *)
AloneInv == VaultTypes /\ OneCall /\ (\A t \in Threads : CallInv(t)) /\ FileInv /\ KeptInv

VaultInv == ~met => AloneInv

(* What is written to a file is the contents of a file; there are at least *)
(* two inodes.                                                             *)
LEMMA VaultBasics ==
    ASSUME Vault!VaultAssumption
    PROVE
    /\ Vault!Empty \in [Keys -> MaybeSecret] /\ Vault!NoKey \in VaultKey
    /\ Vault!Partial \in VaultFile /\ Vault!Idle \in VaultJob
    /\ \A k \in VaultKey, v \in [Keys -> MaybeSecret] : Vault!Contents(k, v) \in VaultFile
    /\ 0 \notin Vault!Inodes /\ 1 \in Vault!Inodes /\ 2 \in Vault!Inodes
<1>1. Vault!Cardinality(Threads) \in Nat
  <2>1. IsFiniteSet(Threads)
    BY DEF Vault!VaultAssumption, Vault!IsFiniteSet, IsFiniteSet
  <2>2. Vault!Cardinality(Threads) = Cardinality(Threads)
    BY DEF Vault!Cardinality, Cardinality
  <2> QED
    BY <2>1, <2>2, FS_CardinalityType
<1>2. 0 \notin Vault!Inodes /\ 1 \in Vault!Inodes /\ 2 \in Vault!Inodes
  BY <1>1 DEF Vault!Inodes
<1>3. Vault!Empty \in [Keys -> MaybeSecret] /\ Vault!NoKey \in VaultKey
  BY DEF Vault!Empty, Vault!NoKey, MaybeSecret, VaultKey
<1>4. /\ Vault!Partial \in VaultFile
      /\ \A k \in VaultKey, v \in [Keys -> MaybeSecret] : Vault!Contents(k, v) \in VaultFile
  BY <1>3 DEF Vault!Partial, Vault!Contents, VaultFile
<1>5. Vault!Idle \in VaultJob
  BY <1>4 DEF Vault!Idle, VaultJob, VaultPoints
<1> QED
  BY <1>1, <1>2, <1>3, <1>4, <1>5

(* A thread that rests.                                                    *)
LEMMA Rests ==
    ASSUME NEW t \in Threads, work[t] = Vault!Idle
    PROVE  CallInv(t) /\ Vault!At(t, "idle")
BY DEF CallInv, Vault!Idle, Vault!At

(* The same after a step.                                                  *)
LEMMA RestsThen ==
    ASSUME NEW t \in Threads, work'[t] = Vault!Idle
    PROVE  CallInv(t)' /\ Vault!At(t, "idle")'
BY DEF CallInv, Vault!Idle, Vault!At

(* A call that goes on, or that begins, is the only one.                   *)
LEMMA OnlyOne ==
    ASSUME AloneInv, NEW t \in Threads, ~Vault!At(t, "idle"), NEW j \in VaultJob, Vault!Go(t, j)
    PROVE  /\ work' \in [Threads -> VaultJob] /\ work'[t] = j
           /\ \A u \in Threads \ {t} : work[u] = Vault!Idle /\ work'[u] = Vault!Idle
           /\ OneCall' /\ \A u \in Threads \ {t} : CallInv(u)'
<1>1. work \in [Threads -> VaultJob]
  BY DEF AloneInv, VaultTypes
<1>2. /\ work' \in [Threads -> VaultJob] /\ work'[t] = j
      /\ \A u \in Threads \ {t} : work'[u] = work[u]
  BY <1>1 DEF Vault!Go
<1>3. \A u \in Threads \ {t} : work[u] = Vault!Idle
  BY DEF AloneInv, OneCall, CallInv
<1>4. \A u \in Threads \ {t} : CallInv(u)' /\ Vault!At(u, "idle")'
  BY <1>2, <1>3, RestsThen
<1>5. OneCall'
  BY <1>4 DEF OneCall
<1> QED
  BY <1>2, <1>3, <1>4, <1>5

(* The same of a call that begins.                                         *)
LEMMA FirstOne ==
    ASSUME AloneInv, NEW t \in Threads, Vault!Begin(t), ~met', NEW j \in VaultJob, Vault!Go(t, j)
    PROVE  /\ work' \in [Threads -> VaultJob] /\ work'[t] = j
           /\ OneCall' /\ \A u \in Threads \ {t} : CallInv(u)'
<1>1. work \in [Threads -> VaultJob]
  BY DEF AloneInv, VaultTypes
<1>2. /\ work' \in [Threads -> VaultJob] /\ work'[t] = j
      /\ \A u \in Threads \ {t} : work'[u] = work[u]
  BY <1>1 DEF Vault!Go
<1>3. \A u \in Threads : work[u] = Vault!Idle
  BY DEF AloneInv, Vault!Begin, CallInv
<1>4. \A u \in Threads \ {t} : CallInv(u)' /\ Vault!At(u, "idle")'
  BY <1>2, <1>3, RestsThen
<1>5. OneCall'
  BY <1>4 DEF OneCall
<1> QED
  BY <1>2, <1>4, <1>5

(* A call that is done at once begins while all rest.                      *)
LEMMA AllRest ==
    ASSUME AloneInv, NEW t \in Threads, Vault!Begin(t), ~met', work' = work
    PROVE  work' \in [Threads -> VaultJob] /\ OneCall' /\ \A u \in Threads : CallInv(u)'
<1>1. \A u \in Threads : work'[u] = Vault!Idle
  BY DEF AloneInv, Vault!Begin, CallInv
<1>2. \A u \in Threads : CallInv(u)' /\ Vault!At(u, "idle")'
  BY <1>1, RestsThen
<1>3. OneCall'
  BY <1>2 DEF OneCall
<1> QED
  BY <1>2, <1>3 DEF AloneInv, VaultTypes

(* Every step keeps what holds while calls do not overlap.                 *)
LEMMA UnlockSafe ==
    ASSUME AloneInv, NEW t \in Threads, NEW p \in Passwords, Vault!Unlock(t, p), ~met'
    PROVE  AloneInv'
<1>1. /\ Vault!Begin(t) /\ vault # 0 /\ UNCHANGED <<vault, tmp, node, work, salts, last>>
      /\ IF Vault!Opens(p) THEN key' = node[vault].key /\ values' = node[vault].values
         ELSE UNCHANGED <<key, values>>
  BY DEF Vault!Unlock, Vault!memoryVars, Vault!fileVars
<1>2. work' \in [Threads -> VaultJob] /\ OneCall' /\ \A u \in Threads : CallInv(u)'
  BY <1>1, AllRest
<1>3. node[vault] \in VaultFile /\ vault \in Vault!Inodes
  BY <1>1 DEF AloneInv, VaultTypes
<1>4. key' \in VaultKey /\ values' \in [Keys -> MaybeSecret]
  BY <1>1, <1>3 DEF AloneInv, VaultTypes, VaultFile
<1>5. VaultTypes'
  BY <1>1, <1>2, <1>4 DEF AloneInv, VaultTypes
<1>6. FileInv'
  BY <1>1 DEF AloneInv, FileInv, Vault!Unlocked
<1>7. KeptInv'
  BY <1>1 DEF AloneInv, KeptInv, Vault!OnDisk, Vault!Unlocked
<1> QED
  BY <1>2, <1>5, <1>6, <1>7 DEF AloneInv

(* lock: memory is cleared.                                                *)
LEMMA LockSafe ==
    ASSUME Vault!VaultAssumption, AloneInv, NEW t \in Threads, Vault!Lock(t), ~met'
    PROVE  AloneInv'
<1>1. /\ Vault!Begin(t) /\ UNCHANGED <<vault, tmp, node, work, salts, last>>
      /\ key' = Vault!NoKey /\ values' = Vault!Empty
  BY DEF Vault!Lock, Vault!fileVars
<1>2. work' \in [Threads -> VaultJob] /\ OneCall' /\ \A u \in Threads : CallInv(u)'
  BY <1>1, AllRest
<1>3. VaultTypes'
  BY <1>1, <1>2, VaultBasics DEF AloneInv, VaultTypes
<1>4. FileInv'
  BY <1>1 DEF AloneInv, FileInv, Vault!Unlocked
<1>5. KeptInv'
  BY <1>1 DEF AloneInv, KeptInv, Vault!OnDisk, Vault!Unlocked
<1> QED
  BY <1>2, <1>3, <1>4, <1>5 DEF AloneInv

(* unlock without a vault.                                                 *)
LEMMA CreateSafe ==
    ASSUME Vault!VaultAssumption, AloneInv, NEW t \in Threads, NEW p \in Passwords,
           Vault!Create(t, p), ~met'
    PROVE  AloneInv'
<1> DEFINE j == [Vault!Idle EXCEPT !.op = "create", !.at = "snapshot"]
<1>1. /\ Vault!Begin(t) /\ vault = 0 /\ UNCHANGED <<vault, tmp, node, last>>
      /\ salts' = salts + 1 /\ values' = Vault!Empty /\ Vault!Go(t, j)
      /\ key' = [password |-> p, salt |-> salts + 1]
  BY DEF Vault!Create, Vault!fileVars
<1>2. /\ j \in VaultJob /\ j.op = "create" /\ j.at = "snapshot" /\ j.inode = 0
  BY VaultBasics DEF Vault!Idle, VaultJob, VaultPoints
<1> HIDE DEF j
<1>3. /\ work' \in [Threads -> VaultJob] /\ work'[t] = j
      /\ OneCall' /\ \A u \in Threads \ {t} : CallInv(u)'
  BY <1>1, <1>2, FirstOne
<1>4. salts' \in Nat /\ key' \in VaultKey /\ (key # Vault!NoKey)'
  <2>1. salts \in Nat /\ p # NoPassword
    BY DEF AloneInv, VaultTypes, Vault!VaultAssumption
  <2> QED
    BY <1>1, <2>1 DEF VaultKey, Vault!NoKey
<1>5. VaultTypes'
  BY <1>1, <1>3, <1>4, VaultBasics DEF AloneInv, VaultTypes
<1>6. CallInv(t)'
  BY <1>1, <1>2, <1>3, <1>4 DEF CallInv, Vault!At, Vault!Unlocked
<1>7. FileInv'
  BY <1>1 DEF FileInv
<1>8. KeptInv'
  <2> SUFFICES ASSUME NEW k \in Keys, last[k].by = "ok"
               PROVE  last[k].secret = NoSecret /\ values'[k] = last[k].secret
    BY <1>1 DEF KeptInv, Vault!OnDisk
  <2>1. last[k].secret = NoSecret
    BY <1>1 DEF AloneInv, KeptInv, Vault!OnDisk
  <2> QED
    BY <1>1, <2>1 DEF Vault!Empty
<1> QED
  BY <1>3, <1>5, <1>6, <1>7, <1>8 DEF AloneInv

(* set and delete change memory first.                                     *)
LEMMA ChangeSafe ==
    ASSUME Vault!VaultAssumption, AloneInv, NEW t \in Threads, NEW k \in Keys, NEW s \in MaybeSecret,
           Vault!Change(t, k, s), ~met'
    PROVE  AloneInv'
<1>0. Vault!Begin(t) /\ UNCHANGED <<key, vault, tmp, node, salts>>
  BY DEF Vault!Change, Vault!fileVars
<1>1. CASE ~Vault!Unlocked
  <2>1. UNCHANGED <<values, work, last>>
    BY <1>1 DEF Vault!Change
  <2>2. work' \in [Threads -> VaultJob] /\ OneCall' /\ \A u \in Threads : CallInv(u)'
    BY <1>0, <2>1, AllRest
  <2>3. VaultTypes' /\ FileInv' /\ KeptInv'
    BY <1>0, <2>1 DEF AloneInv, VaultTypes, FileInv, KeptInv, Vault!OnDisk, Vault!Unlocked
  <2> QED
    BY <2>2, <2>3 DEF AloneInv
<1>2. CASE Vault!Unlocked
  <2> DEFINE j == [Vault!Idle EXCEPT !.op = "change", !.at = "snapshot", !.name = k]
  <2>1. /\ values' = [values EXCEPT ![k] = s] /\ Vault!Go(t, j)
        /\ last' = [last EXCEPT ![k] = [secret |-> s, by |-> t]]
    BY <1>2 DEF Vault!Change
  <2>2. j \in VaultJob /\ j.op = "change" /\ j.at = "snapshot" /\ j.inode = 0 /\ j.name = k
    BY VaultBasics DEF Vault!Idle, VaultJob, VaultPoints
  <2> HIDE DEF j
  <2>3. /\ work' \in [Threads -> VaultJob] /\ work'[t] = j
        /\ OneCall' /\ \A u \in Threads \ {t} : CallInv(u)'
    BY <1>0, <2>1, <2>2, FirstOne
  <2>4. /\ values' \in [Keys -> MaybeSecret] /\ values'[k] = s
        /\ \A l \in Keys \ {k} : values'[l] = values[l]
    BY <2>1 DEF AloneInv, VaultTypes
  <2>5. /\ last' \in [Keys -> LastChange]
        /\ last'[k].secret = s /\ last'[k].by = t
        /\ \A l \in Keys \ {k} : last'[l] = last[l]
    <3>1. [secret |-> s, by |-> t] \in LastChange
      BY DEF LastChange
    <3>2. last' \in [Keys -> LastChange]
      BY <2>1, <3>1 DEF AloneInv, VaultTypes
    <3>3. last'[k] = [secret |-> s, by |-> t] /\ \A l \in Keys \ {k} : last'[l] = last[l]
      BY <2>1 DEF AloneInv, VaultTypes
    <3> QED
      BY <3>2, <3>3
  <2>6. VaultTypes'
    BY <1>0, <2>3, <2>4, <2>5 DEF AloneInv, VaultTypes
  <2>7. CallInv(t)'
    BY <1>0, <1>2, <2>2, <2>3, <2>4, <2>5 DEF CallInv, Vault!At, Vault!Unlocked
  <2>8. FileInv'
    BY <1>0 DEF AloneInv, FileInv, Vault!Unlocked
  <2>9. KeptInv'
    <3> SUFFICES ASSUME NEW l \in Keys, last'[l].by = "ok"
                 PROVE  /\ (Vault!OnDisk(l) \/ (vault = 0 /\ last[l].secret = NoSecret))'
                        /\ values'[l] = last'[l].secret
      BY DEF KeptInv
    <3>1. l # k /\ l \in Keys \ {k}
      BY <2>5 DEF Vault!VaultAssumption
    <3>2. last'[l] = last[l] /\ values'[l] = values[l]
      BY <2>4, <2>5, <3>1
    <3>3. /\ Vault!OnDisk(l) \/ (vault = 0 /\ last[l].secret = NoSecret)
          /\ values[l] = last[l].secret
      BY <1>2, <3>2 DEF AloneInv, KeptInv
    <3> QED
      BY <1>0, <3>2, <3>3 DEF Vault!OnDisk
  <2> QED
    BY <2>3, <2>6, <2>7, <2>8, <2>9 DEF AloneInv
<1> QED
  BY <1>1, <1>2

(* persist: what is in memory is encrypted.                                *)
LEMMA SnapshotSafe ==
    ASSUME Vault!VaultAssumption, AloneInv, NEW t \in Threads, Vault!Snapshot(t)
    PROVE  AloneInv'
<1> DEFINE j == [[work[t] EXCEPT !.at = "open"] EXCEPT !.contents = Vault!Contents(key, values)]
<1>1. Vault!At(t, "snapshot") /\ UNCHANGED <<key, values, vault, tmp, node, salts, last>>
  BY DEF Vault!Snapshot, Vault!memoryVars, Vault!fileVars
<1>2. CallInv(t) /\ work[t] \in VaultJob /\ Vault!Unlocked
  BY <1>1 DEF AloneInv, VaultTypes, CallInv, Vault!At
<1>3. Vault!Go(t, j)
  BY <1>2 DEF Vault!Snapshot
<1>4. Vault!Contents(key, values) \in VaultFile
  BY VaultBasics DEF AloneInv, VaultTypes
<1>5. /\ j \in VaultJob /\ j.at = "open" /\ j.contents = Vault!Contents(key, values)
      /\ j.op = work[t].op /\ j.name = work[t].name /\ j.inode = 0
  BY <1>1, <1>2, <1>4 DEF VaultJob, VaultPoints, CallInv, Vault!At
<1> HIDE DEF j
<1>6. /\ work' \in [Threads -> VaultJob] /\ work'[t] = j
      /\ OneCall' /\ \A u \in Threads \ {t} : CallInv(u)'
  BY <1>1, <1>3, <1>5, OnlyOne DEF Vault!At
<1>7. CallInv(t)'
  BY <1>1, <1>2, <1>5, <1>6 DEF CallInv, Vault!At, Vault!Unlocked, Vault!Contents
<1>8. VaultTypes' /\ FileInv' /\ KeptInv'
  BY <1>1, <1>6 DEF AloneInv, VaultTypes, FileInv, KeptInv, Vault!OnDisk, Vault!Unlocked
<1> QED
  BY <1>6, <1>7, <1>8 DEF AloneInv

(* The temporary file is another than the vault.                           *)
LEMMA OpenedIsFree ==
    ASSUME Vault!VaultAssumption, AloneInv, NEW t \in Threads, Vault!At(t, "open")
    PROVE  Vault!Opened \in Vault!Inodes /\ Vault!Opened # vault /\ Vault!Opened # 0
<1>1. CASE tmp # 0
  BY <1>1, VaultBasics DEF Vault!Opened, AloneInv, VaultTypes, FileInv
<1>2. CASE tmp = 0
  <2>1. \A u \in Threads : work[u].inode = 0
    <3>1. work[t].inode = 0
      BY DEF AloneInv, CallInv, Vault!At
    <3>2. \A u \in Threads \ {t} : work[u] = Vault!Idle
      BY DEF AloneInv, OneCall, CallInv, Vault!At
    <3> QED
      BY <3>1, <3>2 DEF Vault!Idle
  <2>2. Vault!Used \subseteq {vault, 0}
    BY <1>2, <2>1 DEF Vault!Used
  <2>3. \E i \in Vault!Inodes : i \notin Vault!Used
    <3>1. 1 \in Vault!Inodes /\ 2 \in Vault!Inodes /\ 0 \notin Vault!Inodes
      BY VaultBasics
    <3>2. 1 \notin {vault, 0} \/ 2 \notin {vault, 0}
      OBVIOUS
    <3> QED
      BY <2>2, <3>1, <3>2
  <2>4. Vault!Fresh \in Vault!Inodes /\ Vault!Fresh \notin Vault!Used
    BY <2>3 DEF Vault!Fresh
  <2>5. vault \in Vault!Used
    BY DEF Vault!Used
  <2> QED
    BY <1>2, <2>4, <2>5, VaultBasics DEF Vault!Opened
<1> QED
  BY <1>1, <1>2

(* The temporary file is opened, and emptied if it is there.               *)
LEMMA OpenTmpSafe ==
    ASSUME Vault!VaultAssumption, AloneInv, NEW t \in Threads, Vault!OpenTmp(t)
    PROVE  AloneInv'
<1> DEFINE j == [[work[t] EXCEPT !.at = "write"] EXCEPT !.inode = Vault!Opened]
<1>1. /\ Vault!At(t, "open") /\ UNCHANGED <<key, values, vault, salts, last>>
      /\ tmp' = Vault!Opened /\ Vault!Go(t, j)
      /\ node' = [node EXCEPT ![Vault!Opened] = Vault!Partial]
  BY DEF Vault!OpenTmp, Vault!memoryVars
<1>2. CallInv(t) /\ work[t] \in VaultJob /\ Vault!Unlocked
  BY <1>1 DEF AloneInv, VaultTypes, CallInv, Vault!At
<1>3. Vault!Opened \in Vault!Inodes /\ Vault!Opened # vault /\ Vault!Opened # 0
  BY <1>1, OpenedIsFree
<1>4. /\ node' \in [Vault!Inodes -> VaultFile] /\ node'[Vault!Opened] = Vault!Partial
      /\ vault # 0 => node'[vault] = node[vault]
  BY <1>1, <1>3, VaultBasics DEF AloneInv, VaultTypes
<1>5. /\ j \in VaultJob /\ j.at = "write" /\ j.contents = Vault!Contents(key, values)
      /\ j.op = work[t].op /\ j.name = work[t].name /\ j.inode = Vault!Opened
  BY <1>1, <1>2, <1>3 DEF VaultJob, VaultPoints, CallInv, Vault!At
<1> HIDE DEF j
<1>6. /\ work' \in [Threads -> VaultJob] /\ work'[t] = j
      /\ OneCall' /\ \A u \in Threads \ {t} : CallInv(u)'
  BY <1>1, <1>5, OnlyOne DEF Vault!At
<1>7. CallInv(t)'
  <2>1. ~Vault!Partial.whole
    BY DEF Vault!Partial
  <2> QED
    BY <1>1, <1>2, <1>3, <1>4, <1>5, <1>6, <2>1 DEF CallInv, Vault!At, Vault!Unlocked,
                                                    Vault!Contents
<1>8. VaultTypes'
  BY <1>1, <1>3, <1>4, <1>6 DEF AloneInv, VaultTypes
<1>9. FileInv' /\ KeptInv'
  BY <1>1, <1>3, <1>4 DEF AloneInv, FileInv, KeptInv, Vault!OnDisk, Vault!Unlocked
<1> QED
  BY <1>6, <1>7, <1>8, <1>9 DEF AloneInv

(* While memory, the vault and what was promised stay, a change of the     *)
(* temporary file is none of the vault.                                    *)
LEMMA TmpChanges ==
    ASSUME AloneInv, UNCHANGED <<key, values, vault, last>>,
           tmp' \in {tmp, 0}, vault # 0 => node'[vault] = node[vault]
    PROVE  FileInv' /\ KeptInv'
BY DEF AloneInv, FileInv, KeptInv, Vault!OnDisk, Vault!Unlocked

(* What was encrypted is written to it.                                    *)
LEMMA WriteTmpSafe ==
    ASSUME AloneInv, NEW t \in Threads, Vault!WriteTmp(t)
    PROVE  AloneInv'
<1> DEFINE j == [work[t] EXCEPT !.at = "rename"]
<1>1. /\ Vault!At(t, "write") /\ UNCHANGED <<key, values, vault, tmp, salts, last>>
      /\ Vault!Go(t, j)
  BY DEF Vault!WriteTmp, Vault!memoryVars
<1>2. /\ CallInv(t) /\ work[t] \in VaultJob /\ Vault!Unlocked /\ work[t].inode = tmp /\ tmp # 0
      /\ ~node[tmp].whole /\ work[t].contents = Vault!Contents(key, values)
  BY <1>1 DEF AloneInv, VaultTypes, CallInv, Vault!At
<1>3. node' = [node EXCEPT ![tmp] = work[t].contents]
  BY <1>2 DEF Vault!WriteTmp, Vault!Written
<1>4. /\ tmp \in Vault!Inodes /\ work[t].contents \in VaultFile
      /\ tmp # vault
  BY <1>2 DEF AloneInv, VaultTypes, FileInv, VaultJob
<1>5. /\ node' \in [Vault!Inodes -> VaultFile] /\ node'[tmp] = Vault!Contents(key, values)
      /\ vault # 0 => node'[vault] = node[vault]
  BY <1>2, <1>3, <1>4 DEF AloneInv, VaultTypes
<1>6. /\ j \in VaultJob /\ j.at = "rename" /\ j.contents = Vault!Contents(key, values)
      /\ j.op = work[t].op /\ j.name = work[t].name /\ j.inode = tmp
  BY <1>2 DEF VaultJob, VaultPoints
<1> HIDE DEF j
<1>7. /\ work' \in [Threads -> VaultJob] /\ work'[t] = j
      /\ OneCall' /\ \A u \in Threads \ {t} : CallInv(u)'
  BY <1>1, <1>6, OnlyOne DEF Vault!At
<1>8. CallInv(t)'
  BY <1>1, <1>2, <1>5, <1>6, <1>7 DEF CallInv, Vault!At, Vault!Unlocked, Vault!Contents
<1>9. VaultTypes'
  BY <1>1, <1>5, <1>7 DEF AloneInv, VaultTypes
<1>10. FileInv' /\ KeptInv'
  BY <1>1, <1>5, TmpChanges
<1> QED
  BY <1>7, <1>8, <1>9, <1>10 DEF AloneInv

(* The job of a call that closed the temporary file.                       *)
LEMMA Closes ==
    ASSUME NEW j \in VaultJob, NEW p \in {"done", "failed"}
    PROVE  /\ Vault!Close(j, p) \in VaultJob /\ Vault!Close(j, p).at = p /\ Vault!Close(j, p).inode = 0
           /\ Vault!Close(j, p).op = j.op /\ Vault!Close(j, p).name = j.name
BY DEF Vault!Close, VaultJob, VaultPoints

(* It becomes the vault.                                                   *)
LEMMA RenameSafe ==
    ASSUME AloneInv, NEW t \in Threads, Vault!Rename(t)
    PROVE  AloneInv'
<1> DEFINE j == Vault!Close(work[t], "done")
<1>1. Vault!At(t, "rename") /\ UNCHANGED <<key, values, node, salts, last>>
  BY DEF Vault!Rename, Vault!memoryVars
<1>2. /\ CallInv(t) /\ work[t] \in VaultJob /\ Vault!Unlocked /\ tmp # 0
      /\ node[tmp] = Vault!Contents(key, values)
  BY <1>1 DEF AloneInv, VaultTypes, CallInv, Vault!At
<1>3. vault' = tmp /\ tmp' = 0 /\ Vault!Go(t, j)
  BY <1>2 DEF Vault!Rename
<1>4. /\ j \in VaultJob /\ j.at = "done" /\ j.inode = 0
      /\ j.op = work[t].op /\ j.name = work[t].name
  BY <1>2, Closes
<1> HIDE DEF j
<1>5. /\ work' \in [Threads -> VaultJob] /\ work'[t] = j
      /\ OneCall' /\ \A u \in Threads \ {t} : CallInv(u)'
  BY <1>1, <1>3, <1>4, OnlyOne DEF Vault!At
<1>6. CallInv(t)'
  BY <1>1, <1>2, <1>3, <1>4, <1>5 DEF CallInv, Vault!At, Vault!Unlocked, Vault!Contents
<1>7. VaultTypes'
  BY <1>1, <1>3, <1>5 DEF AloneInv, VaultTypes
<1>8. /\ node[tmp].whole /\ node[tmp].key = key /\ node[tmp].values = values
  BY <1>2 DEF Vault!Contents
<1>9. FileInv' /\ KeptInv'
  BY <1>1, <1>2, <1>3, <1>8 DEF AloneInv, FileInv, KeptInv, Vault!OnDisk, Vault!Unlocked
<1> QED
  BY <1>5, <1>6, <1>7, <1>9 DEF AloneInv

(* Any of these fails: the vault is as it was.                             *)
LEMMA FailPersistSafe ==
    ASSUME Vault!VaultAssumption, AloneInv, NEW t \in Threads, Vault!FailPersist(t)
    PROVE  AloneInv'
<1> DEFINE j == Vault!Close(work[t], "failed")
<1>1. /\ Vault!At(t, "open") \/ Vault!At(t, "write") \/ Vault!At(t, "rename")
      /\ UNCHANGED <<key, values, vault, salts, last>> /\ Vault!Go(t, j)
  BY DEF Vault!FailPersist, Vault!memoryVars, Vault!AfterFailure, Vault!FailOpen,
         Vault!FailWrite, Vault!FailSync, Vault!FailRename
<1>2. CallInv(t) /\ work[t] \in VaultJob /\ ~Vault!At(t, "idle")
  BY <1>1 DEF AloneInv, VaultTypes, Vault!At
<1>3. /\ tmp' \in {tmp, 0}
      /\ node' = node \/ (tmp # 0 /\ node' = [node EXCEPT ![tmp] = Vault!Partial])
  <2>1. CASE Vault!FailOpen(t) \/ Vault!FailSync(t) \/ Vault!FailRename(t)
    BY <2>1 DEF Vault!FailOpen, Vault!FailSync, Vault!FailRename
  <2>2. CASE Vault!FailWrite(t)
    <3>1. work[t].inode = tmp /\ tmp # 0
      BY <1>2, <2>2 DEF Vault!FailWrite, CallInv
    <3> QED
      BY <2>2, <3>1 DEF Vault!FailWrite
  <2> QED
    BY <2>1, <2>2 DEF Vault!FailPersist
<1>4. node' \in [Vault!Inodes -> VaultFile] /\ (vault # 0 => node'[vault] = node[vault])
  BY <1>3, VaultBasics DEF AloneInv, VaultTypes, FileInv
<1>5. /\ j \in VaultJob /\ j.at = "failed" /\ j.inode = 0
      /\ j.op = work[t].op /\ j.name = work[t].name
  BY <1>2, Closes
<1> HIDE DEF j
<1>6. /\ work' \in [Threads -> VaultJob] /\ work'[t] = j
      /\ OneCall' /\ \A u \in Threads \ {t} : CallInv(u)'
  BY <1>1, <1>2, <1>5, OnlyOne
<1>7. CallInv(t)'
  BY <1>1, <1>2, <1>5, <1>6 DEF CallInv, Vault!At
<1>8. VaultTypes'
  BY <1>1, <1>3, <1>4, <1>6 DEF AloneInv, VaultTypes
<1>9. FileInv' /\ KeptInv'
  BY <1>1, <1>3, <1>4, TmpChanges
<1> QED
  BY <1>6, <1>7, <1>8, <1>9 DEF AloneInv

(* The call returns, and what it changed is accepted or refused.           *)
LEMMA ReturnSafe ==
    ASSUME Vault!VaultAssumption, AloneInv, NEW t \in Threads, Vault!Return(t)
    PROVE  AloneInv'
<1>1. /\ Vault!At(t, "done") \/ Vault!At(t, "failed")
      /\ UNCHANGED <<key, values, vault, tmp, node, salts>> /\ Vault!Go(t, Vault!Idle)
  BY DEF Vault!Return, Vault!memoryVars, Vault!fileVars
<1>2. CallInv(t) /\ work[t] \in VaultJob /\ ~Vault!At(t, "idle")
  BY <1>1 DEF AloneInv, VaultTypes, Vault!At
<1>3. /\ work' \in [Threads -> VaultJob] /\ work'[t] = Vault!Idle
      /\ OneCall' /\ \A u \in Threads \ {t} : CallInv(u)'
  BY <1>1, <1>2, VaultBasics, OnlyOne
<1>4. \A u \in Threads : CallInv(u)'
  BY <1>3, RestsThen
<1>5. CASE work[t].op = "change" /\ last[work[t].name].by = t
  <2> DEFINE n == work[t].name
             b == IF Vault!At(t, "done") THEN "ok" ELSE "failed"
  <2>1. n \in Keys /\ last' = [last EXCEPT ![n].by = b]
    BY <1>2, <1>5 DEF CallInv, Vault!Return
  <2>2. b \in {"ok", "failed"} /\ (b = "ok" => Vault!At(t, "done"))
    BY DEF Vault!At
  <2>3. values[n] = last[n].secret
    BY <1>2, <1>5 DEF CallInv
  <2> HIDE DEF n, b
  <2>4. /\ last' \in [Keys -> LastChange]
        /\ last'[n].secret = last[n].secret /\ last'[n].by = b
        /\ \A l \in Keys \ {n} : last'[l] = last[l]
    <3>1. last' = [last EXCEPT ![n] = [last[n] EXCEPT !.by = b]]
      BY <2>1 DEF AloneInv, VaultTypes
    <3>2. last[n] \in LastChange
      BY <2>1 DEF AloneInv, VaultTypes
    <3>3. /\ [last[n] EXCEPT !.by = b] \in LastChange
          /\ [last[n] EXCEPT !.by = b].secret = last[n].secret
          /\ [last[n] EXCEPT !.by = b].by = b
      BY <2>2, <3>2 DEF LastChange
    <3> QED
      BY <2>1, <3>1, <3>3 DEF AloneInv, VaultTypes
  <2>5. VaultTypes' /\ FileInv'
    BY <1>1, <1>3, <2>4 DEF AloneInv, VaultTypes, FileInv, Vault!Unlocked
  <2>6. ASSUME NEW l \in Keys, last'[l].by = "ok"
        PROVE  /\ Vault!OnDisk(l)' \/ (vault = 0 /\ last[l].secret = NoSecret)'
               /\ (Vault!Unlocked => values[l] = last[l].secret)'
    <3>1. CASE l = n
      <4>1. Vault!At(t, "done")
        BY <2>2, <2>4, <2>6, <3>1
      <4>2. vault # 0 /\ node[vault].whole /\ node[vault].values = values
        BY <1>2, <4>1 DEF CallInv, Vault!Contents
      <4> QED
        BY <1>1, <2>3, <2>4, <3>1, <4>2 DEF Vault!OnDisk
    <3>2. CASE l # n
      <4>1. last'[l] = last[l]
        BY <2>4, <3>2
      <4> QED
        BY <1>1, <2>6, <4>1 DEF AloneInv, KeptInv, Vault!OnDisk, Vault!Unlocked
    <3> QED
      BY <3>1, <3>2
  <2>7. KeptInv'
    BY <2>6 DEF KeptInv
  <2> QED
    BY <1>3, <1>4, <2>5, <2>7 DEF AloneInv
<1>6. CASE ~(work[t].op = "change" /\ last[work[t].name].by = t)
  <2>1. last' = last
    BY <1>6 DEF Vault!Return
  <2>2. VaultTypes' /\ FileInv' /\ KeptInv'
    BY <1>1, <1>3, <2>1 DEF AloneInv, VaultTypes, FileInv, KeptInv, Vault!OnDisk, Vault!Unlocked
  <2> QED
    BY <1>3, <1>4, <2>2 DEF AloneInv
<1> QED
  BY <1>5, <1>6

(* The process ends.                                                       *)
LEMMA ExitSafe ==
    ASSUME Vault!VaultAssumption, AloneInv, Vault!Exit
    PROVE  AloneInv'
<1>1. /\ key' = Vault!NoKey /\ values' = Vault!Empty /\ work' = [t \in Threads |-> Vault!Idle]
      /\ UNCHANGED <<vault, tmp, node, salts>>
      /\ last' = [k \in Keys |-> IF last[k].by \in Threads THEN [last[k] EXCEPT !.by = "failed"]
                                 ELSE last[k]]
  BY DEF Vault!Exit, Vault!fileVars
<1>2. /\ work' \in [Threads -> VaultJob] /\ \A u \in Threads : work'[u] = Vault!Idle
  BY <1>1, VaultBasics
<1>3. (\A u \in Threads : CallInv(u)') /\ OneCall'
  BY <1>2, RestsThen DEF OneCall
<1>4. ASSUME NEW k \in Keys
      PROVE  /\ last'[k] \in LastChange
             /\ last'[k].by = "ok" => last'[k] = last[k]
  <2>1. last[k] \in LastChange
    BY DEF AloneInv, VaultTypes
  <2>2. /\ [last[k] EXCEPT !.by = "failed"] \in LastChange
        /\ [last[k] EXCEPT !.by = "failed"].by = "failed"
    BY <2>1 DEF LastChange
  <2> QED
    BY <1>1, <2>1, <2>2
<1>5. VaultTypes'
  BY <1>1, <1>2, <1>4, VaultBasics DEF AloneInv, VaultTypes
<1>6. FileInv'
  BY <1>1 DEF AloneInv, FileInv, Vault!Unlocked
<1>7. KeptInv'
  BY <1>1, <1>4 DEF AloneInv, KeptInv, Vault!OnDisk, Vault!Unlocked
<1> QED
  BY <1>3, <1>5, <1>6, <1>7 DEF AloneInv

(* The invariant of the vault: as long as no two calls overlapped, it      *)
(* holds at every step, whatever fails and wherever the process ends       *)
(* (EncryptedFileSecretStore).                                             *)
THEOREM VaultSafety ==
    ASSUME Vault!VaultAssumption
    PROVE  Vault!VaultSpec => []VaultInv
<1>1. Vault!VaultInit => VaultInv
  <2> SUFFICES ASSUME Vault!VaultInit PROVE AloneInv
    BY DEF VaultInv
  <2>1. \A t \in Threads : work[t] = Vault!Idle /\ CallInv(t) /\ Vault!At(t, "idle")
    BY Rests DEF Vault!VaultInit
  <2>2. VaultTypes
    BY <2>1, VaultBasics DEF Vault!VaultInit, VaultTypes, MaybeSecret, LastChange
  <2>3. FileInv /\ KeptInv
    BY DEF Vault!VaultInit, FileInv, KeptInv, Vault!Unlocked
  <2> QED
    BY <2>1, <2>2, <2>3 DEF AloneInv, OneCall
<1>2. VaultInv /\ [Vault!VaultNext]_(Vault!vars) => VaultInv'
  <2> SUFFICES ASSUME VaultInv, [Vault!VaultNext]_(Vault!vars), ~met' PROVE AloneInv'
    BY DEF VaultInv
  <2>1. CASE UNCHANGED Vault!vars
    <3>1. AloneInv
      BY <2>1 DEF VaultInv, Vault!vars
    <3>2. UNCHANGED <<key, values, vault, tmp, node, work, salts, last>>
      BY <2>1 DEF Vault!vars, Vault!memoryVars, Vault!fileVars
    <3> QED
      BY <3>1, <3>2 DEF AloneInv, VaultTypes, OneCall, CallInv, Vault!At, FileInv, KeptInv,
                        Vault!OnDisk, Vault!Unlocked
  <2>2. CASE Vault!VaultNext
    <3>1. AloneInv
      BY <2>2 DEF Vault!VaultNext, VaultInv, Vault!Begin, Vault!Unlock, Vault!Create,
                  Vault!Lock, Vault!Change, Vault!Snapshot, Vault!OpenTmp,
                  Vault!WriteTmp, Vault!Rename, Vault!FailPersist, Vault!Return, Vault!Exit
    <3>2. ASSUME NEW t \in Threads, NEW p \in Passwords, Vault!Unlock(t, p) \/ Vault!Create(t, p)
          PROVE  AloneInv'
      BY <3>1, <3>2, UnlockSafe, CreateSafe
    <3>3. ASSUME NEW t \in Threads, Vault!Lock(t) PROVE AloneInv'
      BY <3>1, <3>3, LockSafe
    <3>4. ASSUME NEW t \in Threads, NEW k \in Keys, NEW s \in VaultSecrets \union {NoSecret},
                 Vault!Change(t, k, s)
          PROVE  AloneInv'
      BY <3>1, <3>4, ChangeSafe DEF MaybeSecret
    <3>5. ASSUME NEW t \in Threads,
                 Vault!Snapshot(t) \/ Vault!OpenTmp(t) \/ Vault!WriteTmp(t)
                   \/ Vault!Rename(t) \/ Vault!FailPersist(t) \/ Vault!Return(t)
          PROVE  AloneInv'
      BY <3>1, <3>5, SnapshotSafe, OpenTmpSafe, WriteTmpSafe, RenameSafe,
         FailPersistSafe, ReturnSafe
    <3>6. ASSUME Vault!Exit PROVE AloneInv'
      BY <3>1, <3>6, ExitSafe
    <3> QED
      BY <2>2, <3>2, <3>3, <3>4, <3>5, <3>6 DEF Vault!VaultNext
  <2> QED
    BY <2>1, <2>2
<1> QED
  BY <1>1, <1>2, PTL DEF Vault!VaultSpec

(* A secret that a call stored, or deleted, is so in the vault when the    *)
(* call said so, and stays so through failures and the end of the process  *)
(* (set, delete and persist).                                              *)
THEOREM VaultKeepsWhatItAccepted ==
    ASSUME Vault!VaultAssumption
    PROVE  Vault!VaultSpec => []Vault!AcceptedSurvives
<1>1. VaultInv => Vault!AcceptedSurvives
  BY DEF VaultInv, AloneInv, KeptInv, Vault!AcceptedSurvives
<1> QED
  BY <1>1, VaultSafety, PTL

(* The vault is never a torn file, and when nothing is under way the key   *)
(* in memory opens it (persist, atomic_write).                             *)
THEOREM VaultIsWhole ==
    ASSUME Vault!VaultAssumption
    PROVE  Vault!VaultSpec => []Vault!VaultStaysWhole
<1>1. VaultInv => Vault!VaultStaysWhole
  BY DEF VaultInv, AloneInv, FileInv, Vault!VaultStaysWhole
<1> QED
  BY <1>1, VaultSafety, PTL


-----------------------------------------------------------------------------
(* Both of them beside the other stores.  What moves is one store, so the  *)
(* part of a behaviour that is the keyring's, or the vault's, is one of    *)
(* its own.                                                                *)

LEMMA KeyringAmongStores == StoresSpec => KeyringSpec
<1>1. StoresInit => KeyringInit
  BY DEF StoresInit
<1>2. [StoresNext]_storesVars => [KeyringNext]_keyringVars
  BY DEF StoresNext, storesVars
<1> QED
  BY <1>1, <1>2, PTL DEF StoresSpec, KeyringSpec

LEMMA VaultAmongStores == StoresSpec => Vault!VaultSpec
<1>1. StoresInit => Vault!VaultInit
  BY DEF StoresInit
<1>2. [StoresNext]_storesVars => [Vault!VaultNext]_(Vault!vars)
  BY DEF StoresNext, storesVars, vaultVars, Vault!vars, Vault!memoryVars, Vault!fileVars
<1> QED
  BY <1>1, <1>2, PTL DEF StoresSpec, Vault!VaultSpec

(* A secret is whole wherever it is kept, and no piece of another is left  *)
(* beside it (keyring_store.rs, encrypted_file_store.rs).                  *)
THEOREM StoredSecretsAreWhole ==
    ASSUME SecretsAssumption
    PROVE  StoresSpec => []SecretsStayWhole
<1>1. KeyringAssumption /\ Vault!VaultAssumption
  BY DEF SecretsAssumption
<1>2. KeyringSpec => [](EntryIsWhole /\ NoPieceIsLeft /\ EntriesFit)
  BY <1>1, KeyringEntryIsWhole, KeyringNoPieceIsLeft, KeyringEntriesFit, PTL
<1>3. Vault!VaultSpec => [](Vault!AcceptedSurvives /\ Vault!VaultStaysWhole)
  BY <1>1, VaultKeepsWhatItAccepted, VaultIsWhole, PTL
<1>4. EntryIsWhole /\ NoPieceIsLeft /\ EntriesFit
        /\ Vault!AcceptedSurvives /\ Vault!VaultStaysWhole => SecretsStayWhole
  BY DEF SecretsStayWhole
<1> QED
  BY <1>2, <1>3, <1>4, KeyringAmongStores, VaultAmongStores, PTL

(* The keyring behaves as a store of whole secrets, whatever moves.        *)
THEOREM StoresHaveASecretStore ==
    ASSUME SecretsAssumption
    PROVE  StoresSpec => KeyringIsSecretStore
<1>1. KeyringAssumption
  BY DEF SecretsAssumption
<1>2. [Contract!SecretNext]_(Contract!secretVars) =>
        [part = "keyring" =>
            [Contract!SecretNext]_(Contract!secretVars)]_keyringVars
  OBVIOUS
<1> QED
  BY <1>1, <1>2, KeyringImplementsSecretStore, KeyringAmongStores, PTL
     DEF ImplementsSecretStore, Contract!SecretSpec, KeyringIsSecretStore
=============================================================================
