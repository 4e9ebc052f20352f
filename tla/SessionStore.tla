---------------------------- MODULE SessionStore ----------------------------
(***************************************************************************)
(* What a session store promises to its clients: conversations under a     *)
(* revision that every accepted save increases, and a save that is refused *)
(* unless it names the revision that is stored.  DoLoad, DoSave, DoDelete  *)
(* and DoList are the methods of InMemorySessionStore, each of which is    *)
(* one critical section.                                                   *)
(*                                                                         *)
(* A call is made, takes effect and returns in steps of its own, so that a *)
(* store that works in several steps can be shown to implement this one.   *)
(* Fail, ListPart, Crash and Lose are what such a store adds: an error,    *)
(* before or after the effect, a list that lacks what the disk could not   *)
(* tell, a client that dies in a call, and a record that is damaged from   *)
(* outside.                                                                *)
(*                                                                         *)
(* A conversation is the sequence of the clients that have written to it.  *)
(* An absent session is the record that SessionRecord::new would make, of  *)
(* revision 0: no stored record has it.                                    *)
(***************************************************************************)
EXTENDS Naturals, Sequences

CONSTANTS
    Sessions,       \* session identifiers
    Clients,        \* the tasks that use the store: runs and session calls
    Removable,      \* sessions that may be deleted, or lose their record
    MaxRevision     \* bound: no save of a copy that has this revision

ASSUME StoreAssumption ==
    /\ MaxRevision \in Nat
    /\ Removable \subseteq Sessions

VARIABLES
    records,    \* records[s]: what the store holds
    phase,      \* phase[c]: the call a client is in, "copied" while it works
    sess,       \* sess[c]: the session it works on
    copy,       \* copy[c]: its copy of the record
    answer,     \* answer[c]: the outcome of its call, "Open" before it has one
    listed      \* listed[c]: the revisions its call of list has read

clientVars == <<phase, sess, copy, answer, listed>>
sessionVars == <<records, phase, sess, copy, answer, listed>>

Record == [revision : Nat, messages : Seq(Clients)]
Fresh == [revision |-> 0, messages |-> <<>>]
Kept == Sessions \ Removable
CallPhases == {"load", "save", "delete", "list"}
Phases == {"idle", "copied"} \union CallPhases
Outcomes == {"Open", "Ok", "Conflict", "Failed"}

\* Mutant: every record that replaces another has revision 1.
SavedAsFirst(r) == [revision |-> 1, messages |-> r.messages]

(* save: the record that replaces the stored one.                          *)
Saved(r) == [revision |-> r.revision + 1, messages |-> r.messages]

(* The summaries of list, by revision; 0 for a session that is not there,  *)
(* or was not seen.                                                        *)
Revisions(rs) == [s \in Sessions |-> rs[s].revision]
RevisionsOf(rs, seen) == [s \in Sessions |-> IF s \in seen THEN rs[s].revision ELSE 0]
NothingListed == [s \in Sessions |-> 0]

SessionTypeOK ==
    /\ records \in [Sessions -> Record]
    /\ phase \in [Clients -> Phases]
    /\ sess \in [Clients -> Sessions]
    /\ copy \in [Clients -> Record]
    /\ answer \in [Clients -> Outcomes]
    /\ listed \in [Clients -> [Sessions -> Nat]]

SessionInit ==
    /\ records = [s \in Sessions |-> Fresh]
    /\ phase = [c \in Clients |-> "idle"]
    /\ \E s \in Sessions : sess = [c \in Clients |-> s]
    /\ copy = [c \in Clients |-> Fresh]
    /\ answer = [c \in Clients |-> "Open"]
    /\ listed = [c \in Clients |-> NothingListed]

----------------------------------------------------------------------------
(* Calls.  A run loads its session, or starts from a fresh record, and     *)
(* saves it with what it added; create_session saves a fresh record.       *)

Call(c, p, s) ==
    /\ phase' = [phase EXCEPT ![c] = p]
    /\ sess' = [sess EXCEPT ![c] = s]
    /\ answer' = [answer EXCEPT ![c] = "Open"]
    /\ UNCHANGED <<records, listed>>

CallLoad(c, s) ==
    /\ phase[c] = "idle"
    /\ Call(c, "load", s)
    /\ UNCHANGED copy

(* The conversation a run saves is what it loaded and what it added.       *)
Longer(r, c) == [revision |-> r.revision, messages |-> Append(r.messages, c)]

CallSave(c) ==
    /\ phase[c] = "copied"
    /\ copy[c].revision < MaxRevision
    /\ Call(c, "save", sess[c])
    /\ copy' = [copy EXCEPT ![c] = Longer(copy[c], c)]

CallCreate(c, s) ==
    /\ phase[c] = "idle"
    /\ MaxRevision > 0
    /\ Call(c, "save", s)
    /\ copy' = [copy EXCEPT ![c] = Fresh]

CallDelete(c, s) ==
    /\ s \in Removable
    /\ phase[c] = "idle"
    /\ Call(c, "delete", s)
    /\ UNCHANGED copy

CallList(c) ==
    /\ phase[c] = "idle"
    /\ Call(c, "list", sess[c])
    /\ UNCHANGED copy

(* A run that fails or is cancelled never saves its copy.                  *)
Forget(c) ==
    /\ phase[c] = "copied"
    /\ phase' = [phase EXCEPT ![c] = "idle"]
    /\ copy' = [copy EXCEPT ![c] = Fresh]
    /\ UNCHANGED <<records, sess, answer, listed>>

----------------------------------------------------------------------------
(* The methods.                                                            *)

Running(c, p) == phase[c] = p /\ answer[c] = "Open"
Answer(c, a) == answer' = [answer EXCEPT ![c] = a]

DoLoad(c) ==
    /\ Running(c, "load")
    /\ copy' = [copy EXCEPT ![c] = records[sess[c]]]
    /\ Answer(c, "Ok")
    /\ UNCHANGED <<records, phase, sess, listed>>

\* Mutant: a record of revision 0 replaces whatever is stored.
StaleUnlessFresh(c) ==
    /\ copy[c].revision # 0
    /\ records[sess[c]].revision # copy[c].revision

\* Mutant: a session that is gone takes any record.
StaleIfThere(c) ==
    /\ records[sess[c]].revision # 0
    /\ records[sess[c]].revision # copy[c].revision

Stale(c) == records[sess[c]].revision # copy[c].revision

DoSave(c) ==
    /\ Running(c, "save")
    /\ \/ /\ Stale(c)
          /\ Answer(c, "Conflict")
          /\ UNCHANGED records
       \/ /\ ~Stale(c)
          /\ records' = [records EXCEPT ![sess[c]] = Saved(copy[c])]
          /\ Answer(c, "Ok")
    /\ UNCHANGED <<phase, sess, copy, listed>>

DoDelete(c) ==
    /\ Running(c, "delete")
    /\ records' = [records EXCEPT ![sess[c]] = Fresh]
    /\ Answer(c, "Ok")
    /\ UNCHANGED <<phase, sess, copy, listed>>

DoList(c) ==
    /\ Running(c, "list")
    /\ listed' = [listed EXCEPT ![c] = Revisions(records)]
    /\ Answer(c, "Ok")
    /\ UNCHANGED <<records, phase, sess, copy>>

Return(c) ==
    /\ phase[c] \in CallPhases
    /\ answer[c] # "Open"
    /\ IF phase[c] = "load" /\ answer[c] = "Ok"
       THEN /\ phase' = [phase EXCEPT ![c] = "copied"]
            /\ UNCHANGED copy
       ELSE /\ phase' = [phase EXCEPT ![c] = "idle"]
            /\ copy' = [copy EXCEPT ![c] = Fresh]
    /\ Answer(c, "Open")
    /\ listed' = [listed EXCEPT ![c] = NothingListed]
    /\ UNCHANGED <<records, sess>>

----------------------------------------------------------------------------
(* What a store on a disk adds.                                            *)

Fail(c) ==
    /\ phase[c] \in CallPhases
    /\ answer[c] \in {"Open", "Ok"}
    /\ Answer(c, "Failed")
    /\ UNCHANGED <<records, phase, sess, copy, listed>>

(* A list that lacks sessions and does not say so.                         *)
ListPart(c) ==
    /\ Running(c, "list")
    /\ \E seen \in SUBSET Sessions :
          listed' = [listed EXCEPT ![c] = RevisionsOf(records, seen)]
    /\ Answer(c, "Ok")
    /\ UNCHANGED <<records, phase, sess, copy>>

Crash(c) ==
    /\ phase[c] # "idle"
    /\ phase' = [phase EXCEPT ![c] = "idle"]
    /\ copy' = [copy EXCEPT ![c] = Fresh]
    /\ Answer(c, "Open")
    /\ listed' = [listed EXCEPT ![c] = NothingListed]
    /\ UNCHANGED <<records, sess>>

Lose(s) ==
    /\ s \in Removable
    /\ records[s] # Fresh
    /\ records' = [records EXCEPT ![s] = Fresh]
    /\ UNCHANGED clientVars

ClientNext(c) ==
    \/ \E s \in Sessions : CallLoad(c, s) \/ CallCreate(c, s) \/ CallDelete(c, s)
    \/ CallSave(c)
    \/ CallList(c)
    \/ Forget(c)

StoreNext(c) ==
    \/ DoLoad(c) \/ DoSave(c) \/ DoDelete(c) \/ DoList(c)
    \/ Return(c) \/ Fail(c) \/ ListPart(c) \/ Crash(c)

SessionNext ==
    \/ \E c \in Clients : ClientNext(c) \/ StoreNext(c)
    \/ \E s \in Sessions : Lose(s)

SessionSpec == SessionInit /\ [][SessionNext]_sessionVars

----------------------------------------------------------------------------
Extends(t, s) == Len(s) <= Len(t) /\ \A i \in 1 .. Len(s) : t[i] = s[i]

(* docs/python/sessions.md: "revision CAS; stale writes raise              *)
(* StateConflictError (not last-write-wins)".  No step replaces a stored   *)
(* conversation by one that lacks a part of it: whoever saves has seen     *)
(* everything that is stored.  It takes a session that nobody deletes:     *)
(* delete forgets the revision, and a copy of the deleted session can have *)
(* that of a new one by chance.                                            *)
NoLostUpdate ==
    [][\A s \in Kept : Extends(records'[s].messages, records[s].messages)]_sessionVars

(* A save that was answered Ok is on the record: the stored conversation   *)
(* contains it, whatever other clients save or fail to save since, and its *)
(* revision is one that the client has not seen.                           *)
AcceptedIsStored ==
    \A c \in Clients :
        phase[c] = "save" /\ answer[c] = "Ok" /\ sess[c] \in Kept =>
            /\ Extends(records[sess[c]].messages, copy[c].messages)
            /\ records[sess[c]].revision > copy[c].revision

(* A run that was under way when its session was deleted does not bring    *)
(* the deleted conversation back: what is stored where nothing was stored  *)
(* is a first record, with nothing in it but what its client added.        *)
NoResurrection ==
    [][\A s \in Sessions :
          records[s].revision = 0 /\ records'[s].revision > 0
              => records'[s].revision = 1 /\ Len(records'[s].messages) <= 1]_sessionVars
=============================================================================
