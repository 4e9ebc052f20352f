----------------------------- MODULE SecretStore ------------------------------
(***************************************************************************)
(* What a SecretStore promises of one key, as its callers in CodexAuth use *)
(* it, and what MemorySecretStore does under its mutex: get, set and       *)
(* delete take effect at one moment between call and return.  A call that  *)
(* fails may have taken effect or not.                                     *)
(***************************************************************************)
CONSTANTS
    Clients,        \* who calls the store
    Secrets,        \* what may be stored
    Blank,          \* the secrets a store does not tell from none
    NoSecret        \* what get tells when nothing is stored

\* What the constants must be.
SecretStoreAssumption == NoSecret \notin Secrets /\ Blank \subseteq Secrets

VARIABLES
    value,          \* what get tells of the key
    call            \* call[c]: the call that a client is making

secretVars == <<value, call>>

Told(s) == IF s \in Blank THEN NoSecret ELSE s
Free == [op |-> "none", secret |-> NoSecret, done |-> FALSE, result |-> NoSecret,
         outcome |-> "pending"]
Asked(op, s) == [Free EXCEPT !.op = op, !.secret = s]

SecretInit ==
    /\ value = NoSecret
    /\ call = [c \in Clients |-> Free]

Call(c) ==
    /\ call[c] = Free
    /\ \/ \E op \in {"get", "delete"} : call' = [call EXCEPT ![c] = Asked(op, NoSecret)]
       \/ \E s \in Secrets : call' = [call EXCEPT ![c] = Asked("set", s)]
    /\ UNCHANGED value

Pending(c) == call[c] # Free /\ call[c].outcome = "pending"
Effect(c, op) == Pending(c) /\ call[c].op = op /\ ~call[c].done

Get(c) ==
    /\ Effect(c, "get")
    /\ call' = [call EXCEPT ![c].done = TRUE, ![c].result = value]
    /\ UNCHANGED value

Set(c) ==
    /\ Effect(c, "set")
    /\ value' = Told(call[c].secret)
    /\ call' = [call EXCEPT ![c].done = TRUE]

Delete(c) ==
    /\ Effect(c, "delete")
    /\ value' = NoSecret
    /\ call' = [call EXCEPT ![c].done = TRUE]

Return(c) ==
    /\ Pending(c) /\ call[c].done
    /\ call' = [call EXCEPT ![c].outcome = "ok"]
    /\ UNCHANGED value

Fail(c) ==
    /\ Pending(c)
    /\ call' = [call EXCEPT ![c].outcome = "error"]
    /\ UNCHANGED value

(* The caller has its answer, or does not wait for it any more.            *)
Leave(c) ==
    /\ call[c] # Free
    /\ call' = [call EXCEPT ![c] = Free]
    /\ UNCHANGED value

SecretNext ==
    \E c \in Clients :
        Call(c) \/ Get(c) \/ Set(c) \/ Delete(c) \/ Return(c) \/ Fail(c) \/ Leave(c)

SecretSpec == SecretInit /\ [][SecretNext]_secretVars
=============================================================================
