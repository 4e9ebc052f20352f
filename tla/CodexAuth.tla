------------------------------ MODULE CodexAuth ------------------------------
(***************************************************************************)
(* The sign-in state of Codex accounts: CodexAuthManager and its           *)
(* CodexCredentialStore.  An account has secrets in a secret store and a   *)
(* record in an index that is one more secret; both are cached.            *)
(* Callers refresh credentials, sign in, sign out and look at an account   *)
(* at the same time.  Every call of the secret store is a step, and may    *)
(* fail; the process may end and start again.                              *)
(*                                                                         *)
(* A grant is a number: the tokens of one answer of the token endpoint.    *)
(* Credentials say for each secret from which grant it is, 0 for none.     *)
(* The clock is left out: a token that is not refreshed on demand may or   *)
(* may not be due when it is looked at.  So are the ID token and the time  *)
(* of the last refresh, the third and fourth secrets of an account: the    *)
(* account an ID token names is compared before anything is stored, and an *)
(* error of these secrets comes to the same as an error of the step that   *)
(* follows.                                                                *)
(***************************************************************************)
EXTENDS Naturals, FiniteSets

CONSTANTS
    Accounts,       \* account identifiers
    NoAccount,      \* a request that names none
    Callers,        \* the tasks and threads that use the manager
    NoCaller,
    LegacyAccount,  \* whose secrets a former version left, or NoAccount
    Faults,         \* what may go wrong, among Faulty
    Answers,        \* the sets of tokens that a refresh may be answered with
    MaxGrants,      \* bound: grants that are ever issued
    MaxCalls,       \* bound: calls of the host
    MaxFaults       \* bound: things that go wrong

Faulty == {"get", "set", "delete", "network", "restart"}

Keys == <<"access", "refresh">>
Kinds == {"access", "refresh"}

ASSUME AuthAssumption ==
    /\ NoAccount \notin Accounts
    /\ NoCaller \notin Callers
    /\ LegacyAccount \in Accounts \union {NoAccount}
    /\ Faults \subseteq Faulty
    /\ Answers \subseteq SUBSET Kinds
    /\ MaxGrants \in Nat \ {0}
    /\ MaxCalls \in Nat
    /\ MaxFaults \in Nat

VARIABLES
    secret,         \* secret[a]: the stored credentials of an account
    index,          \* the accounts of the stored index
    legacy,         \* what is left of the secrets of the former version
    cached,         \* cached[a]: the cached credentials
    cachedIndex,    \* the cached index: no element, or one
    migrated,       \* the mutex of the migration guards this flag ...
    migrating,      \* ... and is held by this caller
    lock,           \* lock[a]: who holds the lock of an account
    loginInProgress,
    job,            \* job[c]: what a caller is doing
    grants,         \* the number of grants issued
    spent,          \* refresh tokens that the endpoint has replaced
    calls,          \* calls so far
    faults          \* faults so far

(* What the properties need to know of the past.                           *)
VARIABLES
    dropped,        \* refresh tokens whose replacement may have been lost
    torn,           \* accounts whose last change was cut off
    apart,          \* nobody used the store while another changed accounts
    abandoned,      \* an attempt to sign in was dropped
    astray          \* the index was changed by a call that failed, and not written since

storeVars == <<secret, index, legacy, cached, cachedIndex>>
serverVars == <<grants, spent>>
pastVars == <<dropped, torn, abandoned, astray>>
authVars == <<storeVars, migrated, migrating, lock, loginInProgress, job,
              serverVars, calls, faults, pastVars, apart>>

Grants == 1..MaxGrants
Credentials == [Kinds -> 0..MaxGrants]
From(g) == [k \in Kinds |-> g]
None == From(0)
Whole(r) == r.access # 0 /\ r.refresh # 0

Ops == {"none", "refresh", "status", "login", "logout"}
Points == {"idle", "ensure", "migrate", "clean", "resolve", "status", "lock", "read", "get",
           "keep", "decide", "sent", "set", "upsert", "adopt", "cache", "erase", "delete",
           "deleted", "remove", "url", "accept"}
Jobs == [op : Ops, at : Points, acct : Accounts \union {NoAccount},
         on : Accounts \union {NoAccount}, key : 1..2, creds : Credentials,
         recs : SUBSET SUBSET Accounts, fill : BOOLEAN, replaces : 0..MaxGrants,
         failed : BOOLEAN]

AuthTypeOK ==
    /\ secret \in [Accounts -> Credentials]
    /\ index \in SUBSET Accounts
    /\ legacy \in Credentials
    /\ cached \in [Accounts -> Credentials]
    /\ cachedIndex \in SUBSET SUBSET Accounts
    /\ migrated \in BOOLEAN /\ loginInProgress \in BOOLEAN
    /\ migrating \in Callers \union {NoCaller}
    /\ lock \in [Accounts -> Callers \union {NoCaller}]
    /\ job \in [Callers -> Jobs]
    /\ grants \in 0..MaxGrants
    /\ calls \in 0..MaxCalls /\ faults \in 0..MaxFaults
    /\ spent \in SUBSET Nat /\ dropped \in SUBSET Nat
    /\ torn \in SUBSET (Accounts \union {NoAccount})
    /\ apart \in BOOLEAN /\ abandoned \in BOOLEAN /\ astray \in BOOLEAN

Idle == [op |-> "none", at |-> "idle", acct |-> NoAccount, on |-> NoAccount,
         key |-> 1, creds |-> None, recs |-> {}, fill |-> FALSE,
         replaces |-> 0, failed |-> FALSE]

AuthInit ==
    /\ secret = [a \in Accounts |-> None]
    /\ index = {}
    /\ legacy = IF LegacyAccount \in Accounts THEN From(1) ELSE None
    /\ cached = [a \in Accounts |-> None]
    /\ cachedIndex = {}
    /\ migrated = FALSE
    /\ migrating = NoCaller
    /\ lock = [a \in Accounts |-> NoCaller]
    /\ loginInProgress = FALSE
    /\ job = [c \in Callers |-> Idle]
    /\ grants = IF LegacyAccount \in Accounts THEN 1 ELSE 0
    /\ spent = {}
    /\ calls = 0
    /\ faults = 0
    /\ dropped = {}
    /\ torn = {}
    /\ apart = TRUE
    /\ abandoned = FALSE
    /\ astray = FALSE

At(c, p) == job[c].at = p
SignsIn(c) == job[c].op = "login"

(* The steps of a caller that is inside the credential store.  These run   *)
(* without an await: only another thread can come between them.            *)
StorePoints == {"migrate", "resolve", "read", "get", "keep", "set", "upsert", "adopt",
                "cache", "clean", "erase", "delete", "deleted", "remove",
                "status"}
InStore == {c \in Callers : job[c].at \in StorePoints}

(* The points where storing credentials is cut off by an error or the end  *)
(* of the process.                                                         *)
Changing(j) == j.op # "logout" /\ j.at \in {"set", "upsert", "adopt", "cache"}

----------------------------------------------------------------------------
(* Going on, and coming to an end.                                         *)

Goto(c, p) == job' = [job EXCEPT ![c].at = p]

(* One secret after the other, and then on to p.                           *)
NextKey(j, p) ==
    IF j.key = 1 THEN [j EXCEPT !.key = 2] ELSE [j EXCEPT !.key = 1, !.at = p]

\* Mutant: an attempt to sign in that ends leaves the flag set.
KeepsTheFlag(c) ==
    /\ lock' = [a \in Accounts |-> IF lock[a] = c THEN NoCaller ELSE lock[a]]
    /\ migrating' = IF migrating = c THEN NoCaller ELSE migrating
    /\ UNCHANGED loginInProgress

(* A caller that returns gives up what it holds: the guards of the account *)
(* lock and of the migration are dropped, and wait resets the flag.        *)
Released(c) ==
    /\ lock' = [a \in Accounts |-> IF lock[a] = c THEN NoCaller ELSE lock[a]]
    /\ migrating' = IF migrating = c THEN NoCaller ELSE migrating
    /\ loginInProgress' = (loginInProgress /\ ~SignsIn(c))

Return(c) ==
    /\ job' = [job EXCEPT ![c] = Idle]
    /\ Released(c)

(* An error: what the caller was changing stays as it is.                  *)
GiveUp(c) ==
    /\ Return(c)
    /\ dropped' = dropped \union ({job[c].replaces} \ {0})
    /\ torn' = IF Changing(job[c]) THEN torn \union {job[c].on} ELSE torn
    /\ UNCHANGED <<migrated, serverVars, calls, abandoned>>

AsItWas == UNCHANGED <<storeVars, astray>>

Fail(c) == GiveUp(c) /\ AsItWas /\ UNCHANGED faults

Fault(kind) ==
    /\ kind \in Faults
    /\ faults < MaxFaults
    /\ faults' = faults + 1

Held == <<migrating, lock, loginInProgress>>
OnlyCall == UNCHANGED <<storeVars, migrated, Held, serverVars, faults, pastVars>>
OnlyJob == OnlyCall /\ UNCHANGED calls

----------------------------------------------------------------------------
(* The calls.                                                              *)

Begin(c, op, p, a) ==
    /\ At(c, "idle")
    /\ calls < MaxCalls
    /\ calls' = calls + 1
    /\ job' = [job EXCEPT ![c] = [Idle EXCEPT !.op = op, !.at = p, !.acct = a, !.on = a]]

(* bearer, force_refresh and refresh; status and accounts.                 *)
CallRefresh(c, a) == Begin(c, "refresh", "ensure", a) /\ OnlyCall
CallStatus(c) == Begin(c, "status", "ensure", NoAccount) /\ OnlyCall

(* logout goes straight to the secrets.                                    *)
CallLogout(c, a) == Begin(c, "logout", "erase", a) /\ OnlyCall

Issue == grants < MaxGrants /\ grants' = grants + 1

(* store_credentials; an ID token that names another account is refused    *)
(* before.                                                                 *)
Store(j, a, creds) == [j EXCEPT !.at = "set", !.on = a, !.key = 1, !.creds = creds, !.recs = {}]

(* begin_login: only one attempt at a time.  The flag is set, and reset    *)
(* again if no callback port can be bound.                                 *)
CallLogin(c) ==
    /\ ~loginInProgress
    /\ Begin(c, "login", "url", NoAccount)
    /\ loginInProgress' = TRUE
    /\ UNCHANGED <<storeVars, migrated, migrating, lock, serverVars, faults, pastVars>>

(* What the host does with an attempt: wait, cancel, or drop it.           *)
Wait(c) ==
    /\ At(c, "url")
    /\ Goto(c, "accept")
    /\ OnlyJob

Cancel(c) ==
    /\ At(c, "url")
    /\ Fail(c)

(* Nothing resets the flag of an attempt that is dropped: before it is     *)
(* waited for, while it waits, or while the browser is told of success.    *)
Drop(c) ==
    /\ SignsIn(c) /\ job[c].at \in {"url", "accept", "ensure"}
    /\ job' = [job EXCEPT ![c] = Idle]
    /\ abandoned' = TRUE
    /\ UNCHANGED <<storeVars, migrated, Held, serverVars, calls, faults, dropped, torn, astray>>

(* The browser calls back with a code, which is exchanged for the tokens   *)
(* of the account that the ID token names.                                 *)
Complete(c) ==
    /\ At(c, "accept")
    /\ Issue
    /\ \E a \in Accounts :
           job' = [job EXCEPT ![c] = Store([@ EXCEPT !.acct = a], a, From(grants + 1))]
    /\ UNCHANGED <<storeVars, migrated, Held, spent, calls, faults, pastVars>>

(* A timeout, another state or path, or a refusal ends the attempt.        *)
NoCode(c) == At(c, "accept") /\ Fail(c)

----------------------------------------------------------------------------
(* The migration of the secrets of a former version, under a mutex.        *)

AfterEnsure(c) == IF job[c].op = "refresh" THEN "resolve" ELSE "status"

Ensure(c) ==
    /\ At(c, "ensure")
    /\ migrating = NoCaller
    /\ \/ migrated /\ Goto(c, AfterEnsure(c)) /\ OnlyJob
       \/ /\ ~migrated
          /\ Goto(c, "migrate")
          /\ migrating' = c
          /\ UNCHANGED <<storeVars, migrated, lock, loginInProgress, serverVars, calls, faults,
                         pastVars>>

Migrated(c) ==
    /\ Goto(c, AfterEnsure(c))
    /\ migrated' = TRUE
    /\ migrating' = NoCaller
    /\ UNCHANGED <<lock, loginInProgress, serverVars, calls, faults, pastVars>>

(* Only the holder of the mutex touches these secrets: they are read at    *)
(* once.                                                                   *)
Migrate(c) ==
    /\ At(c, "migrate")
    /\ \/ /\ Whole(legacy)
          /\ OnlyJob
          /\ job' = [job EXCEPT ![c] = Store(@, LegacyAccount, legacy)]
       \/ ~Whole(legacy) /\ Migrated(c) /\ UNCHANGED storeVars

Clean(c) ==
    /\ At(c, "clean")
    /\ legacy' = [legacy EXCEPT ![Keys[job[c].key]] = 0]
    /\ UNCHANGED <<secret, index, cached, cachedIndex>>
    /\ \/ job[c].key # 1 /\ Migrated(c)
       \/ /\ job[c].key = 1
          /\ job' = [job EXCEPT ![c] = NextKey(@, "clean")]
          /\ UNCHANGED <<migrated, Held, serverVars, calls, faults, pastVars>>

----------------------------------------------------------------------------
(* read_account_index: the cached index, or else the stored one, which is  *)
(* then cached.                                                            *)

IndexPoints == {"resolve", "upsert", "remove", "status"}
Known(c) == job[c].recs # {} /\ ~job[c].fill
Records(c) == UNION job[c].recs

ReadIndex(c) ==
    /\ job[c].at \in IndexPoints
    /\ job[c].recs = {}
    /\ \/ cachedIndex # {} /\ job' = [job EXCEPT ![c].recs = cachedIndex]
       \/ cachedIndex = {} /\ job' = [job EXCEPT ![c].recs = {index}, ![c].fill = TRUE]
    /\ OnlyJob

FillIndex(c) ==
    /\ job[c].fill
    /\ cachedIndex' = job[c].recs
    /\ job' = [job EXCEPT ![c].fill = FALSE]
    /\ UNCHANGED <<secret, index, legacy, cached, migrated, Held, serverVars, calls, faults,
                   pastVars>>

(* The account that is asked for, or else the only one there is.           *)
Selected(c) ==
    IF job[c].acct # NoAccount THEN Records(c) \intersect {job[c].acct}
    ELSE IF Cardinality(Records(c)) = 1 THEN Records(c) ELSE {}

Resolve(c) ==
    /\ At(c, "resolve") /\ Known(c)
    /\ \/ /\ \E a \in Selected(c) :
                job' = [job EXCEPT ![c].at = "lock", ![c].acct = a, ![c].recs = {}]
          /\ OnlyJob
       \/ Selected(c) = {} /\ Fail(c)

(* What status finds is told to the host.                                  *)
Status(c) ==
    /\ At(c, "status") /\ Known(c)
    /\ Return(c)
    /\ UNCHANGED <<storeVars, migrated, serverVars, calls, faults, pastVars>>

----------------------------------------------------------------------------
(* refresh_credentials, under the lock of the account.                     *)

Enter(c) ==
    /\ At(c, "lock")
    /\ lock' = [lock EXCEPT ![job[c].acct] = c]
    /\ Goto(c, "read")
    /\ UNCHANGED <<storeVars, migrated, migrating, loginInProgress, serverVars, calls, faults,
                   pastVars>>

\* Mutant: nobody waits for the lock.
AcquireAnyway(c) == Enter(c)

Acquire(c) ==
    /\ At(c, "lock")
    /\ lock[job[c].acct] = NoCaller
    /\ Enter(c)

(* read_credentials: from the cache, or secret by secret.  A token that is *)
(* not there is an error.                                                  *)
Lookup(c) ==
    /\ At(c, "read")
    /\ LET r == cached[job[c].acct] IN
       \/ r = None /\ job' = [job EXCEPT ![c].at = "get", ![c].key = 1, ![c].creds = None]
       \/ r # None /\ job' = [job EXCEPT ![c].at = "decide", ![c].creds = r]
    /\ OnlyJob

Get(c) ==
    /\ At(c, "get")
    /\ LET k == Keys[job[c].key]
           t == secret[job[c].acct][k] IN
       \/ /\ t # 0
          /\ job' = [job EXCEPT ![c] = NextKey([@ EXCEPT !.creds[k] = t], "keep")]
          /\ OnlyJob
       \/ t = 0 /\ Fail(c)

Keep(c) ==
    /\ At(c, "keep")
    /\ cached' = [cached EXCEPT ![job[c].acct] = job[c].creds]
    /\ Goto(c, "decide")
    /\ UNCHANGED <<secret, index, legacy, cachedIndex, migrated, Held, serverVars, calls, faults,
                   pastVars>>

(* The access token is good, or the refresh token is sent: on demand, or   *)
(* since the access token is due.                                          *)
Decide(c) ==
    /\ At(c, "decide")
    /\ \/ /\ Return(c)
          /\ UNCHANGED <<storeVars, migrated, serverVars, calls, faults, pastVars>>
       \/ Goto(c, "sent") /\ OnlyJob

(* The endpoint issues some tokens anew; the others stay.  A refresh token *)
(* it replaces is not good any more.                                       *)
Answered(c, fresh) ==
    /\ At(c, "sent")
    /\ Issue
    /\ spent' = IF "refresh" \in fresh THEN spent \union {job[c].creds.refresh} ELSE spent

Answer(c) ==
    \E fresh \in Answers :
        LET j == job[c]
            creds == [k \in Kinds |-> IF k \in fresh THEN grants + 1 ELSE j.creds[k]]
            old == IF "refresh" \in fresh THEN j.creds.refresh ELSE 0 IN
        /\ Answered(c, fresh)
        /\ job' = [job EXCEPT ![c] = [Store(j, j.acct, creds) EXCEPT !.replaces = old]]
        /\ UNCHANGED <<storeVars, migrated, Held, calls, faults, pastVars>>

(* Credentials that name another account are not taken.                    *)
AnswerForAnother(c) ==
    \E fresh \in Answers :
        /\ Answered(c, fresh)
        /\ dropped' = dropped \union (spent' \ spent)
        /\ Return(c)
        /\ UNCHANGED <<storeVars, migrated, calls, faults, torn, abandoned, astray>>

(* The endpoint refuses; or the answer does not arrive, or finds nobody,   *)
(* since the run that asked was cancelled and has dropped the call.  A     *)
(* call may be dropped while it waits for the lock, too.                   *)
Refused(c) == At(c, "sent") /\ Fail(c)

Abandon(c) == At(c, "lock") /\ Fail(c)

LoseAnswer(c) ==
    /\ At(c, "sent")
    /\ Fault("network")
    /\ spent' = spent \union {job[c].creds.refresh}
    /\ dropped' = dropped \union {job[c].creds.refresh}
    /\ Return(c)
    /\ UNCHANGED <<storeVars, migrated, grants, calls, torn, abandoned, astray>>

----------------------------------------------------------------------------
(* store_credentials: the secrets, the index, and last the cache.          *)

PutSecret(j) == secret' = [secret EXCEPT ![j.on][Keys[j.key]] = j.creds[Keys[j.key]]]

SetSecret(c) ==
    /\ At(c, "set")
    /\ PutSecret(job[c])
    /\ job' = [job EXCEPT ![c] = NextKey(@, "upsert")]
    /\ UNCHANGED <<index, legacy, cached, cachedIndex, migrated, Held, serverVars, calls, faults,
                   pastVars>>

(* The index is written as it was read, with the account or without it.    *)
WriteIndex(c, records) ==
    /\ index' = records
    /\ job' = [job EXCEPT ![c].recs = {records}, ![c].at = "adopt"]
    /\ UNCHANGED <<secret, legacy, cached, cachedIndex, migrated, Held, serverVars, calls, faults,
                   pastVars>>

WithIt(c) == Records(c) \union {job[c].on}
WithoutIt(c) == Records(c) \ {job[c].on}

Upsert(c) ==
    /\ At(c, "upsert") /\ Known(c)
    /\ WriteIndex(c, WithIt(c))

Remove(c) ==
    /\ At(c, "remove") /\ Known(c)
    /\ WriteIndex(c, WithoutIt(c))

Settled(c) ==
    /\ torn' = torn \ {job[c].on}
    /\ UNCHANGED <<dropped, abandoned>>

(* The migration does not cache the credentials; it deletes the old ones.  *)
Adopt(c) ==
    /\ At(c, "adopt")
    /\ cachedIndex' = job[c].recs
    /\ astray' = FALSE
    /\ \/ /\ migrating = c
          /\ job' = [job EXCEPT ![c].at = "clean", ![c].key = 1, ![c].recs = {}]
          /\ Settled(c)
          /\ UNCHANGED Held
       \/ /\ migrating # c /\ job[c].op = "logout"
          /\ Return(c)
          /\ Settled(c)
       \/ /\ migrating # c /\ job[c].op # "logout"
          /\ Goto(c, "cache")
          /\ UNCHANGED <<Held, dropped, torn, abandoned>>
    /\ UNCHANGED <<secret, index, legacy, cached, migrated, serverVars, calls, faults>>

(* Who signed in looks at the account next, which may migrate.             *)
Cache(c) ==
    /\ At(c, "cache")
    /\ cached' = [cached EXCEPT ![job[c].on] = job[c].creds]
    /\ Settled(c) /\ UNCHANGED astray
    /\ \/ job[c].op = "refresh" /\ Return(c)
       \/ /\ job[c].op = "login"
          /\ job' = [job EXCEPT ![c] = [Idle EXCEPT !.op = "login", !.at = "ensure",
                                                    !.acct = job[c].acct]]
          /\ UNCHANGED Held
    /\ UNCHANGED <<secret, index, legacy, cachedIndex, migrated, serverVars, calls, faults>>

----------------------------------------------------------------------------
(* logout: the cache, then every secret, an error notwithstanding; after   *)
(* an error the account stays in the index.                                *)

\* Mutant: the credentials stay in the cache.
EraseNothing(c) ==
    /\ At(c, "erase")
    /\ Goto(c, "delete")
    /\ OnlyJob

Erase(c) ==
    /\ At(c, "erase")
    /\ cached' = [cached EXCEPT ![job[c].on] = None]
    /\ Goto(c, "delete")
    /\ UNCHANGED <<secret, index, legacy, cachedIndex, migrated, Held, serverVars, calls, faults,
                   pastVars>>

AfterDelete(j, failed) ==
    NextKey([j EXCEPT !.failed = failed], IF failed THEN "deleted" ELSE "remove")

Delete(c) ==
    /\ At(c, "delete")
    /\ \/ /\ secret' = [secret EXCEPT ![job[c].on][Keys[job[c].key]] = 0]
          /\ job' = [job EXCEPT ![c] = AfterDelete(@, @.failed)]
          /\ UNCHANGED faults
       \/ /\ Fault("delete")
          /\ job' = [job EXCEPT ![c] = AfterDelete(@, TRUE)]
          /\ \/ UNCHANGED secret
             \/ secret' = [secret EXCEPT ![job[c].on][Keys[job[c].key]] = 0]
    /\ UNCHANGED <<index, legacy, cached, cachedIndex, migrated, Held, serverVars, calls,
                   pastVars>>

Deleted(c) == At(c, "deleted") /\ Fail(c)

----------------------------------------------------------------------------
(* Errors of the secret store, and the end of the process.                 *)

NextSecretCall(c) ==
    LET j == job[c] IN
    CASE j.at \in {"migrate", "get"} -> "get"
      [] j.at \in IndexPoints /\ j.recs = {} /\ cachedIndex = {} -> "get"
      [] j.at = "status" /\ Known(c) -> "get"
      [] j.at = "set" \/ (j.at = "upsert" /\ Known(c)) -> "set"
      [] j.at = "remove" /\ Known(c) ->
            IF Records(c) \subseteq {j.on} THEN "delete" ELSE "set"
      [] j.at = "clean" -> "delete"
      [] OTHER -> "none"

(* What a call that fails may have done all the same.  A write of the      *)
(* index that is reported as failed leaves the cached one as it was.       *)
DoneInVain(c) ==
    \/ /\ At(c, "set")
       /\ PutSecret(job[c])
       /\ UNCHANGED <<index, legacy, cached, cachedIndex, astray>>
    \/ /\ At(c, "clean")
       /\ legacy' = [legacy EXCEPT ![Keys[job[c].key]] = 0]
       /\ UNCHANGED <<secret, index, cached, cachedIndex, astray>>
    \/ /\ \/ At(c, "upsert") /\ Known(c) /\ index' = WithIt(c)
          \/ At(c, "remove") /\ Known(c) /\ index' = WithoutIt(c)
       /\ astray' = (astray \/ index' # index)
       /\ UNCHANGED <<secret, legacy, cached, cachedIndex>>

SecretFault(c) ==
    /\ Fault(NextSecretCall(c))
    /\ GiveUp(c)
    /\ AsItWas \/ DoneInVain(c)

Waiting == {c \in Callers : At(c, "sent")}

Restart ==
    /\ Fault("restart")
    /\ job' = [c \in Callers |-> Idle]
    /\ cached' = [a \in Accounts |-> None]
    /\ cachedIndex' = {}
    /\ migrated' = FALSE
    /\ migrating' = NoCaller
    /\ lock' = [a \in Accounts |-> NoCaller]
    /\ loginInProgress' = FALSE
    /\ abandoned' = FALSE /\ astray' = FALSE
    /\ torn' = torn \union {job[c].on : c \in {d \in Callers : Changing(job[d])}}
    /\ dropped' = dropped \union ({job[c].replaces : c \in Callers} \ {0})
                         \union {job[c].creds.refresh : c \in Waiting}
    /\ spent' = spent \union {job[c].creds.refresh : c \in Waiting}
    /\ UNCHANGED <<secret, index, legacy, grants, calls>>

----------------------------------------------------------------------------
Step(c) ==
    \/ Complete(c) \/ NoCode(c)
    \/ Ensure(c) \/ Migrate(c) \/ Clean(c)
    \/ ReadIndex(c) \/ FillIndex(c) \/ Resolve(c) \/ Status(c)
    \/ Lookup(c) \/ Get(c) \/ Keep(c) \/ Decide(c)
    \/ Answer(c) \/ AnswerForAnother(c) \/ Refused(c) \/ LoseAnswer(c) \/ Abandon(c)
    \/ SetSecret(c) \/ Upsert(c) \/ Remove(c) \/ Adopt(c) \/ Cache(c)
    \/ Erase(c) \/ Delete(c) \/ Deleted(c)
    \/ SecretFault(c)

Host(c) ==
    \/ \E a \in Accounts \union {NoAccount} : CallRefresh(c, a)
    \/ \E a \in Accounts : CallLogout(c, a)
    \/ CallStatus(c) \/ CallLogin(c)
    \/ Wait(c) \/ Cancel(c) \/ Drop(c)

(* Several callers may refresh and look at a time; who signs in or out,    *)
(* migrates, or with a late answer brings back an account that was signed  *)
(* out, is in the store alone, or else the accounts are not apart.         *)
Revives(c) ==
    /\ job[c].op = "refresh" /\ Changing(job[c])
    /\ \E records \in {index} \union cachedIndex : job[c].on \notin records

Together ==
    \/ \A c, d \in InStore : c = d
    \/ \A c \in InStore :
          job[c].op \in {"refresh", "status"} /\ migrating # c /\ ~Revives(c)
Observe == apart' = (apart /\ Together')

AuthNext == (Restart \/ \E c \in Callers : Step(c) \/ Acquire(c) \/ Host(c)) /\ Observe

AuthSpec == AuthInit /\ [][AuthNext]_authVars

----------------------------------------------------------------------------
(* A refresh token that the endpoint has replaced is never sent again:     *)
(* callers of refresh_credentials share one request, whatever they         *)
(* interleave.  Except that the answer that replaced it was lost, refused  *)
(* or not stored to the end; or that somebody signed in or out or migrated *)
(* while another caller was in the store.                                  *)
NeverSendsSpentToken ==
    [][\A c \in Callers : At(c, "decide") /\ job'[c].at = "sent"
            => ~apart \/ job[c].creds.refresh \notin spent \ dropped]_authVars

(* When nobody is in the store, the caches tell what is stored, and an     *)
(* account that has secrets is in the index, the stored and the cached, so *)
(* that after an error of logout it can be signed out again.  But for      *)
(* changes that were cut off; for an account that was signed in before the *)
(* migration gave it its old secrets back; and while only refreshes have   *)
(* overlapped in the store.  The two indexes may differ from when one was  *)
(* written by a call that failed until it is written again.                *)
Agrees(a) ==
    /\ \/ cached[a] \in {None, secret[a]}
       \/ a \in torn
       \/ a = LegacyAccount /\ secret[a] = From(1)
    /\ \/ secret[a] = None
       \/ a \in torn
       \/ \A records \in {index} \union cachedIndex : a \in records

CacheAndStoreAgree ==
    apart /\ InStore = {} =>
        /\ astray \/ cachedIndex \in {{}, {index}}
        /\ \A a \in Accounts : Agrees(a)

(* Nothing stays locked: the lock of an account is held exactly by the one *)
(* caller that refreshes it, past the lock; the migration by a caller that *)
(* is at it; and signing in is possible, except during the one attempt, or *)
(* after an attempt that was dropped.                                      *)
RefreshPoints == {"read", "get", "keep", "decide", "sent", "set", "upsert", "adopt", "cache"}
MigrationPoints == {"migrate", "set", "upsert", "adopt", "clean"}

Refreshes(c, a) ==
    /\ job[c].op = "refresh" /\ job[c].acct = a
    /\ job[c].at \in RefreshPoints
    /\ migrating # c

NothingStaysLocked ==
    /\ \A c \in Callers, a \in Accounts : lock[a] = c <=> Refreshes(c, a)
    /\ migrating # NoCaller => job[migrating].at \in MigrationPoints
    /\ \A c, d \in Callers : SignsIn(c) /\ SignsIn(d) => c = d
    /\ loginInProgress /\ ~abandoned => \E c \in Callers : SignsIn(c)
    /\ \A c \in Callers : SignsIn(c) => loginInProgress
=============================================================================
