--------------------------- MODULE CodexAuthProofs ---------------------------
(***************************************************************************)
(* Proofs about the sign-in state, for any accounts and callers, any       *)
(* faults of the secret store and any number of restarts: no lock and no   *)
(* flag is left behind, caches and store agree, and a refresh token that   *)
(* was replaced is not sent again.                                         *)
(***************************************************************************)
EXTENDS CodexAuth, TLAPS

Handling == {"get", "keep", "decide", "sent"}
InLock == {"read"} \union Handling
RefreshOnly == {"resolve", "lock"} \union InLock
Writing == {"set", "upsert", "adopt", "cache"}
SigningOut == {"erase", "delete", "deleted", "remove"}

\* Sets of points are always expanded.
USE DEF Handling, InLock, RefreshOnly, Writing, SigningOut, RefreshPoints, MigrationPoints,
        IndexPoints, StorePoints

(* Where a call can be, by its kind, and what it has found out there.      *)
PlaceOf(c, j) ==
    /\ j.op = "none" <=> j.at = "idle"
    /\ j.at \in RefreshOnly => j.op = "refresh"
    /\ j.at \in SigningOut => j.op = "logout"
    /\ j.at \in {"url", "accept"} => j.op = "login"
    /\ j.at \in {"ensure", "migrate", "clean", "status"} => j.op \in {"refresh", "status", "login"}
    /\ j.at \in {"set", "upsert"} => j.op # "logout"
    /\ j.at \in Writing /\ j.op = "status" => migrating = c
    /\ j.at = "cache" => j.op \in {"refresh", "login"} /\ migrating # c
    /\ migrating = c => j.at \in MigrationPoints /\ j.op # "logout"
    /\ j.at \in {"migrate", "clean"} => migrating = c
    /\ j.at \in InLock \union {"lock"} => j.acct \in Accounts
    /\ j.at \in Writing /\ j.op = "refresh" /\ migrating # c
           => j.acct \in Accounts /\ j.on = j.acct
    /\ j.at \in Writing \union SigningOut => j.on \in Accounts
Place(c) == PlaceOf(c, job[c])

(* Everything but the calls has its type.                                  *)
RestTypeOK ==
    /\ secret \in [Accounts -> Credentials]
    /\ index \in SUBSET Accounts
    /\ legacy \in Credentials
    /\ cached \in [Accounts -> Credentials]
    /\ cachedIndex \in SUBSET SUBSET Accounts
    /\ migrated \in BOOLEAN /\ loginInProgress \in BOOLEAN
    /\ migrating \in Callers \union {NoCaller}
    /\ lock \in [Accounts -> Callers \union {NoCaller}]
    /\ grants \in 0..MaxGrants
    /\ calls \in 0..MaxCalls /\ faults \in 0..MaxFaults
    /\ spent \in SUBSET Nat /\ dropped \in SUBSET Nat
    /\ torn \in SUBSET (Accounts \union {NoAccount})
    /\ abandoned \in BOOLEAN /\ astray \in BOOLEAN

LocksOf(c) == \A a \in Accounts : lock[a] = c <=> Refreshes(c, a)

OneLogin ==
    /\ \A c, d \in Callers : SignsIn(c) /\ SignsIn(d) => c = d
    /\ loginInProgress /\ ~abandoned => \E c \in Callers : SignsIn(c)
    /\ \A c \in Callers : SignsIn(c) => loginInProgress

LegacyIsReal == Whole(legacy) => LegacyAccount \in Accounts /\ legacy = From(1)

LockInv ==
    /\ RestTypeOK
    /\ job \in [Callers -> Jobs]
    /\ \A c \in Callers : Place(c) /\ LocksOf(c)
    /\ OneLogin
    /\ LegacyIsReal

-----------------------------------------------------------------------------
LEMMA LockInvMeaning ==
    LockInv /\ apart \in BOOLEAN => AuthTypeOK /\ NothingStaysLocked
<1> SUFFICES ASSUME LockInv, apart \in BOOLEAN PROVE AuthTypeOK /\ NothingStaysLocked
  OBVIOUS
<1>1. AuthTypeOK
  BY DEF LockInv, RestTypeOK, AuthTypeOK
<1>2. migrating # NoCaller => job[migrating].at \in MigrationPoints
  BY DEF LockInv, RestTypeOK, Place, PlaceOf
<1> QED
  BY <1>1, <1>2 DEF NothingStaysLocked, LockInv, LocksOf, OneLogin

LEMMA Moved ==
    ASSUME job \in [Callers -> Jobs], NEW c \in Callers, NEW j \in Jobs,
           job' = [job EXCEPT ![c] = j]
    PROVE  /\ job' \in [Callers -> Jobs]
           /\ job'[c] = j
           /\ \A d \in Callers \ {c} : job'[d] = job[d]
  OBVIOUS

LEMMA OthersStay ==
    ASSUME LockInv, NEW c \in Callers, RestTypeOK', LegacyIsReal',
           job' \in [Callers -> Jobs],
           \A d \in Callers \ {c} : job'[d] = job[d],
           \A d \in Callers \ {c} :
               /\ migrating' = d <=> migrating = d
               /\ \A a \in Accounts : lock'[a] = d <=> lock[a] = d,
           Place(c)', LocksOf(c)', OneLogin'
    PROVE  LockInv'
<1>1. ASSUME NEW d \in Callers \ {c}
      PROVE  Place(d)' /\ LocksOf(d)'
  <2>1. Place(d) /\ LocksOf(d) /\ job'[d] = job[d]
    BY DEF LockInv
  <2>2. Place(d)'
    BY <2>1 DEF Place, PlaceOf
  <2>3. LocksOf(d)'
    BY <2>1 DEF LocksOf, Refreshes
  <2> QED
    BY <2>2, <2>3
<1> QED
  BY <1>1 DEF LockInv

Moves(c, j) == job' = [job EXCEPT ![c] = j]

(* A step that takes or gives up nothing.                                  *)
LEMMA GoesOn ==
    ASSUME LockInv, NEW c \in Callers, NEW j \in Jobs, Moves(c, j),
           RestTypeOK', LegacyIsReal',
           UNCHANGED <<migrating, lock, loginInProgress, abandoned>>,
           j.op = "login" <=> job[c].op = "login",
           Place(c)',
           \A a \in Accounts : Refreshes(c, a)' <=> Refreshes(c, a)
    PROVE  LockInv'
<1>1. /\ job' \in [Callers -> Jobs] /\ job'[c] = j
      /\ \A d \in Callers \ {c} : job'[d] = job[d]
  BY Moved DEF LockInv, Moves
<1>2. LocksOf(c)'
  BY DEF LockInv, LocksOf
<1>3. \A d \in Callers : SignsIn(d)' <=> SignsIn(d)
  BY <1>1 DEF SignsIn
<1>4. OneLogin'
  BY <1>3 DEF OneLogin, LockInv
<1> QED
  BY <1>1, <1>2, <1>4, OthersStay DEF LockInv

(* A call that returns.                                                    *)
LEMMA IdleIsJob == Idle \in Jobs
  BY AuthAssumption DEF Idle, Jobs, Ops, Points, None, From, Credentials, Kinds

LEMMA Ends ==
    ASSUME LockInv, NEW c \in Callers, Return(c), RestTypeOK', LegacyIsReal', UNCHANGED abandoned
    PROVE  LockInv'
<1>1. /\ job' \in [Callers -> Jobs] /\ job'[c] = Idle
      /\ \A d \in Callers \ {c} : job'[d] = job[d]
  BY Moved, IdleIsJob DEF LockInv, Return
<1>2. /\ \A a \in Accounts : lock'[a] = IF lock[a] = c THEN NoCaller ELSE lock[a]
      /\ migrating' = IF migrating = c THEN NoCaller ELSE migrating
      /\ c # NoCaller /\ NoCaller \notin Callers
  BY AuthAssumption DEF Return, Released
<1>3. Place(c)'
  BY <1>1, <1>2 DEF Place, PlaceOf, Idle
<1>4. LocksOf(c)'
  BY <1>1, <1>2 DEF LocksOf, Refreshes, Idle
<1>5. \A d \in Callers : SignsIn(d)' <=> SignsIn(d) /\ d # c
  BY <1>1 DEF SignsIn, Idle
<1>6. loginInProgress' = (loginInProgress /\ ~SignsIn(c))
  BY DEF Return, Released
<1>7. OneLogin'
  BY <1>5, <1>6 DEF OneLogin, LockInv
<1> QED
  BY <1>1, <1>2, <1>3, <1>4, <1>7, OthersStay

LEMMA JobFacts ==
    ASSUME LockInv, NEW c \in Callers
    PROVE  /\ job[c] \in Jobs /\ Place(c) /\ LocksOf(c)
           /\ c # NoCaller /\ migrating \in Callers \union {NoCaller}
           /\ job[c].key \in 1..2
           /\ job[c].creds \in Credentials
           /\ job[c].acct \in Accounts \union {NoAccount}
           /\ job[c].on \in Accounts \union {NoAccount}
           /\ job[c].recs \in SUBSET SUBSET Accounts
           /\ job[c].replaces \in 0..MaxGrants
  BY AuthAssumption DEF LockInv, Jobs, RestTypeOK

LEMMA KeysAreKinds == \A k \in 1..2 : Keys[k] \in Kinds
  BY DEF Keys, Kinds

-----------------------------------------------------------------------------
(* What the host does.                                                     *)
LEMMA BeginMoves ==
    ASSUME LockInv, NEW c \in Callers, NEW op \in Ops, NEW p \in Points,
           NEW a \in Accounts \union {NoAccount}, Begin(c, op, p, a)
    PROVE  /\ job' \in [Callers -> Jobs]
           /\ \A d \in Callers \ {c} : job'[d] = job[d]
           /\ Moves(c, job'[c]) /\ job'[c] \in Jobs
           /\ job'[c].op = op /\ job'[c].at = p /\ job'[c].acct = a /\ job'[c].on = a
           /\ job'[c].key = 1 /\ job'[c].creds = None /\ job'[c].recs = {}
           /\ job'[c].replaces = 0 /\ ~job'[c].fill
           /\ job[c].at = "idle" /\ calls' \in 0..MaxCalls
<1> DEFINE j == [Idle EXCEPT !.op = op, !.at = p, !.acct = a, !.on = a]
<1>1. /\ j \in Jobs
      /\ j.op = op /\ j.at = p /\ j.acct = a /\ j.on = a
      /\ j.key = 1 /\ j.creds = None /\ j.recs = {} /\ j.replaces = 0 /\ ~j.fill
  BY IdleIsJob DEF Idle, Jobs
<1>2. Moves(c, j) /\ job[c].at = "idle"
  BY DEF Begin, Moves, At
<1>3. calls' \in 0..MaxCalls
  BY AuthAssumption DEF Begin, LockInv, RestTypeOK
<1> HIDE DEF j
<1>4. /\ job' \in [Callers -> Jobs] /\ job'[c] = j
      /\ \A d \in Callers \ {c} : job'[d] = job[d]
  BY <1>1, <1>2, Moved DEF LockInv, Moves
<1> QED
  BY <1>1, <1>2, <1>3, <1>4

LEMMA CallLocks ==
    ASSUME LockInv, NEW c \in Callers,
           \/ \E a \in Accounts \union {NoAccount} : CallRefresh(c, a)
           \/ \E a \in Accounts : CallLogout(c, a)
           \/ CallStatus(c)
    PROVE  LockInv'
<1>1. PICK op \in {"refresh", "logout", "status"}, p \in {"ensure", "erase"},
           a \in Accounts \union {NoAccount} :
          /\ Begin(c, op, p, a) /\ OnlyCall
          /\ op = "logout" <=> p = "erase"
          /\ op = "logout" => a \in Accounts
  BY DEF CallRefresh, CallLogout, CallStatus
<1>2. op \in Ops /\ p \in Points
  BY DEF Ops, Points
<1>3. /\ Moves(c, job'[c]) /\ job'[c] \in Jobs
      /\ job'[c].op = op /\ job'[c].at = p /\ job'[c].acct = a /\ job'[c].on = a
      /\ job[c].at = "idle" /\ calls' \in 0..MaxCalls
  BY <1>1, <1>2, BeginMoves
<1>4. Place(c) /\ c # NoCaller /\ migrating # c /\ job[c].op = "none"
  BY <1>3, JobFacts DEF Place, PlaceOf
<1>5. UNCHANGED <<storeVars, migrated, Held, serverVars, faults, pastVars>>
  BY <1>1 DEF OnlyCall
<1>6. Place(c)'
  BY <1>1, <1>3, <1>4, <1>5 DEF Place, PlaceOf, Held
<1>7. \A b \in Accounts : Refreshes(c, b)' <=> Refreshes(c, b)
  BY <1>1, <1>3, <1>4 DEF Refreshes
<1>8. RestTypeOK' /\ LegacyIsReal'
  BY <1>3, <1>5 DEF LockInv, RestTypeOK, LegacyIsReal, storeVars, Held, serverVars, pastVars
<1> QED
  BY <1>1, <1>3, <1>4, <1>5, <1>6, <1>7, <1>8, GoesOn DEF Held, pastVars

LEMMA CallLoginLocks ==
    ASSUME LockInv, NEW c \in Callers, CallLogin(c)
    PROVE  LockInv'
<1>1. "login" \in Ops /\ "url" \in Points
  BY DEF Ops, Points
<1>2. /\ job' \in [Callers -> Jobs]
      /\ \A d \in Callers \ {c} : job'[d] = job[d]
      /\ job'[c].op = "login" /\ job'[c].at = "url"
      /\ job[c].at = "idle" /\ calls' \in 0..MaxCalls
  BY <1>1, BeginMoves DEF CallLogin
<1>3. Place(c) /\ LocksOf(c) /\ c # NoCaller /\ migrating # c
  BY <1>2, JobFacts DEF Place, PlaceOf
<1>4. /\ UNCHANGED <<storeVars, migrated, migrating, lock, serverVars, faults, pastVars>>
      /\ ~loginInProgress /\ loginInProgress' = TRUE
  BY DEF CallLogin
<1>5. Place(c)' /\ LocksOf(c)'
  BY <1>2, <1>3, <1>4
     DEF Place, PlaceOf, LocksOf, Refreshes
<1>6. RestTypeOK' /\ LegacyIsReal'
  BY <1>2, <1>4 DEF LockInv, RestTypeOK, LegacyIsReal, storeVars, serverVars, pastVars
<1>7. \A d \in Callers : SignsIn(d)' <=> d = c
  BY <1>2, <1>4 DEF SignsIn, LockInv, OneLogin
<1>8. OneLogin'
  BY <1>4, <1>7 DEF OneLogin
<1> QED
  BY <1>2, <1>4, <1>5, <1>6, <1>8, OthersStay

LEMMA DropLocks ==
    ASSUME LockInv, NEW c \in Callers, Drop(c)
    PROVE  LockInv'
<1>1. /\ job' \in [Callers -> Jobs] /\ job'[c] = Idle
      /\ \A d \in Callers \ {c} : job'[d] = job[d]
  BY Moved, IdleIsJob DEF LockInv, Drop
<1>2. /\ UNCHANGED <<storeVars, migrated, Held, serverVars, calls, faults, dropped, torn, astray>>
      /\ abandoned' = TRUE
      /\ job[c].at \in {"url", "accept", "ensure"} /\ SignsIn(c)
  BY DEF Drop
<1>3. Place(c) /\ LocksOf(c) /\ c # NoCaller /\ migrating # c
  BY <1>2, JobFacts DEF Place, PlaceOf
<1>4. Place(c)' /\ LocksOf(c)'
  BY <1>1, <1>2, <1>3
     DEF Place, PlaceOf, LocksOf, Refreshes, Idle, Held
<1>5. RestTypeOK' /\ LegacyIsReal'
  BY <1>2 DEF LockInv, RestTypeOK, LegacyIsReal, storeVars, serverVars, Held
<1>6. \A d \in Callers : SignsIn(d)' <=> SignsIn(d) /\ d # c
  BY <1>1 DEF SignsIn, Idle
<1>7. OneLogin'
  BY <1>2, <1>6 DEF OneLogin, LockInv, Held
<1> QED
  BY <1>1, <1>2, <1>4, <1>5, <1>7, OthersStay DEF Held

(* What a call of the secret store that fails may have done.               *)
LEMMA VainTypes ==
    ASSUME LockInv, NEW c \in Callers, AsItWas \/ DoneInVain(c)
    PROVE  /\ secret' \in [Accounts -> Credentials]
           /\ index' \in SUBSET Accounts
           /\ legacy' \in Credentials /\ LegacyIsReal'
           /\ UNCHANGED <<cached, cachedIndex>>
           /\ astray' \in BOOLEAN
<1>1. /\ secret \in [Accounts -> Credentials] /\ index \in SUBSET Accounts
      /\ legacy \in Credentials /\ LegacyIsReal /\ astray \in BOOLEAN
  BY DEF LockInv, RestTypeOK
<1>2. /\ Place(c) /\ job[c].creds \in Credentials /\ job[c].recs \in SUBSET SUBSET Accounts
      /\ Keys[job[c].key] \in Kinds
  BY JobFacts, KeysAreKinds
<1>3. CASE AsItWas
  BY <1>1, <1>3 DEF AsItWas, storeVars, LegacyIsReal
<1>4. CASE /\ At(c, "set") /\ PutSecret(job[c])
           /\ UNCHANGED <<index, legacy, cached, cachedIndex, astray>>
  <2>1. job[c].on \in Accounts
    BY <1>2, <1>4 DEF At, Place, PlaceOf
  <2>2. secret' \in [Accounts -> Credentials]
    BY <1>1, <1>2, <1>4, <2>1 DEF PutSecret, Credentials
  <2> QED
    BY <1>1, <1>4, <2>2 DEF LegacyIsReal
<1>5. CASE /\ legacy' = [legacy EXCEPT ![Keys[job[c].key]] = 0]
           /\ UNCHANGED <<secret, index, cached, cachedIndex, astray>>
  <2>1. 0 \in 0..MaxGrants
    BY AuthAssumption
  <2>2. legacy' \in Credentials /\ ~Whole(legacy')
    BY <1>1, <1>2, <1>5, <2>1 DEF Credentials, Kinds, Whole
  <2> QED
    BY <1>1, <1>5, <2>2 DEF LegacyIsReal, Whole
<1>6. CASE /\ \/ At(c, "upsert") /\ Known(c) /\ index' = WithIt(c)
              \/ At(c, "remove") /\ Known(c) /\ index' = WithoutIt(c)
           /\ astray' = (astray \/ index' # index)
           /\ UNCHANGED <<secret, legacy, cached, cachedIndex>>
  <2>1. job[c].on \in Accounts /\ Records(c) \in SUBSET Accounts
    BY <1>2, <1>6 DEF At, Place, PlaceOf, Records
  <2>2. index' \in SUBSET Accounts
    BY <1>6, <2>1 DEF WithIt, WithoutIt
  <2> QED
    BY <1>1, <1>6, <2>2 DEF LegacyIsReal
<1> QED
  BY <1>3, <1>4, <1>5, <1>6 DEF DoneInVain

(* An error, at whatever point.                                            *)
LEMMA GiveUpLocks ==
    ASSUME LockInv, NEW c \in Callers, GiveUp(c), AsItWas \/ DoneInVain(c),
           faults' \in 0..MaxFaults
    PROVE  LockInv'
<1>1. /\ Return(c)
      /\ UNCHANGED <<migrated, serverVars, calls, abandoned>>
      /\ dropped' = dropped \union ({job[c].replaces} \ {0})
      /\ torn' \in {torn, torn \union {job[c].on}}
  BY DEF GiveUp
<1>2. /\ dropped' \in SUBSET Nat
      /\ torn' \in SUBSET (Accounts \union {NoAccount})
  <2>1. job[c].replaces \in Nat /\ job[c].on \in Accounts \union {NoAccount}
    BY AuthAssumption, JobFacts
  <2>2. dropped \in SUBSET Nat /\ torn \in SUBSET (Accounts \union {NoAccount})
    BY DEF LockInv, RestTypeOK
  <2> QED
    BY <1>1, <2>1, <2>2
<1>3. /\ lock' \in [Accounts -> Callers \union {NoCaller}]
      /\ migrating' \in Callers \union {NoCaller}
      /\ loginInProgress' \in BOOLEAN
  BY <1>1 DEF Return, Released, LockInv, RestTypeOK
<1>4. RestTypeOK' /\ LegacyIsReal'
  BY <1>1, <1>2, <1>3, VainTypes DEF LockInv, RestTypeOK, serverVars
<1> QED
  BY <1>1, <1>4, Ends

LEMMA FailLocks ==
    ASSUME LockInv, NEW c \in Callers, Fail(c)
    PROVE  LockInv'
  BY GiveUpLocks DEF Fail, LockInv, RestTypeOK

LEMMA FaultCounts ==
    ASSUME LockInv, NEW kind, Fault(kind) PROVE faults' \in 0..MaxFaults
  BY AuthAssumption DEF Fault, LockInv, RestTypeOK

-----------------------------------------------------------------------------
(* The steps of a caller.                                                  *)
LEMMA RestStays ==
    ASSUME LockInv, calls' = calls, faults' = faults,
           UNCHANGED <<storeVars, migrated, Held, serverVars, pastVars>>
    PROVE  RestTypeOK' /\ LegacyIsReal'
  BY DEF LockInv, RestTypeOK, LegacyIsReal, storeVars, serverVars, Held, pastVars

(* The call is of the same kind, and past the lock of the same account.    *)
Alike(c, i, j) ==
    /\ j.op = i.op
    /\ i.op # "refresh" \/ migrating = c
       \/ (j.acct = i.acct /\ (j.at \in RefreshPoints <=> i.at \in RefreshPoints))
       \/ (j.at \notin RefreshPoints /\ i.at \notin RefreshPoints)

LEMMA CallMoves ==
    ASSUME LockInv, NEW c \in Callers, NEW j \in Jobs, Moves(c, j),
           RestTypeOK', LegacyIsReal', UNCHANGED <<Held, abandoned>>,
           PlaceOf(c, j), Alike(c, job[c], j)
    PROVE  LockInv'
<1>1. job'[c] = j
  BY Moved DEF LockInv, Moves
<1>2. UNCHANGED <<migrating, lock, loginInProgress, abandoned>>
  BY DEF Held
<1>3. Place(c)'
  BY <1>1, <1>2 DEF Place, PlaceOf
<1>4. \A a \in Accounts : Refreshes(c, a)' <=> Refreshes(c, a)
  BY <1>1, <1>2 DEF Refreshes, Alike
<1> QED
  BY <1>2, <1>3, <1>4, GoesOn DEF Alike

LEMMA OnlyMoves ==
    ASSUME LockInv, NEW c \in Callers, NEW j \in Jobs, Moves(c, j), OnlyJob,
           PlaceOf(c, j), Alike(c, job[c], j)
    PROVE  LockInv'
<1>1. UNCHANGED <<storeVars, migrated, Held, serverVars, calls, faults, pastVars>>
  BY DEF OnlyJob, OnlyCall
<1>2. RestTypeOK' /\ LegacyIsReal'
  BY <1>1, RestStays
<1> QED
  BY <1>1, <1>2, CallMoves DEF pastVars

LEMMA WaitLocks ==
    ASSUME LockInv, NEW c \in Callers, Wait(c)
    PROVE  LockInv'
<1> DEFINE j == [job[c] EXCEPT !.at = "accept"]
<1>1. Place(c) /\ job[c] \in Jobs /\ job[c].at = "url"
  BY JobFacts DEF Wait, At
<1>2. j \in Jobs /\ Moves(c, j) /\ OnlyJob
  BY <1>1 DEF Jobs, Points, Moves, Wait, Goto
<1>3. PlaceOf(c, j) /\ Alike(c, job[c], j)
  BY <1>1 DEF Place, PlaceOf, Alike
<1> QED
  BY <1>2, <1>3, OnlyMoves

LEMMA NextKeyMoves ==
    ASSUME NEW j \in Jobs, NEW p \in Points
    PROVE  /\ NextKey(j, p) \in Jobs
           /\ NextKey(j, p).at = IF j.key = 1 THEN j.at ELSE p
           /\ NextKey(j, p).key = IF j.key = 1 THEN 2 ELSE 1
           /\ NextKey(j, p).op = j.op /\ NextKey(j, p).acct = j.acct
           /\ NextKey(j, p).on = j.on /\ NextKey(j, p).creds = j.creds
           /\ NextKey(j, p).recs = j.recs /\ NextKey(j, p).replaces = j.replaces
           /\ NextKey(j, p).failed = j.failed /\ NextKey(j, p).fill = j.fill
<1>1. CASE j.key = 1
  <2>1. NextKey(j, p) = [j EXCEPT !.key = 2]
    BY <1>1 DEF NextKey
  <2> QED
    BY <1>1, <2>1 DEF Jobs
<1>2. CASE j.key # 1
  <2> DEFINE n == [j EXCEPT !.key = 1, !.at = p]
  <2>1. NextKey(j, p) = n
    BY <1>2 DEF NextKey
  <2>2. n \in Jobs
    <3>1. 1 \in 1..2
      OBVIOUS
    <3>2. [j EXCEPT !.key = 1] \in Jobs
      BY <3>1 DEF Jobs
    <3> QED
      BY <3>2 DEF Jobs
  <2>3. /\ n.key = 1 /\ n.at = p /\ n.op = j.op /\ n.acct = j.acct /\ n.on = j.on
        /\ n.creds = j.creds /\ n.recs = j.recs /\ n.replaces = j.replaces
        /\ n.failed = j.failed /\ n.fill = j.fill
    BY DEF Jobs
  <2> HIDE DEF n
  <2> QED
    BY <1>2, <2>1, <2>2, <2>3
<1> QED
  BY <1>1, <1>2

LEMMA StoreMoves ==
    ASSUME NEW j \in Jobs, NEW a \in Accounts, NEW creds \in Credentials
    PROVE  /\ Store(j, a, creds) \in Jobs
           /\ Store(j, a, creds).at = "set" /\ Store(j, a, creds).on = a
           /\ Store(j, a, creds).creds = creds /\ Store(j, a, creds).key = 1
           /\ Store(j, a, creds).op = j.op /\ Store(j, a, creds).acct = j.acct
           /\ Store(j, a, creds).recs = {} /\ Store(j, a, creds).fill = j.fill
           /\ Store(j, a, creds).replaces = j.replaces
<1>1. "set" \in Points /\ 1 \in 1..2 /\ {} \in SUBSET SUBSET Accounts
  BY DEF Points
<1> DEFINE n == Store(j, a, creds)
<1>2. n \in Jobs
  BY <1>1 DEF Jobs, Store
<1>3. /\ n.at = "set" /\ n.on = a /\ n.creds = creds /\ n.key = 1
      /\ n.op = j.op /\ n.acct = j.acct /\ n.recs = {} /\ n.replaces = j.replaces
      /\ n.fill = j.fill
  BY DEF Jobs, Store
<1> QED
  BY <1>2, <1>3

LEMMA CompleteLocks ==
    ASSUME LockInv, NEW c \in Callers, Complete(c)
    PROVE  LockInv'
<1>1. Place(c) /\ job[c] \in Jobs /\ job[c].at = "accept"
  BY JobFacts DEF Complete, At
<1>2. PICK a \in Accounts :
          job' = [job EXCEPT ![c] = Store([@ EXCEPT !.acct = a], a, From(grants + 1))]
  BY DEF Complete
<1> DEFINE i == [job[c] EXCEPT !.acct = a]
           j == Store(i, a, From(grants + 1))
<1>3. grants + 1 \in 0..MaxGrants /\ grants' = grants + 1
  BY AuthAssumption DEF Complete, Issue, LockInv, RestTypeOK
<1>4. From(grants + 1) \in Credentials
  BY <1>3 DEF From, Credentials, Kinds
<1>5. i \in Jobs /\ i.op = job[c].op /\ i.acct = a
  BY <1>1 DEF Jobs
<1>6. Moves(c, j)
  BY <1>2 DEF Moves
<1>7. UNCHANGED <<storeVars, migrated, Held, spent, calls, faults, pastVars>>
  BY DEF Complete
<1>8. RestTypeOK' /\ LegacyIsReal'
  BY <1>3, <1>7 DEF LockInv, RestTypeOK, LegacyIsReal, storeVars, Held, pastVars
<1> HIDE DEF i
<1>9. /\ j \in Jobs /\ j.op = job[c].op /\ j.at = "set" /\ j.on = a /\ j.acct = a
  BY <1>4, <1>5, StoreMoves
<1> HIDE DEF j
<1>10. PlaceOf(c, j) /\ Alike(c, job[c], j)
  BY <1>1, <1>9 DEF Place, PlaceOf, Alike
<1> QED
  BY <1>6, <1>7, <1>8, <1>9, <1>10, CallMoves DEF pastVars

LEMMA MutexLocks ==
    ASSUME LockInv, NEW c \in Callers, NEW j \in Jobs, Moves(c, j),
           RestTypeOK', LegacyIsReal', UNCHANGED <<lock, loginInProgress, abandoned>>,
           \/ migrating = NoCaller /\ migrating' = c
           \/ migrating = c /\ migrating' = NoCaller,
           j.op = job[c].op, Place(c)',
           job[c].at \in {"ensure", "migrate", "clean"},
           j.at \in {"migrate", "resolve", "status"}
    PROVE  LockInv'
<1>1. /\ job' \in [Callers -> Jobs] /\ job'[c] = j
      /\ \A d \in Callers \ {c} : job'[d] = job[d]
  BY Moved DEF LockInv, Moves
<1>2. \A d \in Callers \ {c} : migrating' = d <=> migrating = d
  BY AuthAssumption
<1>3. LocksOf(c)'
  BY <1>1, JobFacts DEF LocksOf, Refreshes
<1>4. \A d \in Callers : SignsIn(d)' <=> SignsIn(d)
  BY <1>1 DEF SignsIn
<1>5. OneLogin'
  BY <1>4 DEF OneLogin, LockInv
<1> QED
  BY <1>1, <1>2, <1>3, <1>5, OthersStay

LEMMA AfterEnsureMoves ==
    ASSUME LockInv, NEW c \in Callers, job[c].op # "none"
    PROVE  LET j == [job[c] EXCEPT !.at = AfterEnsure(c)] IN
           /\ j \in Jobs /\ j.op = job[c].op /\ j.at \in {"resolve", "status"}
           /\ j.at = "resolve" <=> j.op = "refresh"
           /\ j.acct = job[c].acct
  BY JobFacts DEF AfterEnsure, Jobs, Points

LEMMA EnsureLocks ==
    ASSUME LockInv, NEW c \in Callers, Ensure(c)
    PROVE  LockInv'
<1>1. Place(c) /\ job[c] \in Jobs /\ job[c].at = "ensure" /\ migrating = NoCaller /\ c # NoCaller
  BY JobFacts DEF Ensure, At
<1>2. CASE Goto(c, AfterEnsure(c)) /\ OnlyJob
  <2> DEFINE j == [job[c] EXCEPT !.at = AfterEnsure(c)]
  <2>1. /\ j \in Jobs /\ j.op = job[c].op /\ j.at \in {"resolve", "status"}
        /\ j.at = "resolve" <=> j.op = "refresh"
    BY <1>1, AfterEnsureMoves DEF Place, PlaceOf
  <2>2. Moves(c, j)
    BY <1>2 DEF Goto, Moves
  <2> HIDE DEF j
  <2>3. PlaceOf(c, j) /\ Alike(c, job[c], j)
    BY <1>1, <2>1 DEF Place, PlaceOf, Alike
  <2> QED
    BY <1>2, <2>1, <2>2, <2>3, OnlyMoves
<1>3. CASE /\ Goto(c, "migrate") /\ migrating' = c
           /\ UNCHANGED <<storeVars, migrated, lock, loginInProgress, serverVars, calls, faults,
                          pastVars>>
  <2> DEFINE j == [job[c] EXCEPT !.at = "migrate"]
  <2>1. j \in Jobs /\ j.op = job[c].op /\ j.at = "migrate" /\ Moves(c, j)
    BY <1>1, <1>3 DEF Jobs, Points, Goto, Moves
  <2> HIDE DEF j
  <2>2. job'[c] = j
    BY <2>1, Moved DEF LockInv, Moves
  <2>3. Place(c)'
    BY <1>1, <1>3, <2>1, <2>2 DEF Place, PlaceOf
  <2>4. RestTypeOK' /\ LegacyIsReal'
    BY <1>3 DEF LockInv, RestTypeOK, LegacyIsReal, storeVars, serverVars, pastVars
  <2> QED
    BY <1>1, <1>3, <2>1, <2>3, <2>4, MutexLocks DEF pastVars
<1> QED
  BY <1>2, <1>3 DEF Ensure

LEMMA MigratedLocks ==
    ASSUME LockInv, NEW c \in Callers, Migrated(c), job[c].at \in {"migrate", "clean"},
           UNCHANGED <<secret, index, cached, cachedIndex>>,
           legacy' \in Credentials, LegacyIsReal'
    PROVE  LockInv'
<1> DEFINE j == [job[c] EXCEPT !.at = AfterEnsure(c)]
<1>1. /\ Place(c) /\ migrating = c /\ job[c].op # "none"
      /\ c \in Callers
  BY JobFacts DEF Place, PlaceOf
<1>2. /\ j \in Jobs /\ j.op = job[c].op /\ j.at \in {"resolve", "status"}
      /\ j.at = "resolve" <=> j.op = "refresh"
  BY <1>1, AfterEnsureMoves
<1>3. /\ Moves(c, j) /\ migrated' = TRUE /\ migrating' = NoCaller
      /\ UNCHANGED <<lock, loginInProgress, serverVars, calls, faults, pastVars>>
  BY DEF Migrated, Goto, Moves
<1> HIDE DEF j
<1>4. job'[c] = j
  BY <1>2, <1>3, Moved DEF LockInv, Moves
<1>5. Place(c)'
  BY <1>1, <1>2, <1>3, <1>4, AuthAssumption DEF Place, PlaceOf
<1>6. RestTypeOK'
  BY <1>3 DEF LockInv, RestTypeOK, serverVars, pastVars
<1> QED
  BY <1>1, <1>2, <1>3, <1>5, <1>6, MutexLocks DEF pastVars

LEMMA MigrateLocks ==
    ASSUME LockInv, NEW c \in Callers, Migrate(c)
    PROVE  LockInv'
<1>1. Place(c) /\ job[c] \in Jobs /\ job[c].at = "migrate" /\ migrating = c
  BY JobFacts DEF Migrate, At, Place, PlaceOf
<1>2. CASE /\ Whole(legacy) /\ OnlyJob
           /\ job' = [job EXCEPT ![c] = Store(@, LegacyAccount, legacy)]
  <2> DEFINE j == Store(job[c], LegacyAccount, legacy)
  <2>1. LegacyAccount \in Accounts /\ legacy \in Credentials
    BY <1>2 DEF LockInv, LegacyIsReal, RestTypeOK
  <2>2. Moves(c, j)
    BY <1>2 DEF Moves
  <2>3. j \in Jobs /\ j.op = job[c].op /\ j.at = "set" /\ j.on = LegacyAccount
    BY <1>1, <2>1, StoreMoves
  <2> HIDE DEF j
  <2>4. PlaceOf(c, j) /\ Alike(c, job[c], j)
    BY <1>1, <2>1, <2>3 DEF Place, PlaceOf, Alike
  <2> QED
    BY <1>2, <2>2, <2>3, <2>4, OnlyMoves
<1>3. CASE ~Whole(legacy) /\ Migrated(c) /\ UNCHANGED storeVars
  <2>1. legacy' \in Credentials /\ LegacyIsReal'
    BY <1>3 DEF LockInv, LegacyIsReal, RestTypeOK, storeVars
  <2> QED
    BY <1>1, <1>3, <2>1, MigratedLocks DEF storeVars
<1> QED
  BY <1>2, <1>3 DEF Migrate

LEMMA CleanLocks ==
    ASSUME LockInv, NEW c \in Callers, Clean(c)
    PROVE  LockInv'
<1>1. /\ Place(c) /\ job[c] \in Jobs /\ job[c].at = "clean" /\ migrating = c
      /\ job[c].key \in 1..2
  BY JobFacts DEF Clean, At, Place, PlaceOf
<1>2. /\ legacy' = [legacy EXCEPT ![Keys[job[c].key]] = 0]
      /\ UNCHANGED <<secret, index, cached, cachedIndex>>
  BY DEF Clean
<1>3. legacy' \in Credentials /\ ~Whole(legacy')
  <2>1. legacy \in Credentials /\ Keys[job[c].key] \in Kinds
    BY <1>1, KeysAreKinds DEF LockInv, RestTypeOK
  <2>2. 0 \in 0..MaxGrants
    BY AuthAssumption
  <2> QED
    BY <1>2, <2>1, <2>2 DEF Credentials, Kinds, Whole
<1>4. LegacyIsReal'
  BY <1>3 DEF LegacyIsReal, Whole
<1>5. CASE Migrated(c)
  BY <1>1, <1>2, <1>3, <1>4, <1>5, MigratedLocks
<1>6. CASE /\ job[c].key = 1
           /\ job' = [job EXCEPT ![c] = NextKey(@, "clean")]
           /\ UNCHANGED <<migrated, Held, serverVars, calls, faults, pastVars>>
  <2> DEFINE j == NextKey(job[c], "clean")
  <2>1. Moves(c, j) /\ "clean" \in Points
    BY <1>6 DEF Moves, Points
  <2>2. /\ j \in Jobs /\ j.op = job[c].op /\ j.at = "clean" /\ j.acct = job[c].acct
        /\ j.on = job[c].on
    BY <1>1, <1>6, <2>1, NextKeyMoves
  <2> HIDE DEF j
  <2>3. PlaceOf(c, j) /\ Alike(c, job[c], j)
    BY <1>1, <2>2 DEF Place, PlaceOf, Alike
  <2>4. RestTypeOK'
    BY <1>2, <1>3, <1>6 DEF LockInv, RestTypeOK, serverVars, Held, pastVars
  <2> QED
    BY <1>4, <1>6, <2>1, <2>2, <2>3, <2>4, CallMoves DEF pastVars
<1> QED
  BY <1>5, <1>6 DEF Clean

LEMMA ReadIndexLocks ==
    ASSUME LockInv, NEW c \in Callers, ReadIndex(c)
    PROVE  LockInv'
<1>1. Place(c) /\ job[c] \in Jobs /\ OnlyJob
  BY JobFacts DEF ReadIndex
<1>2. PICK r \in SUBSET SUBSET Accounts, f \in BOOLEAN :
          job' = [job EXCEPT ![c] = [job[c] EXCEPT !.recs = r, !.fill = f]]
  <2>1. cachedIndex \in SUBSET SUBSET Accounts /\ {index} \in SUBSET SUBSET Accounts
    BY DEF LockInv, RestTypeOK
  <2>2. CASE job' = [job EXCEPT ![c].recs = cachedIndex]
    <3>1. job[c].fill \in BOOLEAN /\ [job[c] EXCEPT !.recs = cachedIndex]
                = [job[c] EXCEPT !.recs = cachedIndex, !.fill = job[c].fill]
      BY <1>1 DEF Jobs
    <3> QED
      BY <2>1, <2>2, <3>1
  <2>3. CASE job' = [job EXCEPT ![c].recs = {index}, ![c].fill = TRUE]
    BY <2>1, <2>3 DEF LockInv
  <2> QED
    BY <2>2, <2>3 DEF ReadIndex
<1> DEFINE j == [job[c] EXCEPT !.recs = r, !.fill = f]
<1>3. /\ j \in Jobs /\ Moves(c, j) /\ j.op = job[c].op /\ j.at = job[c].at
      /\ j.acct = job[c].acct /\ j.on = job[c].on
  BY <1>1, <1>2 DEF Jobs, Moves
<1> HIDE DEF j
<1>4. PlaceOf(c, j) /\ Alike(c, job[c], j)
  BY <1>1, <1>3 DEF Place, PlaceOf, Alike
<1> QED
  BY <1>1, <1>3, <1>4, OnlyMoves

LEMMA FillIndexLocks ==
    ASSUME LockInv, NEW c \in Callers, FillIndex(c)
    PROVE  LockInv'
<1> DEFINE j == [job[c] EXCEPT !.fill = FALSE]
<1>1. Place(c) /\ job[c] \in Jobs /\ job[c].recs \in SUBSET SUBSET Accounts
  BY JobFacts
<1>2. /\ j \in Jobs /\ Moves(c, j) /\ j.op = job[c].op /\ j.at = job[c].at
      /\ j.acct = job[c].acct /\ j.on = job[c].on
  BY <1>1 DEF Jobs, Moves, FillIndex
<1>3. /\ cachedIndex' \in SUBSET SUBSET Accounts
      /\ UNCHANGED <<secret, index, legacy, cached, migrated, Held, serverVars, calls, faults,
                     pastVars>>
  BY <1>1 DEF FillIndex
<1> HIDE DEF j
<1>4. PlaceOf(c, j) /\ Alike(c, job[c], j)
  BY <1>1, <1>2 DEF Place, PlaceOf, Alike
<1>5. RestTypeOK' /\ LegacyIsReal'
  BY <1>3 DEF LockInv, RestTypeOK, LegacyIsReal, serverVars, Held, pastVars
<1> QED
  BY <1>2, <1>3, <1>4, <1>5, CallMoves DEF pastVars

LEMMA ResolveLocks ==
    ASSUME LockInv, NEW c \in Callers, Resolve(c)
    PROVE  LockInv'
<1>1. /\ Place(c) /\ job[c] \in Jobs /\ job[c].at = "resolve"
      /\ job[c].recs \in SUBSET SUBSET Accounts
  BY JobFacts DEF Resolve, At
<1>2. ASSUME NEW a \in Selected(c), OnlyJob,
             job' = [job EXCEPT ![c].at = "lock", ![c].acct = a, ![c].recs = {}]
      PROVE  LockInv'
  <2>1. a \in Accounts
    BY <1>1, <1>2 DEF Selected, Records
  <2> DEFINE j == [job[c] EXCEPT !.at = "lock", !.acct = a, !.recs = {}]
  <2>2. /\ j \in Jobs /\ Moves(c, j) /\ j.op = job[c].op /\ j.at = "lock"
        /\ j.acct = a /\ j.on = job[c].on
    BY <1>1, <1>2, <2>1 DEF Jobs, Moves, Points
  <2> HIDE DEF j
  <2>3. PlaceOf(c, j) /\ Alike(c, job[c], j)
    BY <1>1, <2>1, <2>2 DEF Place, PlaceOf, Alike
  <2> QED
    BY <1>2, <2>2, <2>3, OnlyMoves
<1>3. CASE Fail(c)
  BY <1>3, FailLocks
<1> QED
  BY <1>2, <1>3 DEF Resolve

(* A call that returns with what it asked for.                             *)
LEMMA ReturnLocks ==
    ASSUME LockInv, NEW c \in Callers, Return(c),
           secret' \in [Accounts -> Credentials], index' \in SUBSET Accounts, legacy' = legacy,
           cached' \in [Accounts -> Credentials], cachedIndex' \in SUBSET SUBSET Accounts,
           grants' \in 0..MaxGrants, spent' \in SUBSET Nat, dropped' \in SUBSET Nat,
           torn' \in SUBSET (Accounts \union {NoAccount}), faults' \in 0..MaxFaults,
           UNCHANGED <<migrated, calls, abandoned>>, astray' \in BOOLEAN
    PROVE  LockInv'
<1>1. /\ lock' \in [Accounts -> Callers \union {NoCaller}]
      /\ migrating' \in Callers \union {NoCaller}
      /\ loginInProgress' \in BOOLEAN
  BY DEF Return, Released, LockInv, RestTypeOK
<1>2. RestTypeOK' /\ LegacyIsReal'
  BY <1>1 DEF LockInv, RestTypeOK, LegacyIsReal
<1> QED
  BY <1>2, Ends

LEMMA StatusLocks ==
    ASSUME LockInv, NEW c \in Callers, Status(c)
    PROVE  LockInv'
<1>1. /\ Return(c)
      /\ UNCHANGED <<storeVars, migrated, serverVars, calls, faults, pastVars>>
  BY DEF Status
<1> QED
  BY <1>1, ReturnLocks DEF LockInv, RestTypeOK, storeVars, serverVars, pastVars

LEMMA AcquireLocks ==
    ASSUME LockInv, NEW c \in Callers, Acquire(c)
    PROVE  LockInv'
<1> DEFINE j == [job[c] EXCEPT !.at = "read"]
           a == job[c].acct
<1>1. /\ Place(c) /\ LocksOf(c) /\ job[c] \in Jobs /\ job[c].at = "lock" /\ job[c].op = "refresh"
      /\ a \in Accounts /\ migrating # c /\ c # NoCaller
  BY JobFacts DEF Acquire, At, Place, PlaceOf
<1>2. j \in Jobs /\ Moves(c, j) /\ j.op = job[c].op /\ j.at = "read" /\ j.acct = a /\ j.on = job[c].on
  BY <1>1 DEF Jobs, Moves, Points, Acquire, Enter, Goto
<1>3. /\ lock[a] = NoCaller /\ lock' = [lock EXCEPT ![a] = c]
      /\ UNCHANGED <<storeVars, migrated, migrating, loginInProgress, serverVars, calls, faults,
                     pastVars>>
  BY DEF Acquire, Enter
<1> HIDE DEF j, a
<1>4. /\ job' \in [Callers -> Jobs] /\ job'[c] = j
      /\ \A d \in Callers \ {c} : job'[d] = job[d]
  BY <1>2, Moved DEF LockInv, Moves
<1>5. \A b \in Accounts : lock'[b] = IF b = a THEN c ELSE lock[b]
  BY <1>3 DEF LockInv, RestTypeOK
<1>6. \A d \in Callers \ {c}, b \in Accounts : lock'[b] = d <=> lock[b] = d
  BY <1>3, <1>5, AuthAssumption
<1>7. Place(c)'
  BY <1>1, <1>2, <1>3, <1>4 DEF Place, PlaceOf
<1>8. LocksOf(c)'
  BY <1>1, <1>2, <1>3, <1>4, <1>5 DEF LocksOf, Refreshes
<1>9. RestTypeOK' /\ LegacyIsReal'
  BY <1>3 DEF LockInv, RestTypeOK, LegacyIsReal, storeVars, serverVars, pastVars
<1>10. \A d \in Callers : SignsIn(d)' <=> SignsIn(d)
  BY <1>2, <1>4 DEF SignsIn
<1>11. OneLogin'
  BY <1>3, <1>10 DEF OneLogin, LockInv, pastVars
<1> QED
  BY <1>3, <1>4, <1>6, <1>7, <1>8, <1>9, <1>11, OthersStay

LEMMA LookupLocks ==
    ASSUME LockInv, NEW c \in Callers, Lookup(c)
    PROVE  LockInv'
<1>1. Place(c) /\ job[c] \in Jobs /\ job[c].at = "read" /\ OnlyJob /\ job[c].acct \in Accounts
  BY JobFacts DEF Lookup, At, Place, PlaceOf
<1>2. cached[job[c].acct] \in Credentials /\ None \in Credentials
  BY <1>1, AuthAssumption DEF LockInv, RestTypeOK, None, From, Credentials
<1>3. CASE job' = [job EXCEPT ![c].at = "get", ![c].key = 1, ![c].creds = None]
  <2> DEFINE j == [job[c] EXCEPT !.at = "get", !.key = 1, !.creds = None]
  <2>1. /\ j \in Jobs /\ j.op = job[c].op /\ j.at = "get"
        /\ j.acct = job[c].acct /\ j.on = job[c].on
    <3>1. 1 \in 1..2 /\ "get" \in Points
      BY DEF Points
    <3>2. [job[c] EXCEPT !.at = "get", !.key = 1] \in Jobs
      BY <1>1, <3>1 DEF Jobs
    <3>3. j \in Jobs
      BY <1>2, <3>2 DEF Jobs
    <3> QED
      BY <1>1, <3>3 DEF Jobs
  <2>5. Moves(c, j)
    BY <1>3 DEF Moves
  <2> HIDE DEF j
  <2>2. PlaceOf(c, j) /\ Alike(c, job[c], j)
    BY <1>1, <2>1 DEF Place, PlaceOf, Alike
  <2> QED
    BY <1>1, <2>1, <2>2, <2>5, OnlyMoves
<1>4. CASE job' = [job EXCEPT ![c].at = "decide", ![c].creds = cached[job[c].acct]]
  <2> DEFINE j == [job[c] EXCEPT !.at = "decide", !.creds = cached[job[c].acct]]
  <2>1. /\ j \in Jobs /\ Moves(c, j) /\ j.op = job[c].op /\ j.at = "decide"
        /\ j.acct = job[c].acct /\ j.on = job[c].on
    BY <1>1, <1>2, <1>4 DEF Jobs, Moves, Points
  <2> HIDE DEF j
  <2>2. PlaceOf(c, j) /\ Alike(c, job[c], j)
    BY <1>1, <2>1 DEF Place, PlaceOf, Alike
  <2> QED
    BY <1>1, <2>1, <2>2, OnlyMoves
<1> QED
  BY <1>3, <1>4 DEF Lookup

(* What a successful get makes of the call.                                *)
Got(c) ==
    LET k == Keys[job[c].key] IN
    NextKey([job[c] EXCEPT !.creds[k] = secret[job[c].acct][k]], "keep")

LEMMA GetMoves ==
    ASSUME LockInv, NEW c \in Callers, job[c].at = "get"
    PROVE  /\ Got(c) \in Jobs
           /\ Got(c).op = job[c].op /\ Got(c).acct = job[c].acct /\ Got(c).on = job[c].on
           /\ Got(c).replaces = job[c].replaces /\ Got(c).fill = job[c].fill
           /\ job[c].key = 1 => /\ Got(c).at = "get" /\ Got(c).key = 2
                                /\ Got(c).creds = [job[c].creds EXCEPT !.access = secret[job[c].acct].access]
           /\ job[c].key = 2 => /\ Got(c).at = "keep" /\ Got(c).key = 1
                                /\ Got(c).creds = [job[c].creds EXCEPT !.refresh = secret[job[c].acct].refresh]
<1> DEFINE k == Keys[job[c].key]
           r == [job[c].creds EXCEPT ![k] = secret[job[c].acct][k]]
           j == [job[c] EXCEPT !.creds = r]
<1>1. /\ job[c] \in Jobs /\ Place(c) /\ job[c].key \in 1..2 /\ job[c].creds \in Credentials
      /\ job[c].acct \in Accounts
  BY JobFacts DEF Place, PlaceOf
<1>2. k \in Kinds /\ (job[c].key = 1 => k = "access") /\ (job[c].key = 2 => k = "refresh")
  BY <1>1 DEF Keys, Kinds
<1>3. r \in Credentials
  BY <1>1, <1>2 DEF LockInv, RestTypeOK, Credentials
<1>4. /\ job[c].key = 1 => r = [job[c].creds EXCEPT !.access = secret[job[c].acct].access]
      /\ job[c].key = 2 => r = [job[c].creds EXCEPT !.refresh = secret[job[c].acct].refresh]
  BY <1>2 DEF Credentials
<1>5. Got(c) = NextKey(j, "keep")
  BY DEF Got
<1> HIDE DEF r, k
<1>6. /\ j \in Jobs /\ j.creds = r /\ j.op = job[c].op /\ j.acct = job[c].acct
      /\ j.on = job[c].on /\ j.key = job[c].key /\ j.at = "get" /\ j.replaces = job[c].replaces
      /\ j.fill = job[c].fill
  BY <1>1, <1>3 DEF Jobs
<1>7. "keep" \in Points
  BY DEF Points
<1> HIDE DEF j
<1> QED
  BY <1>1, <1>4, <1>5, <1>6, <1>7, NextKeyMoves

LEMMA GetLocks ==
    ASSUME LockInv, NEW c \in Callers, Get(c)
    PROVE  LockInv'
<1>1. Place(c) /\ job[c].at = "get" /\ (job[c].key = 1 \/ job[c].key = 2)
  BY JobFacts DEF Get, At
<1>2. CASE OnlyJob /\ job' = [job EXCEPT ![c] = Got(c)]
  <2>1. /\ Got(c) \in Jobs /\ Got(c).op = job[c].op
        /\ Got(c).at \in {"get", "keep"} /\ Got(c).acct = job[c].acct /\ Got(c).on = job[c].on
    BY <1>1, GetMoves
  <2>2. PlaceOf(c, Got(c)) /\ Alike(c, job[c], Got(c))
    BY <1>1, <2>1 DEF Place, PlaceOf, Alike
  <2>3. Moves(c, Got(c))
    BY <1>2 DEF Moves
  <2> QED
    BY <1>2, <2>1, <2>2, <2>3, OnlyMoves
<1>3. CASE Fail(c)
  BY <1>3, FailLocks
<1> QED
  BY <1>2, <1>3 DEF Get, Got

LEMMA KeepLocks ==
    ASSUME LockInv, NEW c \in Callers, Keep(c)
    PROVE  LockInv'
<1> DEFINE j == [job[c] EXCEPT !.at = "decide"]
<1>1. /\ Place(c) /\ job[c] \in Jobs /\ job[c].at = "keep"
      /\ job[c].acct \in Accounts /\ job[c].creds \in Credentials
  BY JobFacts DEF Keep, At, Place, PlaceOf
<1>2. /\ j \in Jobs /\ Moves(c, j) /\ j.op = job[c].op /\ j.at = "decide"
      /\ j.acct = job[c].acct /\ j.on = job[c].on
  BY <1>1 DEF Jobs, Moves, Points, Keep, Goto
<1>3. /\ cached' = [cached EXCEPT ![job[c].acct] = job[c].creds]
      /\ UNCHANGED <<secret, index, legacy, cachedIndex, migrated, Held, serverVars, calls, faults,
                     pastVars>>
  BY DEF Keep
<1> HIDE DEF j
<1>4. PlaceOf(c, j) /\ Alike(c, job[c], j)
  BY <1>1, <1>2 DEF Place, PlaceOf, Alike
<1>5. RestTypeOK' /\ LegacyIsReal'
  BY <1>1, <1>3 DEF LockInv, RestTypeOK, LegacyIsReal, serverVars, Held, pastVars
<1> QED
  BY <1>2, <1>3, <1>4, <1>5, CallMoves DEF pastVars

LEMMA DecideLocks ==
    ASSUME LockInv, NEW c \in Callers, Decide(c)
    PROVE  LockInv'
<1>1. Place(c) /\ job[c] \in Jobs /\ job[c].at = "decide"
  BY JobFacts DEF Decide, At
<1>2. CASE Return(c) /\ UNCHANGED <<storeVars, migrated, serverVars, calls, faults, pastVars>>
  BY <1>2, ReturnLocks DEF LockInv, RestTypeOK, storeVars, serverVars, pastVars
<1>3. CASE Goto(c, "sent") /\ OnlyJob
  <2> DEFINE j == [job[c] EXCEPT !.at = "sent"]
  <2>1. /\ j \in Jobs /\ Moves(c, j) /\ j.op = job[c].op /\ j.at = "sent"
        /\ j.acct = job[c].acct /\ j.on = job[c].on
    BY <1>1, <1>3 DEF Jobs, Moves, Points, Goto
  <2> HIDE DEF j
  <2>2. PlaceOf(c, j) /\ Alike(c, job[c], j)
    BY <1>1, <2>1 DEF Place, PlaceOf, Alike
  <2> QED
    BY <1>3, <2>1, <2>2, OnlyMoves
<1> QED
  BY <1>2, <1>3 DEF Decide

(* What an answer of the endpoint makes of a call.                         *)
NewCreds(c, fresh) ==
    [k \in Kinds |-> IF k \in fresh THEN grants + 1 ELSE job[c].creds[k]]
OldToken(c, fresh) == IF "refresh" \in fresh THEN job[c].creds.refresh ELSE 0
ToStore(c, fresh) ==
    [Store(job[c], job[c].acct, NewCreds(c, fresh)) EXCEPT !.replaces = OldToken(c, fresh)]

LEMMA AnsweredFacts ==
    ASSUME LockInv, NEW c \in Callers, NEW fresh \in Answers, Answered(c, fresh)
    PROVE  /\ job[c].at = "sent" /\ job[c].op = "refresh" /\ migrating # c
           /\ job[c].acct \in Accounts /\ job[c].creds \in Credentials
           /\ grants \in Nat /\ grants + 1 \in 0..MaxGrants /\ grants' = grants + 1
           /\ OldToken(c, fresh) \in 0..MaxGrants
           /\ NewCreds(c, fresh) \in Credentials
           /\ spent' \in SUBSET Nat /\ spent' \ spent \subseteq {job[c].creds.refresh}
           /\ spent' \subseteq spent \union {OldToken(c, fresh)} /\ spent \subseteq spent'
<1>1. /\ job[c].at = "sent" /\ job[c].op = "refresh" /\ migrating # c
      /\ job[c].acct \in Accounts /\ job[c].creds \in Credentials
  BY JobFacts DEF Answered, At, Place, PlaceOf
<1>2. grants \in Nat /\ grants + 1 \in 0..MaxGrants /\ grants' = grants + 1
  BY AuthAssumption DEF Answered, Issue, LockInv, RestTypeOK
<1>3. job[c].creds.refresh \in 0..MaxGrants /\ 0 \in 0..MaxGrants /\ 0..MaxGrants \subseteq Nat
  BY <1>1, AuthAssumption DEF Credentials, Kinds
<1>4. NewCreds(c, fresh) \in Credentials
  BY <1>1, <1>2 DEF NewCreds, Credentials
<1>5. spent \in SUBSET Nat
  BY DEF LockInv, RestTypeOK
<1>6. spent' = IF "refresh" \in fresh THEN spent \union {job[c].creds.refresh} ELSE spent
  BY DEF Answered
<1> QED
  BY <1>1, <1>2, <1>3, <1>4, <1>5, <1>6 DEF OldToken

LEMMA ToStoreMoves ==
    ASSUME LockInv, NEW c \in Callers, NEW fresh \in Answers, Answered(c, fresh)
    PROVE  LET j == ToStore(c, fresh) IN
           /\ j \in Jobs /\ j.op = "refresh" /\ j.at = "set" /\ j.key = 1
           /\ j.acct = job[c].acct /\ j.on = job[c].acct
           /\ j.creds = NewCreds(c, fresh) /\ j.replaces = OldToken(c, fresh) /\ j.recs = {}
           /\ j.fill = job[c].fill
<1> DEFINE i == Store(job[c], job[c].acct, NewCreds(c, fresh))
<1>1. job[c] \in Jobs /\ job[c].acct \in Accounts /\ NewCreds(c, fresh) \in Credentials
      /\ OldToken(c, fresh) \in 0..MaxGrants /\ job[c].op = "refresh"
  BY JobFacts, AnsweredFacts
<1>2. /\ i \in Jobs /\ i.op = "refresh" /\ i.at = "set" /\ i.key = 1
      /\ i.acct = job[c].acct /\ i.on = job[c].acct /\ i.creds = NewCreds(c, fresh)
      /\ i.recs = {} /\ i.fill = job[c].fill
  BY <1>1, StoreMoves
<1>3. ToStore(c, fresh) = [i EXCEPT !.replaces = OldToken(c, fresh)]
  BY DEF ToStore
<1> HIDE DEF i
<1> QED
  BY <1>1, <1>2, <1>3 DEF Jobs

LEMMA AnswerLocks ==
    ASSUME LockInv, NEW c \in Callers, Answer(c)
    PROVE  LockInv'
<1>1. PICK fresh \in Answers :
          /\ Answered(c, fresh) /\ Moves(c, ToStore(c, fresh))
          /\ UNCHANGED <<storeVars, migrated, Held, calls, faults, pastVars>>
  BY DEF Answer, ToStore, Moves, NewCreds, OldToken
<1> DEFINE j == ToStore(c, fresh)
<1>2. /\ job[c].at = "sent" /\ job[c].op = "refresh" /\ migrating # c
      /\ job[c].acct \in Accounts
      /\ grants' \in 0..MaxGrants /\ spent' \in SUBSET Nat
  BY <1>1, AnsweredFacts
<1>3. /\ j \in Jobs /\ j.op = "refresh" /\ j.at = "set"
      /\ j.acct = job[c].acct /\ j.on = job[c].acct
  BY <1>1, ToStoreMoves
<1> HIDE DEF j
<1>4. PlaceOf(c, j) /\ Alike(c, job[c], j)
  BY <1>2, <1>3 DEF PlaceOf, Alike
<1>5. RestTypeOK' /\ LegacyIsReal'
  BY <1>1, <1>2 DEF LockInv, RestTypeOK, LegacyIsReal, storeVars, Held, pastVars
<1>6. Moves(c, j) /\ UNCHANGED <<Held, abandoned>>
  BY <1>1 DEF j, pastVars
<1> QED
  BY <1>3, <1>4, <1>5, <1>6, CallMoves

LEMMA AnswerForAnotherLocks ==
    ASSUME LockInv, NEW c \in Callers, AnswerForAnother(c)
    PROVE  LockInv'
<1>1. PICK fresh \in Answers :
          /\ Answered(c, fresh) /\ Return(c)
          /\ dropped' = dropped \union (spent' \ spent)
          /\ UNCHANGED <<storeVars, migrated, calls, faults, torn, abandoned, astray>>
  BY DEF AnswerForAnother
<1>2. grants' \in 0..MaxGrants /\ spent' \in SUBSET Nat
  BY <1>1, AnsweredFacts
<1>3. dropped' \in SUBSET Nat
  BY <1>1, <1>2 DEF LockInv, RestTypeOK
<1> QED
  BY <1>1, <1>2, <1>3, ReturnLocks DEF LockInv, RestTypeOK, storeVars

LEMMA LoseAnswerLocks ==
    ASSUME LockInv, NEW c \in Callers, LoseAnswer(c)
    PROVE  LockInv'
<1>1. /\ Fault("network") /\ Return(c)
      /\ spent' = spent \union {job[c].creds.refresh}
      /\ dropped' = dropped \union {job[c].creds.refresh}
      /\ UNCHANGED <<storeVars, migrated, grants, calls, torn, abandoned, astray>>
  BY DEF LoseAnswer
<1>2. job[c].creds.refresh \in Nat
  BY JobFacts, AuthAssumption DEF Credentials, Kinds
<1>3. spent' \in SUBSET Nat /\ dropped' \in SUBSET Nat
  BY <1>1, <1>2 DEF LockInv, RestTypeOK
<1>4. faults' \in 0..MaxFaults
  BY <1>1, FaultCounts
<1> QED
  BY <1>1, <1>3, <1>4, ReturnLocks DEF LockInv, RestTypeOK, storeVars

LEMMA SetSecretLocks ==
    ASSUME LockInv, NEW c \in Callers, SetSecret(c)
    PROVE  LockInv'
<1> DEFINE j == NextKey(job[c], "upsert")
           k == Keys[job[c].key]
<1>1. /\ Place(c) /\ job[c] \in Jobs /\ job[c].at = "set" /\ job[c].on \in Accounts
      /\ job[c].creds \in Credentials /\ k \in Kinds
  BY JobFacts, KeysAreKinds DEF SetSecret, At, Place, PlaceOf
<1>2. /\ secret' = [secret EXCEPT ![job[c].on][k] = job[c].creds[k]]
      /\ Moves(c, j) /\ "upsert" \in Points
      /\ UNCHANGED <<index, legacy, cached, cachedIndex, migrated, Held, serverVars, calls, faults,
                     pastVars>>
  BY DEF SetSecret, PutSecret, Moves, Points
<1>3. /\ j \in Jobs /\ j.op = job[c].op /\ j.at \in {"set", "upsert"}
      /\ j.acct = job[c].acct /\ j.on = job[c].on
  BY <1>1, <1>2, NextKeyMoves
<1> HIDE DEF j
<1>4. PlaceOf(c, j) /\ Alike(c, job[c], j)
  BY <1>1, <1>3 DEF Place, PlaceOf, Alike
<1>5. secret' \in [Accounts -> Credentials]
  BY <1>1, <1>2 DEF LockInv, RestTypeOK, Credentials
<1>6. RestTypeOK' /\ LegacyIsReal'
  BY <1>2, <1>5 DEF LockInv, RestTypeOK, LegacyIsReal, serverVars, Held, pastVars
<1> QED
  BY <1>2, <1>3, <1>4, <1>6, CallMoves DEF pastVars

LEMMA WriteIndexLocks ==
    ASSUME LockInv, NEW c \in Callers, NEW records \in SUBSET Accounts, WriteIndex(c, records),
           job[c].at \in {"upsert", "remove"}
    PROVE  LockInv'
<1> DEFINE j == [job[c] EXCEPT !.recs = {records}, !.at = "adopt"]
<1>1. Place(c) /\ job[c] \in Jobs
  BY JobFacts
<1>2. /\ Moves(c, j) /\ index' = records
      /\ UNCHANGED <<secret, legacy, cached, cachedIndex, migrated, Held, serverVars, calls, faults,
                     pastVars>>
  BY DEF WriteIndex, Moves
<1>3. /\ j \in Jobs /\ j.op = job[c].op /\ j.at = "adopt"
      /\ j.acct = job[c].acct /\ j.on = job[c].on
  <2>1. {records} \in SUBSET SUBSET Accounts /\ "adopt" \in Points
    BY DEF Points
  <2> QED
    BY <1>1, <2>1 DEF Jobs
<1> HIDE DEF j
<1>4. PlaceOf(c, j) /\ Alike(c, job[c], j)
  BY <1>1, <1>3 DEF Place, PlaceOf, Alike
<1>5. RestTypeOK' /\ LegacyIsReal'
  BY <1>2 DEF LockInv, RestTypeOK, LegacyIsReal, serverVars, Held, pastVars
<1> QED
  BY <1>2, <1>3, <1>4, <1>5, CallMoves DEF pastVars

LEMMA UpsertLocks ==
    ASSUME LockInv, NEW c \in Callers, Upsert(c) \/ Remove(c)
    PROVE  LockInv'
<1>1. job[c].recs \in SUBSET SUBSET Accounts /\ Place(c) /\ job[c].at \in {"upsert", "remove"}
  BY JobFacts DEF Upsert, Remove, At
<1>2. job[c].on \in Accounts /\ Records(c) \in SUBSET Accounts
  BY <1>1 DEF Place, PlaceOf, Records
<1>3. PICK records \in SUBSET Accounts : WriteIndex(c, records)
  BY <1>2 DEF Upsert, Remove, WithIt, WithoutIt
<1> QED
  BY <1>1, <1>3, WriteIndexLocks

LEMMA AdoptLocks ==
    ASSUME LockInv, NEW c \in Callers, Adopt(c)
    PROVE  LockInv'
<1>1. /\ Place(c) /\ job[c] \in Jobs /\ job[c].at = "adopt"
      /\ job[c].recs \in SUBSET SUBSET Accounts
      /\ job[c].on \in Accounts
  BY JobFacts DEF Adopt, At, Place, PlaceOf
<1>2. /\ cachedIndex' = job[c].recs /\ astray' = FALSE
      /\ UNCHANGED <<secret, index, legacy, cached, migrated, serverVars, calls, faults>>
  BY DEF Adopt
<1>3. CASE /\ migrating = c
           /\ job' = [job EXCEPT ![c].at = "clean", ![c].key = 1, ![c].recs = {}]
           /\ Settled(c)
           /\ UNCHANGED Held
  <2> DEFINE j == [job[c] EXCEPT !.at = "clean", !.key = 1, !.recs = {}]
  <2>1. /\ j \in Jobs /\ j.op = job[c].op /\ j.at = "clean" /\ j.acct = job[c].acct
        /\ j.on = job[c].on
    <3>1. 1 \in 1..2 /\ "clean" \in Points
      BY DEF Points
    <3>2. [job[c] EXCEPT !.at = "clean", !.key = 1] \in Jobs
      BY <1>1, <3>1 DEF Jobs
    <3>3. j \in Jobs
      BY <3>2 DEF Jobs
    <3> QED
      BY <1>1, <3>3 DEF Jobs
  <2>2. Moves(c, j)
    BY <1>3 DEF Moves
  <2> HIDE DEF j
  <2>5. job[c].op \in {"refresh", "status", "login"}
    BY <1>1, <1>3 DEF Place, PlaceOf, Jobs, Ops
  <2>3. PlaceOf(c, j) /\ Alike(c, job[c], j)
    BY <1>1, <1>3, <2>1, <2>5 DEF Place, PlaceOf, Alike
  <2>4. RestTypeOK' /\ LegacyIsReal' /\ UNCHANGED abandoned
    BY <1>1, <1>2, <1>3 DEF LockInv, RestTypeOK, LegacyIsReal, serverVars, Held, Settled
  <2> QED
    BY <1>3, <2>1, <2>2, <2>3, <2>4, CallMoves
<1>4. CASE Return(c) /\ Settled(c)
  BY <1>1, <1>2, <1>4, ReturnLocks DEF LockInv, RestTypeOK, serverVars, Settled
<1>5. CASE /\ migrating # c /\ job[c].op # "logout"
           /\ Goto(c, "cache")
           /\ UNCHANGED <<Held, dropped, torn, abandoned>>
  <2> DEFINE j == [job[c] EXCEPT !.at = "cache"]
  <2>1. /\ j \in Jobs /\ Moves(c, j) /\ j.op = job[c].op /\ j.at = "cache"
        /\ j.acct = job[c].acct /\ j.on = job[c].on
    BY <1>1, <1>5 DEF Jobs, Moves, Points, Goto
  <2> HIDE DEF j
  <2>2. job[c].op \in {"refresh", "login"}
    BY <1>1, <1>5 DEF Place, PlaceOf, Jobs, Ops
  <2>3. PlaceOf(c, j) /\ Alike(c, job[c], j)
    BY <1>1, <1>5, <2>1, <2>2 DEF Place, PlaceOf, Alike
  <2>4. RestTypeOK' /\ LegacyIsReal'
    BY <1>1, <1>2, <1>5 DEF LockInv, RestTypeOK, LegacyIsReal, serverVars, Held
  <2> QED
    BY <1>5, <2>1, <2>3, <2>4, CallMoves
<1> QED
  BY <1>3, <1>4, <1>5 DEF Adopt

LEMMA CacheLocks ==
    ASSUME LockInv, NEW c \in Callers, Cache(c)
    PROVE  LockInv'
<1>1. /\ Place(c) /\ job[c] \in Jobs /\ job[c].at = "cache" /\ job[c].on \in Accounts
      /\ job[c].creds \in Credentials /\ migrating # c
      /\ job[c].acct \in Accounts \union {NoAccount}
  BY JobFacts DEF Cache, At, Place, PlaceOf
<1>2. /\ cached' = [cached EXCEPT ![job[c].on] = job[c].creds]
      /\ Settled(c) /\ UNCHANGED astray
      /\ UNCHANGED <<secret, index, legacy, cachedIndex, migrated, serverVars, calls, faults>>
  BY DEF Cache
<1>3. cached' \in [Accounts -> Credentials]
  BY <1>1, <1>2 DEF LockInv, RestTypeOK
<1>4. CASE Return(c)
  BY <1>2, <1>3, <1>4, ReturnLocks DEF LockInv, RestTypeOK, serverVars, Settled
<1>5. CASE /\ job[c].op = "login"
           /\ job' = [job EXCEPT ![c] = [Idle EXCEPT !.op = "login", !.at = "ensure",
                                                     !.acct = job[c].acct]]
           /\ UNCHANGED Held
  <2> DEFINE j == [Idle EXCEPT !.op = "login", !.at = "ensure", !.acct = job[c].acct]
  <2>1. j \in Jobs /\ Moves(c, j) /\ j.op = "login" /\ j.at = "ensure"
    BY <1>1, <1>5, IdleIsJob DEF Jobs, Moves, Points, Ops, Idle
  <2> HIDE DEF j
  <2>2. PlaceOf(c, j) /\ Alike(c, job[c], j)
    BY <1>1, <1>5, <2>1 DEF Place, PlaceOf, Alike
  <2>3. RestTypeOK' /\ LegacyIsReal' /\ UNCHANGED abandoned
    BY <1>2, <1>3, <1>5 DEF LockInv, RestTypeOK, LegacyIsReal, serverVars, Held, Settled
  <2> QED
    BY <1>5, <2>1, <2>2, <2>3, CallMoves
<1> QED
  BY <1>4, <1>5 DEF Cache

LEMMA EraseLocks ==
    ASSUME LockInv, NEW c \in Callers, Erase(c)
    PROVE  LockInv'
<1> DEFINE j == [job[c] EXCEPT !.at = "delete"]
<1>1. Place(c) /\ job[c] \in Jobs /\ job[c].at = "erase"
  BY JobFacts DEF Erase, At
<1>2. /\ j \in Jobs /\ Moves(c, j) /\ j.op = job[c].op /\ j.at = "delete"
      /\ j.acct = job[c].acct /\ j.on = job[c].on
  BY <1>1 DEF Jobs, Moves, Points, Erase, Goto
<1>3. /\ cached' = [cached EXCEPT ![job[c].on] = None]
      /\ UNCHANGED <<secret, index, legacy, cachedIndex, migrated, Held, serverVars, calls, faults,
                     pastVars>>
  BY DEF Erase
<1>4. None \in Credentials
  BY AuthAssumption DEF None, From, Credentials
<1> HIDE DEF j
<1>5. PlaceOf(c, j) /\ Alike(c, job[c], j)
  BY <1>1, <1>2 DEF Place, PlaceOf, Alike
<1>6. RestTypeOK' /\ LegacyIsReal'
  BY <1>3, <1>4 DEF LockInv, RestTypeOK, LegacyIsReal, serverVars, Held, pastVars
<1> QED
  BY <1>2, <1>3, <1>5, <1>6, CallMoves DEF pastVars

LEMMA AfterDeleteMoves ==
    ASSUME NEW j \in Jobs, NEW failed \in BOOLEAN
    PROVE  /\ AfterDelete(j, failed) \in Jobs
           /\ AfterDelete(j, failed).at
                = IF j.key = 1 THEN j.at ELSE IF failed THEN "deleted" ELSE "remove"
           /\ AfterDelete(j, failed).key = IF j.key = 1 THEN 2 ELSE 1
           /\ AfterDelete(j, failed).failed = failed
           /\ AfterDelete(j, failed).op = j.op /\ AfterDelete(j, failed).acct = j.acct
           /\ AfterDelete(j, failed).on = j.on /\ AfterDelete(j, failed).recs = j.recs
           /\ AfterDelete(j, failed).replaces = j.replaces /\ AfterDelete(j, failed).fill = j.fill
<1> DEFINE i == [j EXCEPT !.failed = failed]
           p == IF failed THEN "deleted" ELSE "remove"
<1>1. /\ i \in Jobs /\ i.op = j.op /\ i.at = j.at /\ i.key = j.key /\ i.acct = j.acct
      /\ i.on = j.on /\ i.recs = j.recs /\ i.failed = failed /\ i.replaces = j.replaces
      /\ i.fill = j.fill
  BY DEF Jobs
<1>2. p \in Points
  BY DEF Points
<1>3. AfterDelete(j, failed) = NextKey(i, p)
  BY DEF AfterDelete
<1> HIDE DEF i
<1> QED
  BY <1>1, <1>2, <1>3, NextKeyMoves

LEMMA DeleteLocks ==
    ASSUME LockInv, NEW c \in Callers, Delete(c)
    PROVE  LockInv'
<1>1. /\ Place(c) /\ job[c] \in Jobs /\ job[c].at = "delete" /\ job[c].on \in Accounts
      /\ Keys[job[c].key] \in Kinds /\ job[c].failed \in BOOLEAN
  BY JobFacts, KeysAreKinds DEF Delete, At, Place, PlaceOf, Jobs
<1>2. /\ UNCHANGED <<index, legacy, cached, cachedIndex, migrated, Held, serverVars, calls,
                     pastVars>>
      /\ faults' \in 0..MaxFaults
  BY FaultCounts DEF Delete, LockInv, RestTypeOK
<1>3. secret' \in [Accounts -> Credentials]
  <2>1. 0 \in 0..MaxGrants
    BY AuthAssumption
  <2>2. [secret EXCEPT ![job[c].on][Keys[job[c].key]] = 0] \in [Accounts -> Credentials]
    BY <1>1, <2>1 DEF LockInv, RestTypeOK, Credentials
  <2> QED
    BY <2>2 DEF Delete, LockInv, RestTypeOK
<1>4. PICK failed \in BOOLEAN : Moves(c, AfterDelete(job[c], failed))
  BY <1>1 DEF Delete, Moves
<1> DEFINE j == AfterDelete(job[c], failed)
<1>5. /\ j \in Jobs /\ j.op = job[c].op /\ j.at \in {"delete", "deleted", "remove"}
      /\ j.acct = job[c].acct /\ j.on = job[c].on
  BY <1>1, AfterDeleteMoves
<1>6. Moves(c, j)
  BY <1>4
<1> HIDE DEF j
<1>7. PlaceOf(c, j) /\ Alike(c, job[c], j)
  BY <1>1, <1>5 DEF Place, PlaceOf, Alike
<1>8. RestTypeOK' /\ LegacyIsReal'
  BY <1>2, <1>3 DEF LockInv, RestTypeOK, LegacyIsReal, serverVars, Held, pastVars
<1> QED
  BY <1>2, <1>5, <1>6, <1>7, <1>8, CallMoves DEF pastVars

LEMMA RestartLocks ==
    ASSUME LockInv, Restart
    PROVE  LockInv'
<1>1. /\ Fault("restart")
      /\ job' = [c \in Callers |-> Idle]
      /\ cached' = [a \in Accounts |-> None]
      /\ cachedIndex' = {} /\ migrated' = FALSE /\ migrating' = NoCaller
      /\ lock' = [a \in Accounts |-> NoCaller]
      /\ loginInProgress' = FALSE /\ abandoned' = FALSE /\ astray' = FALSE
      /\ UNCHANGED <<secret, index, legacy, grants, calls>>
  BY DEF Restart
<1>2. faults' \in 0..MaxFaults /\ None \in Credentials
  BY <1>1, FaultCounts, AuthAssumption DEF None, From, Credentials
<1>3. \A c \in Callers : /\ job[c].on \in Accounts \union {NoAccount}
                         /\ job[c].replaces \in Nat /\ job[c].creds.refresh \in Nat
  BY JobFacts, AuthAssumption DEF Credentials, Kinds
<1>4. torn' \in SUBSET (Accounts \union {NoAccount})
  <2>1. torn \in SUBSET (Accounts \union {NoAccount})
    BY DEF LockInv, RestTypeOK
  <2> QED
    BY <1>3, <2>1 DEF Restart
<1>5. dropped' \in SUBSET Nat /\ spent' \in SUBSET Nat
  <2>1. dropped \in SUBSET Nat /\ spent \in SUBSET Nat
    BY DEF LockInv, RestTypeOK
  <2>2. Waiting \subseteq Callers
    BY DEF Waiting
  <2> QED
    BY <1>3, <2>1, <2>2 DEF Restart
<1>6. RestTypeOK' /\ LegacyIsReal'
  BY <1>1, <1>2, <1>4, <1>5 DEF LockInv, RestTypeOK, LegacyIsReal
<1>7. job' \in [Callers -> Jobs]
  BY <1>1, IdleIsJob
<1>8. \A c \in Callers : Place(c)' /\ LocksOf(c)'
  BY <1>1, AuthAssumption DEF Place, PlaceOf, LocksOf, Refreshes, Idle
<1>9. OneLogin'
  BY <1>1 DEF OneLogin, SignsIn, Idle
<1> QED
  BY <1>6, <1>7, <1>8, <1>9 DEF LockInv

LEMMA InitLocks == AuthInit => LockInv
<1> SUFFICES ASSUME AuthInit PROVE LockInv
  OBVIOUS
<1>1. None \in Credentials /\ From(1) \in Credentials
  BY AuthAssumption DEF None, From, Credentials
<1>2. RestTypeOK
  <2>1. legacy \in Credentials /\ grants \in 0..MaxGrants
    BY <1>1, AuthAssumption DEF AuthInit
  <2>2. calls \in 0..MaxCalls /\ faults \in 0..MaxFaults
    BY AuthAssumption DEF AuthInit
  <2>3. secret \in [Accounts -> Credentials] /\ cached \in [Accounts -> Credentials]
    BY <1>1 DEF AuthInit
  <2> QED
    BY <2>1, <2>2, <2>3 DEF AuthInit, RestTypeOK
<1>3. LegacyIsReal
  BY DEF AuthInit, LegacyIsReal, Whole, None, From, Kinds
<1>4. \A c \in Callers : Place(c) /\ LocksOf(c)
  BY AuthAssumption DEF AuthInit, Place, PlaceOf, LocksOf, Refreshes, Idle
<1>5. OneLogin
  BY DEF AuthInit, OneLogin, SignsIn, Idle
<1>6. job \in [Callers -> Jobs]
  BY IdleIsJob DEF AuthInit
<1> QED
  BY <1>2, <1>3, <1>4, <1>5, <1>6 DEF LockInv

LEMMA NextLocks ==
    ASSUME LockInv, AuthNext
    PROVE  LockInv'
<1>1. CASE Restart
  BY <1>1, RestartLocks
<1>2. ASSUME NEW c \in Callers, Step(c) PROVE LockInv'
  <2>1. CASE SecretFault(c)
    BY <2>1, FaultCounts, GiveUpLocks DEF SecretFault
  <2>2. CASE NoCode(c) \/ Refused(c) \/ Abandon(c) \/ Deleted(c)
    BY <2>2, FailLocks DEF NoCode, Refused, Abandon, Deleted
  <2>3. CASE Complete(c) \/ Ensure(c) \/ Migrate(c) \/ Clean(c) \/ ReadIndex(c) \/ FillIndex(c)
             \/ Resolve(c) \/ Status(c) \/ Lookup(c) \/ Get(c) \/ Keep(c) \/ Decide(c)
    BY <2>3, CompleteLocks, EnsureLocks, MigrateLocks, CleanLocks, ReadIndexLocks, FillIndexLocks,
       ResolveLocks, StatusLocks, LookupLocks, GetLocks, KeepLocks, DecideLocks
  <2>4. CASE Answer(c) \/ AnswerForAnother(c) \/ LoseAnswer(c) \/ SetSecret(c) \/ Upsert(c)
             \/ Remove(c) \/ Adopt(c) \/ Cache(c) \/ Erase(c) \/ Delete(c)
    BY <2>4, AnswerLocks, AnswerForAnotherLocks, LoseAnswerLocks, SetSecretLocks, UpsertLocks,
       AdoptLocks, CacheLocks, EraseLocks, DeleteLocks
  <2> QED
    BY <1>2, <2>1, <2>2, <2>3, <2>4 DEF Step
<1>3. ASSUME NEW c \in Callers, Host(c) PROVE LockInv'
  <2>1. CASE Cancel(c)
    BY <2>1, FailLocks DEF Cancel
  <2> QED
    BY <1>3, <2>1, CallLocks, CallLoginLocks, WaitLocks, DropLocks DEF Host
<1> QED
  BY <1>1, <1>2, <1>3, AcquireLocks DEF AuthNext

LEMMA StutterLocks == LockInv /\ UNCHANGED authVars => LockInv'
<1> SUFFICES ASSUME LockInv, UNCHANGED authVars PROVE LockInv'
  OBVIOUS
<1>1. UNCHANGED <<secret, index, legacy, cached, cachedIndex, migrated, migrating, lock,
                  loginInProgress, job, grants, spent, calls, faults, dropped, torn, abandoned,
                  astray>>
  BY DEF authVars, storeVars, serverVars, pastVars
<1> QED
  BY <1>1 DEF LockInv, RestTypeOK, Place, PlaceOf, LocksOf, Refreshes, OneLogin, SignsIn, LegacyIsReal

LEMMA LocksHold == AuthSpec => []LockInv
<1>1. LockInv /\ [AuthNext]_authVars => LockInv'
  BY NextLocks, StutterLocks
<1> QED
  BY <1>1, InitLocks, PTL DEF AuthSpec

LEMMA ApartType == AuthSpec => [](apart \in BOOLEAN)
<1>1. AuthInit => apart \in BOOLEAN
  BY DEF AuthInit
<1>2. apart \in BOOLEAN /\ [AuthNext]_authVars => (apart \in BOOLEAN)'
  BY DEF AuthNext, Observe, authVars
<1> QED
  BY <1>1, <1>2, PTL DEF AuthSpec

(* Types, and every call is where its kind of call can be.                 *)
THEOREM AuthTypes == AuthSpec => []AuthTypeOK
  BY LocksHold, ApartType, LockInvMeaning, PTL

(* No account lock, no migration mutex and no sign-in flag is left behind, *)
(* whatever interleaves, fails or is restarted: what refresh_credentials,  *)
(* the migration and CodexLoginAttempt hold is held by a call that is      *)
(* there and will give it up.                                              *)
THEOREM NothingIsLeftLocked == AuthSpec => []NothingStaysLocked
  BY LocksHold, ApartType, LockInvMeaning, PTL

-----------------------------------------------------------------------------
(* What each step makes of its call, and that it leaves the others alone.  *)
OnlyCaller(c) ==
    /\ job' \in [Callers -> Jobs]
    /\ \A d \in Callers \ {c} : job'[d] = job[d]

Ended(c) == OnlyCaller(c) /\ job'[c] = Idle

LEMMA ReturnEnds ==
    ASSUME LockInv, NEW c \in Callers, job' = [job EXCEPT ![c] = Idle]
    PROVE  Ended(c)
  BY Moved, IdleIsJob DEF LockInv, Ended, OnlyCaller

LEMMA GotoMoves ==
    ASSUME LockInv, NEW c \in Callers, NEW p \in Points, Goto(c, p)
    PROVE  /\ OnlyCaller(c) /\ job'[c].at = p
           /\ job'[c].op = job[c].op /\ job'[c].acct = job[c].acct /\ job'[c].on = job[c].on
           /\ job'[c].key = job[c].key /\ job'[c].creds = job[c].creds
           /\ job'[c].recs = job[c].recs /\ job'[c].replaces = job[c].replaces
           /\ job'[c].failed = job[c].failed /\ job'[c].fill = job[c].fill
<1> DEFINE j == [job[c] EXCEPT !.at = p]
<1>1. job[c] \in Jobs
  BY JobFacts
<1>2. j \in Jobs /\ job' = [job EXCEPT ![c] = j]
  BY <1>1 DEF Jobs, Goto
<1>3. /\ j.at = p /\ j.op = job[c].op /\ j.acct = job[c].acct /\ j.on = job[c].on
      /\ j.key = job[c].key /\ j.creds = job[c].creds /\ j.recs = job[c].recs
      /\ j.replaces = job[c].replaces /\ j.failed = job[c].failed /\ j.fill = job[c].fill
  BY <1>1 DEF Jobs
<1> HIDE DEF j
<1>4. OnlyCaller(c) /\ job'[c] = j
  BY <1>2, Moved DEF LockInv, OnlyCaller
<1> QED
  BY <1>3, <1>4

LEMMA StoresMoves ==
    ASSUME LockInv, NEW c \in Callers, NEW i \in Jobs, NEW a \in Accounts,
           NEW creds \in Credentials, Moves(c, Store(i, a, creds))
    PROVE  /\ OnlyCaller(c) /\ job'[c].at = "set" /\ job'[c].on = a /\ job'[c].key = 1
           /\ job'[c].creds = creds /\ job'[c].recs = {} /\ job'[c].op = i.op
           /\ job'[c].acct = i.acct /\ job'[c].replaces = i.replaces /\ job'[c].fill = i.fill
<1> DEFINE j == Store(i, a, creds)
<1>1. /\ j \in Jobs /\ j.at = "set" /\ j.on = a /\ j.key = 1 /\ j.creds = creds /\ j.recs = {}
      /\ j.op = i.op /\ j.acct = i.acct /\ j.replaces = i.replaces /\ j.fill = i.fill
  BY StoreMoves
<1>2. job' = [job EXCEPT ![c] = j]
  BY DEF Moves
<1> HIDE DEF j
<1> QED
  BY <1>1, <1>2, Moved DEF LockInv, OnlyCaller

LEMMA CompleteMoves ==
    ASSUME LockInv, NEW c \in Callers, Complete(c)
    PROVE  \E a \in Accounts :
           /\ OnlyCaller(c) /\ job'[c].at = "set" /\ job'[c].on = a /\ job'[c].key = 1
           /\ job'[c].creds = From(grants + 1) /\ job'[c].recs = {}
           /\ job'[c].op = "login" /\ job'[c].replaces = job[c].replaces
           /\ job'[c].fill = job[c].fill /\ job[c].at = "accept"
           /\ migrating # c
           /\ grants \in Nat /\ grants + 1 \in 1..MaxGrants /\ grants' = grants + 1
           /\ UNCHANGED <<storeVars, migrated, Held, spent, calls, faults, pastVars>>
<1>1. Place(c) /\ job[c] \in Jobs /\ job[c].at = "accept" /\ job[c].op = "login" /\ migrating # c
  BY JobFacts DEF Complete, At, Place, PlaceOf
<1>2. PICK a \in Accounts :
          job' = [job EXCEPT ![c] = Store([@ EXCEPT !.acct = a], a, From(grants + 1))]
  BY DEF Complete
<1> DEFINE i == [job[c] EXCEPT !.acct = a]
           r == From(grants + 1)
<1>3. grants \in Nat /\ grants + 1 \in 1..MaxGrants /\ grants' = grants + 1
  BY AuthAssumption DEF Complete, Issue, LockInv, RestTypeOK
<1>4. r \in Credentials
  BY <1>3 DEF From, Credentials, Kinds
<1>5. i \in Jobs /\ i.op = job[c].op /\ i.acct = a /\ i.fill = job[c].fill /\ i.replaces = job[c].replaces
  BY <1>1 DEF Jobs
<1>6. Moves(c, Store(i, a, r))
  BY <1>2 DEF Moves
<1> HIDE DEF i, r
<1>7. /\ OnlyCaller(c) /\ job'[c].at = "set" /\ job'[c].on = a /\ job'[c].key = 1
      /\ job'[c].creds = r /\ job'[c].recs = {}
      /\ job'[c].op = i.op /\ job'[c].replaces = i.replaces /\ job'[c].fill = i.fill
  BY <1>4, <1>5, <1>6, StoresMoves
<1>8. UNCHANGED <<storeVars, migrated, Held, spent, calls, faults, pastVars>>
  BY DEF Complete
<1> QED
  BY <1>1, <1>3, <1>5, <1>7, <1>8 DEF r

LEMMA AnswerMoves ==
    ASSUME LockInv, NEW c \in Callers, Answer(c)
    PROVE  \E fresh \in Answers :
           /\ Answered(c, fresh)
           /\ OnlyCaller(c) /\ job'[c].at = "set" /\ job'[c].on = job[c].acct /\ job'[c].key = 1
           /\ job'[c].creds = NewCreds(c, fresh) /\ job'[c].recs = {} /\ job'[c].op = "refresh"
           /\ job'[c].acct = job[c].acct /\ job'[c].replaces = OldToken(c, fresh)
           /\ job'[c].fill = job[c].fill
           /\ UNCHANGED <<storeVars, migrated, Held, calls, faults, pastVars>>
<1>1. PICK fresh \in Answers :
          /\ Answered(c, fresh) /\ job' = [job EXCEPT ![c] = ToStore(c, fresh)]
          /\ UNCHANGED <<storeVars, migrated, Held, calls, faults, pastVars>>
  BY DEF Answer, ToStore, NewCreds, OldToken
<1> DEFINE j == ToStore(c, fresh)
<1>2. /\ j \in Jobs /\ j.op = "refresh" /\ j.at = "set" /\ j.key = 1
      /\ j.acct = job[c].acct /\ j.on = job[c].acct
      /\ j.creds = NewCreds(c, fresh) /\ j.replaces = OldToken(c, fresh) /\ j.recs = {}
      /\ j.fill = job[c].fill
  BY <1>1, ToStoreMoves
<1>3. job' = [job EXCEPT ![c] = j]
  BY <1>1
<1> HIDE DEF j
<1>4. OnlyCaller(c) /\ job'[c] = j
  BY <1>2, <1>3, Moved DEF LockInv, OnlyCaller
<1> QED
  BY <1>1, <1>2, <1>4

LEMMA ReadIndexMoves ==
    ASSUME LockInv, NEW c \in Callers, ReadIndex(c)
    PROVE  /\ OnlyCaller(c) /\ job'[c].at = job[c].at
           /\ job'[c].op = job[c].op /\ job'[c].acct = job[c].acct /\ job'[c].on = job[c].on
           /\ job'[c].key = job[c].key /\ job'[c].creds = job[c].creds
           /\ job'[c].replaces = job[c].replaces /\ job'[c].failed = job[c].failed
           /\ job'[c].recs = IF cachedIndex # {} THEN cachedIndex ELSE {index}
<1>1. /\ job[c] \in Jobs
      /\ cachedIndex \in SUBSET SUBSET Accounts /\ {index} \in SUBSET SUBSET Accounts
  BY JobFacts DEF LockInv, RestTypeOK
<1>2. CASE cachedIndex # {} /\ job' = [job EXCEPT ![c].recs = cachedIndex]
  <2> DEFINE j == [job[c] EXCEPT !.recs = cachedIndex]
  <2>1. /\ j \in Jobs /\ j.at = job[c].at /\ j.op = job[c].op /\ j.acct = job[c].acct
        /\ j.on = job[c].on /\ j.key = job[c].key /\ j.creds = job[c].creds
        /\ j.replaces = job[c].replaces /\ j.failed = job[c].failed /\ j.recs = cachedIndex
    BY <1>1 DEF Jobs
  <2>2. job' = [job EXCEPT ![c] = j]
    BY <1>2
  <2> HIDE DEF j
  <2>3. OnlyCaller(c) /\ job'[c] = j
    BY <2>1, <2>2, Moved DEF LockInv, OnlyCaller
  <2> QED
    BY <1>2, <2>1, <2>3
<1>3. CASE cachedIndex = {} /\ job' = [job EXCEPT ![c].recs = {index}, ![c].fill = TRUE]
  <2> DEFINE j == [job[c] EXCEPT !.recs = {index}, !.fill = TRUE]
  <2>1. /\ j \in Jobs /\ j.at = job[c].at /\ j.op = job[c].op /\ j.acct = job[c].acct
        /\ j.on = job[c].on /\ j.key = job[c].key /\ j.creds = job[c].creds
        /\ j.replaces = job[c].replaces /\ j.failed = job[c].failed /\ j.recs = {index}
    BY <1>1 DEF Jobs
  <2>2. job' = [job EXCEPT ![c] = j]
    BY <1>3
  <2> HIDE DEF j
  <2>3. OnlyCaller(c) /\ job'[c] = j
    BY <2>1, <2>2, Moved DEF LockInv, OnlyCaller
  <2> QED
    BY <1>3, <2>1, <2>3
<1> QED
  BY <1>2, <1>3 DEF ReadIndex

LEMMA FillIndexFills ==
    ASSUME LockInv, NEW c \in Callers, FillIndex(c)
    PROVE  job[c].fill
  BY DEF FillIndex

LEMMA FillIndexMoves ==
    ASSUME LockInv, NEW c \in Callers, FillIndex(c)
    PROVE  /\ OnlyCaller(c) /\ job'[c].at = job[c].at
           /\ job'[c].op = job[c].op /\ job'[c].acct = job[c].acct /\ job'[c].on = job[c].on
           /\ job'[c].key = job[c].key /\ job'[c].creds = job[c].creds
           /\ job'[c].replaces = job[c].replaces /\ job'[c].failed = job[c].failed
           /\ job'[c].recs = job[c].recs
<1> DEFINE j == [job[c] EXCEPT !.fill = FALSE]
<1>1. job[c] \in Jobs
  BY JobFacts
<1>2. /\ j \in Jobs /\ j.at = job[c].at /\ j.op = job[c].op /\ j.acct = job[c].acct
      /\ j.on = job[c].on /\ j.key = job[c].key /\ j.creds = job[c].creds
      /\ j.replaces = job[c].replaces /\ j.failed = job[c].failed /\ j.recs = job[c].recs
  BY <1>1 DEF Jobs
<1>3. job' = [job EXCEPT ![c] = j]
  BY DEF FillIndex
<1> HIDE DEF j
<1>4. OnlyCaller(c) /\ job'[c] = j
  BY <1>2, <1>3, Moved DEF LockInv, OnlyCaller
<1> QED
  BY <1>2, <1>4

LEMMA PutMoves ==
    ASSUME LockInv, NEW c \in Callers, NEW j \in Jobs, Moves(c, j)
    PROVE  OnlyCaller(c) /\ job'[c] = j
  BY Moved DEF LockInv, OnlyCaller, Moves

LEMMA ResolveMoves ==
    ASSUME LockInv, NEW c \in Callers, NEW a \in Accounts,
           job' = [job EXCEPT ![c].at = "lock", ![c].acct = a, ![c].recs = {}]
    PROVE  /\ OnlyCaller(c) /\ job'[c].at = "lock" /\ job'[c].op = job[c].op
           /\ job'[c].acct = a /\ job'[c].recs = {} /\ job'[c].fill = job[c].fill
<1> DEFINE j == [job[c] EXCEPT !.at = "lock", !.acct = a, !.recs = {}]
<1>1. j \in Jobs /\ j.at = "lock" /\ j.op = job[c].op /\ j.acct = a /\ j.recs = {} /\ j.fill = job[c].fill
  <2>1. job[c] \in Jobs /\ "lock" \in Points
    BY JobFacts DEF Points
  <2>2. [job[c] EXCEPT !.at = "lock", !.acct = a] \in Jobs
    BY <2>1 DEF Jobs
  <2>3. j \in Jobs
    BY <2>2 DEF Jobs
  <2> QED
    BY <2>1, <2>3 DEF Jobs
<1>2. Moves(c, j)
  BY DEF Moves
<1> HIDE DEF j
<1> QED
  BY <1>1, <1>2, PutMoves

LEMMA LookupMoves ==
    ASSUME LockInv, NEW c \in Callers, Lookup(c)
    PROVE  /\ OnlyCaller(c) /\ job'[c].fill = job[c].fill /\ job'[c].op = job[c].op /\ job'[c].acct = job[c].acct
           /\ \/ /\ cached[job[c].acct] = None
                 /\ job'[c].at = "get" /\ job'[c].key = 1 /\ job'[c].creds = None
              \/ /\ cached[job[c].acct] # None
                 /\ job'[c].at = "decide" /\ job'[c].creds = cached[job[c].acct]
<1> DEFINE r == cached[job[c].acct]
           i == [job[c] EXCEPT !.at = "get", !.key = 1, !.creds = None]
           j == [job[c] EXCEPT !.at = "decide", !.creds = r]
<1>1. /\ job[c] \in Jobs /\ job[c].acct \in Accounts
      /\ 1 \in 1..2 /\ "get" \in Points /\ "decide" \in Points
  BY JobFacts DEF Lookup, At, Place, PlaceOf, Points
<1>2. r \in Credentials /\ None \in Credentials
  BY <1>1, AuthAssumption DEF LockInv, RestTypeOK, None, From, Credentials
<1>3. \/ r = None /\ Moves(c, i)
      \/ r # None /\ Moves(c, j)
  BY DEF Lookup, Moves
<1> HIDE DEF r
<1>4. /\ i \in Jobs /\ i.fill = job[c].fill /\ i.op = job[c].op /\ i.acct = job[c].acct
      /\ i.at = "get" /\ i.key = 1 /\ i.creds = None
  <2>1. [job[c] EXCEPT !.at = "get", !.key = 1] \in Jobs
    BY <1>1 DEF Jobs
  <2>2. i \in Jobs
    BY <1>2, <2>1 DEF Jobs
  <2> QED
    BY <1>1, <2>2 DEF Jobs
<1>5. /\ j \in Jobs /\ j.fill = job[c].fill /\ j.op = job[c].op /\ j.acct = job[c].acct /\ j.at = "decide" /\ j.creds = r
  BY <1>1, <1>2 DEF Jobs
<1> HIDE DEF i, j
<1>6. CASE r = None
  <2>1. OnlyCaller(c) /\ job'[c] = i
    BY <1>3, <1>4, <1>6, PutMoves
  <2> QED
    BY <1>4, <1>6, <2>1 DEF r
<1>7. CASE r # None
  <2>1. OnlyCaller(c) /\ job'[c] = j
    BY <1>3, <1>5, <1>7, PutMoves
  <2> QED
    BY <1>5, <1>7, <2>1 DEF r
<1> QED
  BY <1>6, <1>7

LEMMA PutsOne ==
    ASSUME LockInv, NEW c \in Callers, job[c].at = "set", PutSecret(job[c])
    PROVE  /\ job[c].on \in Accounts /\ job[c].creds \in Credentials
           /\ \/ /\ job[c].key = 1
                 /\ secret' = [secret EXCEPT ![job[c].on].access = job[c].creds.access]
              \/ /\ job[c].key = 2
                 /\ secret' = [secret EXCEPT ![job[c].on].refresh = job[c].creds.refresh]
<1> DEFINE j == job[c]
           Puts(k) == secret' = [secret EXCEPT ![j.on][k] = j.creds[k]]
<1>1. j.on \in Accounts /\ j.creds \in Credentials /\ (j.key = 1 \/ j.key = 2)
  BY JobFacts DEF Place, PlaceOf
<1>2. Puts(Keys[j.key])
  BY DEF PutSecret
<1>3. /\ j.key = 1 => Keys[j.key] = "access"
      /\ j.key = 2 => Keys[j.key] = "refresh"
  BY DEF Keys
<1>4. Keys[j.key] = "access" => Puts("access")
  <2> HIDE DEF Puts
  <2> QED
    BY <1>2
<1>5. Keys[j.key] = "refresh" => Puts("refresh")
  <2> HIDE DEF Puts
  <2> QED
    BY <1>2
<1>6. /\ Puts("access") => secret' = [secret EXCEPT ![j.on].access = j.creds.access]
      /\ Puts("refresh") => secret' = [secret EXCEPT ![j.on].refresh = j.creds.refresh]
  OBVIOUS
<1> QED
  BY <1>1, <1>3, <1>4, <1>5, <1>6

LEMMA SetSecretMoves ==
    ASSUME LockInv, NEW c \in Callers, SetSecret(c)
    PROVE  LET j == job[c] IN
           /\ OnlyCaller(c) /\ job'[c].op = j.op /\ job'[c].acct = j.acct /\ job'[c].on = j.on
           /\ job'[c].creds = j.creds /\ job'[c].replaces = j.replaces /\ job'[c].recs = j.recs
           /\ job'[c].fill = j.fill
           /\ j.at = "set" /\ j.on \in Accounts /\ j.creds \in Credentials
           /\ \/ /\ j.key = 1 /\ job'[c].at = "set" /\ job'[c].key = 2
                 /\ secret' = [secret EXCEPT ![j.on].access = j.creds.access]
              \/ /\ j.key = 2 /\ job'[c].at = "upsert" /\ job'[c].key = 1
                 /\ secret' = [secret EXCEPT ![j.on].refresh = j.creds.refresh]
           /\ UNCHANGED <<index, legacy, cached, cachedIndex, migrated, Held, serverVars, calls,
                          faults, pastVars>>
<1> DEFINE j == job[c]
           n == NextKey(j, "upsert")
<1>1. /\ j \in Jobs /\ j.at = "set" /\ j.on \in Accounts /\ j.creds \in Credentials
      /\ (j.key = 1 \/ j.key = 2) /\ "upsert" \in Points
  BY JobFacts DEF SetSecret, At, Place, PlaceOf, Points
<1>2. /\ n \in Jobs /\ n.op = j.op /\ n.acct = j.acct /\ n.on = j.on /\ n.creds = j.creds
      /\ n.replaces = j.replaces /\ n.recs = j.recs /\ n.fill = j.fill
      /\ n.at = IF j.key = 1 THEN j.at ELSE "upsert"
      /\ n.key = IF j.key = 1 THEN 2 ELSE 1
  BY <1>1, NextKeyMoves DEF Points
<1>3. Moves(c, n)
  BY DEF SetSecret, Moves
<1>4. UNCHANGED <<index, legacy, cached, cachedIndex, migrated, Held, serverVars, calls,
                  faults, pastVars>>
  BY DEF SetSecret
<1>5. \/ j.key = 1 /\ secret' = [secret EXCEPT ![j.on].access = j.creds.access]
      \/ j.key = 2 /\ secret' = [secret EXCEPT ![j.on].refresh = j.creds.refresh]
  <2>1. PutSecret(job[c])
    BY DEF SetSecret
  <2> QED
    BY ONLY <1>1, <2>1, PutsOne, LockInv, c \in Callers
<1> HIDE DEF n
<1>6. OnlyCaller(c) /\ job'[c] = n
  BY <1>2, <1>3, PutMoves
<1> QED
  BY <1>1, <1>2, <1>4, <1>5, <1>6

LEMMA WriteIndexMoves ==
    ASSUME LockInv, NEW c \in Callers, Upsert(c) \/ Remove(c)
    PROVE  LET j == job[c] IN
           /\ OnlyCaller(c) /\ job'[c].op = j.op /\ job'[c].acct = j.acct /\ job'[c].on = j.on
           /\ job'[c].creds = j.creds /\ job'[c].replaces = j.replaces /\ job'[c].key = j.key
           /\ job'[c].at = "adopt" /\ job'[c].recs = {index'} /\ j.on \in Accounts
           /\ job[c].recs # {} /\ ~job'[c].fill
           /\ \/ j.at = "upsert" /\ index' = Records(c) \union {j.on}
              \/ j.at = "remove" /\ index' = Records(c) \ {j.on}
           /\ UNCHANGED <<secret, legacy, cached, cachedIndex, migrated, Held, serverVars, calls,
                          faults, pastVars>>
<1>1. /\ job[c] \in Jobs /\ job[c].recs \in SUBSET SUBSET Accounts /\ Place(c)
      /\ job[c].at \in {"upsert", "remove"} /\ job[c].recs # {} /\ ~job[c].fill
  BY JobFacts DEF Upsert, Remove, At, Known
<1>2. job[c].on \in Accounts /\ Records(c) \in SUBSET Accounts
  BY <1>1 DEF Place, PlaceOf, Records
<1>3. PICK records \in SUBSET Accounts :
          /\ WriteIndex(c, records)
          /\ \/ job[c].at = "upsert" /\ records = Records(c) \union {job[c].on}
             \/ job[c].at = "remove" /\ records = Records(c) \ {job[c].on}
  BY <1>2 DEF Upsert, Remove, WithIt, WithoutIt, At
<1> DEFINE j == [job[c] EXCEPT !.recs = {records}, !.at = "adopt"]
<1>4. {records} \in SUBSET SUBSET Accounts /\ "adopt" \in Points
  BY DEF Points
<1>5. /\ j \in Jobs /\ j.op = job[c].op /\ j.acct = job[c].acct /\ j.on = job[c].on
      /\ j.creds = job[c].creds /\ j.replaces = job[c].replaces /\ j.key = job[c].key
      /\ j.at = "adopt" /\ j.recs = {records} /\ ~j.fill
  BY <1>1, <1>4 DEF Jobs
<1>6. /\ Moves(c, j) /\ index' = records
      /\ UNCHANGED <<secret, legacy, cached, cachedIndex, migrated, Held, serverVars, calls,
                     faults, pastVars>>
  BY <1>3 DEF WriteIndex, Moves
<1> HIDE DEF j
<1>7. OnlyCaller(c) /\ job'[c] = j
  BY <1>5, <1>6, PutMoves
<1> QED
  BY <1>1, <1>2, <1>3, <1>5, <1>6, <1>7

(* The three ways on from adopt, and the two from cache.                   *)
LEMMA AdoptMoves ==
    ASSUME LockInv, NEW c \in Callers, Adopt(c)
    PROVE  /\ cachedIndex' = job[c].recs /\ job[c].at = "adopt" /\ job[c].on \in Accounts
           /\ OnlyCaller(c) /\ astray' = FALSE
           /\ UNCHANGED <<secret, index, legacy, cached, migrated, serverVars, calls, faults>>
           /\ \/ /\ migrating = c /\ job[c].op # "logout" /\ Settled(c) /\ UNCHANGED Held
                 /\ job'[c].at = "clean" /\ job'[c].key = 1 /\ job'[c].recs = {}
                 /\ job'[c].op = job[c].op /\ job'[c].fill = job[c].fill
              \/ /\ migrating # c /\ job[c].op = "logout" /\ Return(c) /\ Ended(c) /\ Settled(c)
              \/ /\ migrating # c /\ job[c].op # "logout"
                 /\ UNCHANGED <<Held, dropped, torn, abandoned>>
                 /\ job'[c].at = "cache" /\ job'[c].op = job[c].op /\ job'[c].acct = job[c].acct
                 /\ job'[c].on = job[c].on /\ job'[c].creds = job[c].creds
                 /\ job'[c].replaces = job[c].replaces /\ job'[c].fill = job[c].fill
<1>1. /\ cachedIndex' = job[c].recs /\ job[c].at = "adopt" /\ job[c].on \in Accounts
      /\ job[c] \in Jobs /\ Place(c) /\ astray' = FALSE
      /\ UNCHANGED <<secret, index, legacy, cached, migrated, serverVars, calls, faults>>
  BY JobFacts DEF Adopt, At, Place, PlaceOf
<1>2. CASE /\ migrating = c
           /\ job' = [job EXCEPT ![c].at = "clean", ![c].key = 1, ![c].recs = {}]
           /\ Settled(c)
           /\ UNCHANGED Held
  <2> DEFINE j == [job[c] EXCEPT !.at = "clean", !.key = 1, !.recs = {}]
  <2>1. 1 \in 1..2 /\ "clean" \in Points
    BY DEF Points
  <2>5. Moves(c, j)
    BY <1>2 DEF Moves
  <2>2. [job[c] EXCEPT !.at = "clean", !.key = 1] \in Jobs
    BY <1>1, <2>1 DEF Jobs
  <2>3. j \in Jobs
    BY <2>2 DEF Jobs
  <2>4. j.at = "clean" /\ j.key = 1 /\ j.recs = {} /\ j.op = job[c].op /\ j.fill = job[c].fill
    BY <1>1 DEF Jobs
  <2> HIDE DEF j
  <2>7. OnlyCaller(c) /\ job'[c] = j
    BY <2>3, <2>5, PutMoves
  <2>6. job[c].op # "logout"
    BY <1>1, <1>2 DEF Place, PlaceOf
  <2> QED
    BY <1>1, <1>2, <2>4, <2>7, <2>6
<1>3. CASE migrating # c /\ job[c].op = "logout" /\ Return(c) /\ Settled(c)
  BY <1>1, <1>3, ReturnEnds DEF Return, Ended
<1>4. CASE /\ migrating # c /\ job[c].op # "logout" /\ Goto(c, "cache")
           /\ UNCHANGED <<Held, dropped, torn, abandoned>>
  <2>1. "cache" \in Points
    BY DEF Points
  <2> QED
    BY <1>1, <1>4, <2>1, GotoMoves
<1> QED
  BY <1>2, <1>3, <1>4 DEF Adopt

LEMMA CacheMoves ==
    ASSUME LockInv, NEW c \in Callers, Cache(c)
    PROVE  /\ cached' = [cached EXCEPT ![job[c].on] = job[c].creds] /\ Settled(c)
           /\ job[c].at = "cache" /\ job[c].on \in Accounts /\ job[c].creds \in Credentials
           /\ OnlyCaller(c) /\ migrating # c /\ UNCHANGED astray
           /\ UNCHANGED <<secret, index, legacy, cachedIndex, migrated, serverVars, calls, faults>>
           /\ \/ Return(c) /\ Ended(c)
              \/ job'[c].at = "ensure" /\ job'[c].op = "login" /\ UNCHANGED Held
                 /\ job'[c].recs = {} /\ ~job'[c].fill
<1>1. /\ Place(c) /\ job[c] \in Jobs /\ job[c].at = "cache" /\ job[c].on \in Accounts
      /\ job[c].creds \in Credentials /\ migrating # c
      /\ job[c].acct \in Accounts \union {NoAccount}
  BY JobFacts DEF Cache, At, Place, PlaceOf
<1>2. /\ cached' = [cached EXCEPT ![job[c].on] = job[c].creds] /\ Settled(c)
      /\ UNCHANGED astray
      /\ UNCHANGED <<secret, index, legacy, cachedIndex, migrated, serverVars, calls, faults>>
  BY DEF Cache
<1>3. CASE Return(c)
  BY <1>1, <1>2, <1>3, ReturnEnds DEF Return, Ended
<1>4. CASE /\ job[c].op = "login"
           /\ job' = [job EXCEPT ![c] = [Idle EXCEPT !.op = "login", !.at = "ensure",
                                                     !.acct = job[c].acct]]
           /\ UNCHANGED Held
  <2> DEFINE j == [Idle EXCEPT !.op = "login", !.at = "ensure", !.acct = job[c].acct]
  <2>1. j \in Jobs /\ Moves(c, j) /\ j.op = "login" /\ j.at = "ensure"
        /\ j.recs = {} /\ ~j.fill
    BY <1>1, <1>4, IdleIsJob DEF Jobs, Moves, Points, Ops, Idle
  <2> HIDE DEF j
  <2>2. OnlyCaller(c) /\ job'[c] = j
    BY <2>1, PutMoves
  <2> QED
    BY <1>1, <1>2, <1>4, <2>1, <2>2
<1> QED
  BY <1>3, <1>4 DEF Cache

LEMMA DeleteMoves ==
    ASSUME LockInv, NEW c \in Callers, Delete(c)
    PROVE  LET j == job[c] IN
           /\ OnlyCaller(c) /\ job'[c].op = "logout" /\ job'[c].on = j.on
           /\ j.at = "delete" /\ j.on \in Accounts /\ job'[c].recs = j.recs
           /\ job'[c].fill = j.fill
           /\ job'[c].at \in {"delete", "deleted", "remove"}
           /\ job'[c].at = "remove" => ~job'[c].failed /\ j.key = 2
           /\ job'[c].at = "delete" => job'[c].key = 2 /\ j.key = 1
           /\ ~job'[c].failed => ~j.failed /\ secret' = [secret EXCEPT ![j.on][Keys[j.key]] = 0]
           /\ secret' \in {secret, [secret EXCEPT ![j.on][Keys[j.key]] = 0]}
           /\ Keys[j.key] \in Kinds
           /\ UNCHANGED <<index, legacy, cached, cachedIndex, migrated, Held, serverVars, calls,
                          pastVars>>
<1>1. /\ Place(c) /\ job[c] \in Jobs /\ job[c].at = "delete" /\ job[c].on \in Accounts
      /\ Keys[job[c].key] \in Kinds /\ job[c].failed \in BOOLEAN /\ job[c].op = "logout"
      /\ job[c].key = 1 \/ job[c].key = 2
  BY JobFacts, KeysAreKinds DEF Delete, At, Place, PlaceOf, Jobs
<1>2. PICK failed \in BOOLEAN :
          /\ Moves(c, AfterDelete(job[c], failed))
          /\ ~failed => /\ ~job[c].failed
                        /\ secret' = [secret EXCEPT ![job[c].on][Keys[job[c].key]] = 0]
          /\ secret' \in {secret, [secret EXCEPT ![job[c].on][Keys[job[c].key]] = 0]}
  BY <1>1 DEF Delete, Moves
<1> DEFINE j == AfterDelete(job[c], failed)
<1>3. /\ j \in Jobs /\ j.op = job[c].op /\ j.on = job[c].on /\ j.recs = job[c].recs
      /\ j.failed = failed /\ j.fill = job[c].fill
      /\ j.at = IF job[c].key = 1 THEN job[c].at ELSE IF failed THEN "deleted" ELSE "remove"
      /\ j.key = IF job[c].key = 1 THEN 2 ELSE 1
  BY <1>1, AfterDeleteMoves
<1>4. Moves(c, j)
  BY <1>2
<1> HIDE DEF j
<1>5. OnlyCaller(c) /\ job'[c] = j
  BY <1>3, <1>4, PutMoves
<1>6. UNCHANGED <<index, legacy, cached, cachedIndex, migrated, Held, serverVars, calls, pastVars>>
  BY DEF Delete
<1> QED
  BY <1>1, <1>2, <1>3, <1>5, <1>6

-----------------------------------------------------------------------------
(* Every token has one owner: the account whose grant it came with.        *)
Owners == [Grants -> Accounts \union {NoAccount}]
OwnedBy(owner, a, t) == t = 0 \/ (t \in 1..grants /\ owner[t] = a)

GrantState(owner) ==
    /\ spent \subseteq 1..grants
    /\ Whole(legacy) => spent = {} /\ ~migrated
    /\ OwnedBy(owner, LegacyAccount, legacy.refresh)
    /\ \A a \in Accounts :
        /\ OwnedBy(owner, a, secret[a].refresh)
        /\ OwnedBy(owner, a, cached[a].refresh)
        /\ cached[a] = None \/ Whole(cached[a])

(* What a call knows of the credentials and of the index it works with.    *)
CredsOf(owner, c, j) ==
    /\ j.at \in RefreshOnly => migrated
    /\ j.at = "get" => j.creds.refresh = 0 /\ (j.key = 2 => j.creds.access # 0)
    /\ j.at \in {"keep", "decide", "sent"} \/ Changing(j) => Whole(j.creds)
    /\ j.at \in Handling => OwnedBy(owner, j.acct, j.creds.refresh)
    /\ Changing(j) =>
        /\ OwnedBy(owner, j.on, j.creds.refresh)
        /\ migrating = c => Whole(legacy) /\ j.on = LegacyAccount /\ j.creds = legacy
        /\ migrating # c /\ j.op = "refresh" => migrated
RecsOf(j) ==
    /\ j.fill => j.at \in IndexPoints /\ j.recs # {}
    /\ j.at \in {"ensure", "migrate", "clean", "set", "erase", "delete"} => j.recs = {}
    /\ j.at = "clean" /\ j.key = 2 => legacy.access = 0
    /\ j.at = "erase" => j.key = 1
KnowsOf(owner, c, j) == CredsOf(owner, c, j) /\ RecsOf(j)
Knows(owner, c) == KnowsOf(owner, c, job[c])

Owned(owner) == owner \in Owners /\ GrantState(owner) /\ \A c \in Callers : Knows(owner, c)
GrantInv == \E owner \in Owners : Owned(owner)

LEMMA IdleKnows ==
    ASSUME NEW owner, NEW c \in Callers, job'[c] = Idle
    PROVE  Knows(owner, c)'
<1>1. /\ job'[c].at = "idle" /\ job'[c].fill = FALSE
  BY DEF Idle
<1> QED
  BY <1>1 DEF Knows, KnowsOf, CredsOf, RecsOf, Changing

(* The others know what they knew: only the holder of the mutex of the     *)
(* migration touches the secrets of the former version.                    *)
OthersHold(c) == \A d \in Callers \ {c} : migrating' = d <=> migrating = d

LEMMA OthersKnow ==
    ASSUME LockInv, NEW owner, NEW later, NEW c \in Callers, NEW d \in Callers \ {c},
           Knows(owner, d), job'[d] = job[d], OthersHold(c),
           grants \in Nat, grants' \in Nat, grants <= grants',
           \A t \in 1..grants : later[t] = owner[t],
           migrated => migrated', legacy' = legacy \/ migrating = c
    PROVE  Knows(later, d)'
<1> DEFINE j == job[d]
<1>1. migrating' = d <=> migrating = d
  BY DEF OthersHold
<1>2. j.at = "clean" => migrating = d
  BY DEF LockInv, Place, PlaceOf
<1>3. migrating = d => legacy' = legacy
  OBVIOUS
<1>4. \A a, t : OwnedBy(owner, a, t) => OwnedBy(later, a, t)'
  <2> SUFFICES ASSUME NEW a, NEW t, OwnedBy(owner, a, t), t # 0
               PROVE  t \in 1..grants' /\ later[t] = a
    BY DEF OwnedBy
  <2>1. t \in 1..grants /\ owner[t] = a
    BY DEF OwnedBy
  <2> QED
    BY <2>1
<1>5. CredsOf(owner, d, j) /\ RecsOf(j)
  BY DEF Knows, KnowsOf
<1> HIDE DEF j
<1>6. RecsOf(j)'
  <2>1. j' = j
    BY DEF j
  <2> QED
    BY <1>1, <1>2, <1>3, <1>5, <2>1 DEF RecsOf
<1>7. CredsOf(later, d, j)'
  <2>1. j' = j
    BY DEF j
  <2>2. /\ j.at \in Handling => OwnedBy(later, j.acct, j.creds.refresh)'
        /\ Changing(j) => OwnedBy(later, j.on, j.creds.refresh)'
    BY <1>4, <1>5, <2>1 DEF CredsOf
  <2> QED
    BY <1>1, <1>3, <1>5, <2>1, <2>2 DEF CredsOf, Changing
<1> QED
  BY <1>6, <1>7 DEF Knows, KnowsOf, j

LEMMA OwnersStay ==
    ASSUME LockInv, NEW owner, NEW c \in Callers, Owned(owner), OnlyCaller(c), OthersHold(c),
           grants' = grants, migrated => migrated', legacy' = legacy \/ migrating = c,
           GrantState(owner)', Knows(owner, c)'
    PROVE  Owned(owner)'
<1>1. grants \in Nat
  BY AuthAssumption DEF LockInv, RestTypeOK
<1>2. ASSUME NEW d \in Callers \ {c} PROVE Knows(owner, d)'
  BY <1>1, OthersKnow DEF Owned, OnlyCaller
<1> QED
  BY <1>2 DEF Owned, Owners

(* A step that neither writes credentials nor asks for new ones.           *)
LEMMA StateStays ==
    ASSUME NEW owner, GrantState(owner),
           UNCHANGED <<secret, legacy, cached, serverVars>>,
           migrated' = migrated \/ ~Whole(legacy) \/ migrated' = FALSE
    PROVE  GrantState(owner)'
  BY DEF GrantState, OwnedBy, serverVars

LEMMA HeldStays ==
    ASSUME NEW c \in Callers, UNCHANGED Held PROVE OthersHold(c)
  BY DEF OthersHold, Held

LEMMA ReturnHolds ==
    ASSUME NEW c \in Callers, Released(c) PROVE OthersHold(c)
<1>1. c # NoCaller /\ NoCaller \notin Callers
  BY AuthAssumption
<1> QED
  BY <1>1 DEF OthersHold, Released

(* A call that changes only itself.                                        *)
LEMMA QuietOwners ==
    ASSUME LockInv, NEW owner, NEW c \in Callers, Owned(owner), OnlyCaller(c), OthersHold(c),
           UNCHANGED <<secret, legacy, cached, migrated, serverVars>>, Knows(owner, c)'
    PROVE  Owned(owner)'
<1>1. GrantState(owner)'
  BY StateStays DEF Owned
<1> QED
  BY <1>1, OwnersStay DEF serverVars

LEMMA EndOwners ==
    ASSUME LockInv, NEW owner, NEW c \in Callers, Owned(owner), Ended(c), OthersHold(c),
           UNCHANGED <<secret, legacy, cached, migrated, serverVars>>
    PROVE  Owned(owner)'
  BY QuietOwners, IdleKnows DEF Ended

-----------------------------------------------------------------------------
Calls(c) ==
    \/ \E a \in Accounts \union {NoAccount} : CallRefresh(c, a)
    \/ \E a \in Accounts : CallLogout(c, a)
    \/ CallStatus(c) \/ CallLogin(c)

LEMMA CallsMove ==
    ASSUME LockInv, NEW c \in Callers, Calls(c)
    PROVE  /\ OnlyCaller(c) /\ job'[c].at \in {"ensure", "erase", "url"}
           /\ job'[c].key = 1 /\ job'[c].recs = {} /\ ~job'[c].fill
           /\ job'[c].replaces = 0 /\ job[c].at = "idle"
           /\ UNCHANGED <<storeVars, migrated, migrating, lock, serverVars, faults, pastVars>>
<1>1. PICK op \in {"refresh", "logout", "status", "login"}, p \in {"ensure", "erase", "url"},
           a \in Accounts \union {NoAccount} : Begin(c, op, p, a)
  BY DEF Calls, CallRefresh, CallLogout, CallStatus, CallLogin
<1>2. op \in Ops /\ p \in Points
  BY DEF Ops, Points
<1>3. UNCHANGED <<storeVars, migrated, migrating, lock, serverVars, faults, pastVars>>
  BY DEF Calls, CallRefresh, CallLogout, CallStatus, CallLogin, OnlyCall, Held
<1> QED
  BY <1>1, <1>2, <1>3, BeginMoves DEF OnlyCaller

LEMMA EnsureMoves ==
    ASSUME LockInv, NEW c \in Callers, Ensure(c)
    PROVE  /\ OnlyCaller(c) /\ OthersHold(c) /\ job[c].at = "ensure" /\ migrating = NoCaller
           /\ job'[c].recs = job[c].recs /\ job'[c].fill = job[c].fill
           /\ job'[c].op = job[c].op
           /\ \/ job'[c].at \in {"resolve", "status"} /\ migrated /\ migrating' = NoCaller
              \/ job'[c].at = "migrate" /\ ~migrated /\ migrating' = c
           /\ UNCHANGED <<storeVars, migrated, lock, serverVars, calls, faults, pastVars>>
<1>1. job[c].at = "ensure" /\ migrating = NoCaller /\ Place(c) /\ c # NoCaller
  BY JobFacts DEF Ensure, At
<1>2. "migrate" \in Points /\ AfterEnsure(c) \in Points
  BY DEF Points, AfterEnsure
<1>3. CASE migrated /\ Goto(c, AfterEnsure(c)) /\ OnlyJob
  <2>1. AfterEnsure(c) \in {"resolve", "status"}
    BY DEF AfterEnsure
  <2>2. /\ OnlyCaller(c) /\ job'[c].recs = job[c].recs /\ job'[c].fill = job[c].fill
        /\ job'[c].at = AfterEnsure(c) /\ job'[c].op = job[c].op
    BY <1>2, <1>3, GotoMoves
  <2>3. /\ UNCHANGED <<storeVars, migrated, lock, serverVars, calls, faults, pastVars>>
        /\ OthersHold(c) /\ migrating' = migrating
    BY <1>3 DEF OnlyJob, OnlyCall, Held, OthersHold
  <2> QED
    BY <1>1, <1>3, <2>1, <2>2, <2>3
<1>4. CASE /\ ~migrated
           /\ Goto(c, "migrate")
           /\ migrating' = c
           /\ UNCHANGED <<storeVars, migrated, lock, loginInProgress, serverVars, calls, faults,
                          pastVars>>
  <2>1. /\ OnlyCaller(c) /\ job'[c].recs = job[c].recs /\ job'[c].fill = job[c].fill
        /\ job'[c].at = "migrate" /\ job'[c].op = job[c].op
    BY <1>2, <1>4, GotoMoves
  <2>2. OthersHold(c)
    BY <1>1, <1>4, AuthAssumption DEF OthersHold
  <2> QED
    BY <1>1, <1>4, <2>1, <2>2
<1> QED
  BY <1>3, <1>4 DEF Ensure

LEMMA MigratedMoves ==
    ASSUME LockInv, NEW c \in Callers, Migrated(c), job[c].at \in {"migrate", "clean"}
    PROVE  /\ OnlyCaller(c) /\ OthersHold(c) /\ migrating = c
           /\ job'[c].recs = job[c].recs /\ job'[c].fill = job[c].fill
           /\ job'[c].at \in {"resolve", "status"} /\ job'[c].op = job[c].op
           /\ migrated' = TRUE /\ migrating' = NoCaller
           /\ UNCHANGED <<lock, serverVars, calls, faults, pastVars>>
<1>1. migrating = c /\ c # NoCaller
  BY JobFacts DEF Place, PlaceOf
<1>2. AfterEnsure(c) \in Points /\ AfterEnsure(c) \in {"resolve", "status"}
  BY DEF Points, AfterEnsure
<1>3. /\ Goto(c, AfterEnsure(c)) /\ migrated' = TRUE /\ migrating' = NoCaller
      /\ UNCHANGED <<lock, serverVars, calls, faults, pastVars>>
  BY DEF Migrated
<1>4. /\ OnlyCaller(c) /\ job'[c].recs = job[c].recs /\ job'[c].fill = job[c].fill
      /\ job'[c].at = AfterEnsure(c) /\ job'[c].op = job[c].op
  BY <1>2, <1>3, GotoMoves
<1>5. OthersHold(c)
  BY <1>1, <1>3, AuthAssumption DEF OthersHold
<1> QED
  BY <1>1, <1>2, <1>3, <1>4, <1>5

LEMMA MigrateMoves ==
    ASSUME LockInv, NEW c \in Callers, Migrate(c)
    PROVE  /\ OnlyCaller(c) /\ OthersHold(c) /\ migrating = c /\ job[c].at = "migrate"
           /\ job'[c].fill = job[c].fill /\ job'[c].op = job[c].op
           /\ UNCHANGED <<storeVars, lock, serverVars, calls, faults, pastVars>>
           /\ \/ /\ Whole(legacy) /\ job'[c].at = "set" /\ job'[c].on = LegacyAccount
                 /\ job'[c].key = 1 /\ job'[c].creds = legacy /\ job'[c].recs = {}
                 /\ LegacyAccount \in Accounts /\ legacy = From(1)
                 /\ UNCHANGED <<migrated, migrating>>
              \/ /\ ~Whole(legacy) /\ job'[c].at \in {"resolve", "status"}
                 /\ job'[c].recs = job[c].recs
                 /\ migrated' = TRUE /\ migrating' = NoCaller
<1>1. /\ Place(c) /\ job[c] \in Jobs /\ job[c].at = "migrate" /\ migrating = c
      /\ legacy \in Credentials
  BY JobFacts DEF Migrate, At, Place, PlaceOf, LockInv, RestTypeOK
<1>2. CASE /\ Whole(legacy) /\ OnlyJob
           /\ job' = [job EXCEPT ![c] = Store(@, LegacyAccount, legacy)]
  <2>1. LegacyAccount \in Accounts /\ legacy = From(1)
    BY <1>2 DEF LockInv, LegacyIsReal
  <2>2. Moves(c, Store(job[c], LegacyAccount, legacy))
    BY <1>2 DEF Moves
  <2>3. /\ OnlyCaller(c) /\ job'[c].at = "set" /\ job'[c].on = LegacyAccount
        /\ job'[c].key = 1 /\ job'[c].creds = legacy /\ job'[c].recs = {}
        /\ job'[c].op = job[c].op /\ job'[c].fill = job[c].fill
    BY <1>1, <2>1, <2>2, StoresMoves
  <2>4. /\ UNCHANGED <<storeVars, migrated, migrating, lock, serverVars, calls, faults, pastVars>>
        /\ OthersHold(c)
    BY <1>2 DEF OnlyJob, OnlyCall, Held, OthersHold
  <2> QED
    BY <1>1, <1>2, <2>1, <2>3, <2>4
<1>3. CASE ~Whole(legacy) /\ Migrated(c) /\ UNCHANGED storeVars
  BY <1>1, <1>3, MigratedMoves
<1> QED
  BY <1>2, <1>3 DEF Migrate

LEMMA CleanMoves ==
    ASSUME LockInv, NEW c \in Callers, Clean(c)
    PROVE  /\ OnlyCaller(c) /\ OthersHold(c) /\ migrating = c /\ job[c].at = "clean"
           /\ job'[c].fill = job[c].fill /\ job'[c].op = job[c].op
           /\ job'[c].recs = job[c].recs
           /\ UNCHANGED <<secret, index, cached, cachedIndex, lock, serverVars, calls, faults,
                          pastVars>>
           /\ \/ /\ job[c].key = 1 /\ job'[c].at = "clean" /\ job'[c].key = 2
                 /\ legacy' = [legacy EXCEPT !.access = 0]
                 /\ UNCHANGED <<migrated, migrating>>
              \/ /\ job[c].key = 2 /\ job'[c].at \in {"resolve", "status"}
                 /\ legacy' = [legacy EXCEPT !.refresh = 0]
                 /\ migrated' = TRUE /\ migrating' = NoCaller
<1>1. /\ job[c] \in Jobs /\ job[c].at = "clean" /\ migrating = c
      /\ job[c].key = 1 \/ job[c].key = 2
  BY JobFacts DEF Clean, At, Place, PlaceOf
<1>2. /\ legacy' = [legacy EXCEPT ![Keys[job[c].key]] = 0]
      /\ UNCHANGED <<secret, index, cached, cachedIndex>>
  BY DEF Clean
<1>3. /\ job[c].key = 1 => Keys[job[c].key] = "access"
      /\ job[c].key = 2 => Keys[job[c].key] = "refresh"
  BY DEF Keys
<1>4. CASE job[c].key # 1 /\ Migrated(c)
  <2>1. legacy' = [legacy EXCEPT !.refresh = 0]
    BY <1>1, <1>2, <1>3, <1>4
  <2> QED
    BY <1>1, <1>2, <1>4, <2>1, MigratedMoves
<1>5. CASE /\ job[c].key = 1
           /\ job' = [job EXCEPT ![c] = NextKey(@, "clean")]
           /\ UNCHANGED <<migrated, Held, serverVars, calls, faults, pastVars>>
  <2> DEFINE j == NextKey(job[c], "clean")
  <2>1. Moves(c, j) /\ "clean" \in Points
    BY <1>5 DEF Moves, Points
  <2>2. /\ j \in Jobs /\ j.op = job[c].op /\ j.at = "clean" /\ j.key = 2
        /\ j.recs = job[c].recs /\ j.fill = job[c].fill
    BY <1>1, <1>5, <2>1, NextKeyMoves
  <2> HIDE DEF j
  <2>3. OnlyCaller(c) /\ job'[c] = j
    BY <2>1, <2>2, PutMoves
  <2>4. legacy' = [legacy EXCEPT !.access = 0]
    BY <1>2, <1>3, <1>5
  <2>5. OthersHold(c) /\ UNCHANGED <<migrated, migrating, lock, serverVars, calls, faults, pastVars>>
    BY <1>5 DEF OthersHold, Held
  <2> QED
    BY <1>1, <1>2, <1>5, <2>2, <2>3, <2>4, <2>5
<1> QED
  BY <1>4, <1>5 DEF Clean

-----------------------------------------------------------------------------
(* Points without credentials.                                             *)
LEMMA PlainKnows ==
    ASSUME NEW owner, NEW c \in Callers,
           job'[c].at \in {"ensure", "migrate", "url", "accept", "resolve", "lock", "read", "status",
                           "erase", "delete", "deleted", "remove"},
           job'[c].at \in {"resolve", "lock", "read"} => migrated',
           job'[c].fill => job'[c].at \in IndexPoints /\ job'[c].recs # {},
           job'[c].at \in {"ensure", "migrate", "erase", "delete"} => job'[c].recs = {},
           job'[c].at = "erase" => job'[c].key = 1
    PROVE  Knows(owner, c)'
<1>1. ~Changing(job[c])'
  BY DEF Changing
<1> QED
  BY <1>1 DEF Knows, KnowsOf, CredsOf, RecsOf

LEMMA KnowsNow ==
    ASSUME NEW owner, NEW c \in Callers, Owned(owner)
    PROVE  CredsOf(owner, c, job[c]) /\ RecsOf(job[c])
  BY DEF Owned, Knows, KnowsOf

LEMMA CallsOwners ==
    ASSUME LockInv, NEW owner, NEW c \in Callers, Owned(owner), Calls(c)
    PROVE  Owned(owner)'
<1>1. /\ OnlyCaller(c) /\ job'[c].at \in {"ensure", "erase", "url"}
      /\ job'[c].key = 1 /\ job'[c].recs = {} /\ ~job'[c].fill
      /\ UNCHANGED <<storeVars, migrated, migrating, lock, serverVars, faults, pastVars>>
  BY CallsMove
<1>2. OthersHold(c)
  BY <1>1 DEF OthersHold
<1>3. Knows(owner, c)'
  BY <1>1, PlainKnows
<1> QED
  BY <1>1, <1>2, <1>3, QuietOwners DEF storeVars

LEMMA WaitOwners ==
    ASSUME LockInv, NEW owner, NEW c \in Callers, Owned(owner), Wait(c)
    PROVE  Owned(owner)'
<1>1. job[c].at = "url" /\ Goto(c, "accept") /\ OnlyJob /\ "accept" \in Points
  BY DEF Wait, At, Points
<1>2. OnlyCaller(c) /\ job'[c].at = "accept" /\ job'[c].fill = job[c].fill
  BY <1>1, GotoMoves
<1>3. ~job[c].fill
  BY <1>1, KnowsNow DEF RecsOf
<1>4. Knows(owner, c)'
  BY <1>2, <1>3, PlainKnows
<1>5. OthersHold(c) /\ UNCHANGED <<secret, legacy, cached, migrated, serverVars>>
  BY <1>1 DEF OnlyJob, OnlyCall, Held, OthersHold, storeVars
<1> QED
  BY <1>2, <1>4, <1>5, QuietOwners

LEMMA FailOwners ==
    ASSUME LockInv, NEW owner, NEW c \in Callers, Owned(owner), Fail(c)
    PROVE  Owned(owner)'
<1>1. Ended(c) /\ OthersHold(c)
  BY ReturnEnds, ReturnHolds DEF Fail, GiveUp, Return
<1>2. UNCHANGED <<secret, legacy, cached, migrated, serverVars>>
  BY DEF Fail, GiveUp, AsItWas, storeVars
<1> QED
  BY <1>1, <1>2, EndOwners

LEMMA DropOwners ==
    ASSUME LockInv, NEW owner, NEW c \in Callers, Owned(owner), Drop(c)
    PROVE  Owned(owner)'
<1>1. Ended(c) /\ OthersHold(c)
  BY ReturnEnds, HeldStays DEF Drop
<1>2. UNCHANGED <<secret, legacy, cached, migrated, serverVars>>
  BY DEF Drop, storeVars
<1> QED
  BY <1>1, <1>2, EndOwners

LEMMA StatusOwners ==
    ASSUME LockInv, NEW owner, NEW c \in Callers, Owned(owner), Status(c)
    PROVE  Owned(owner)'
<1>1. Ended(c) /\ OthersHold(c)
  BY ReturnEnds, ReturnHolds DEF Status, Return
<1>2. UNCHANGED <<secret, legacy, cached, migrated, serverVars>>
  BY DEF Status, storeVars
<1> QED
  BY <1>1, <1>2, EndOwners

LEMMA EnsureOwners ==
    ASSUME LockInv, NEW owner, NEW c \in Callers, Owned(owner), Ensure(c)
    PROVE  Owned(owner)'
<1>1. /\ OnlyCaller(c) /\ OthersHold(c) /\ job[c].at = "ensure"
      /\ job'[c].recs = job[c].recs /\ job'[c].fill = job[c].fill
      /\ \/ job'[c].at \in {"resolve", "status"} /\ migrated
         \/ job'[c].at = "migrate"
      /\ UNCHANGED <<storeVars, migrated, serverVars>>
  BY EnsureMoves
<1>2. ~job[c].fill /\ job[c].recs = {}
  BY <1>1, KnowsNow DEF RecsOf
<1>3. Knows(owner, c)'
  BY <1>1, <1>2, PlainKnows
<1> QED
  BY <1>1, <1>3, QuietOwners DEF storeVars

LEMMA MigrateOwners ==
    ASSUME LockInv, NEW owner, NEW c \in Callers, Owned(owner), Migrate(c)
    PROVE  Owned(owner)'
<1>1. /\ OnlyCaller(c) /\ OthersHold(c) /\ migrating = c /\ job[c].at = "migrate"
      /\ job'[c].fill = job[c].fill /\ job'[c].op = job[c].op
      /\ UNCHANGED <<storeVars, serverVars>>
      /\ \/ /\ Whole(legacy) /\ job'[c].at = "set" /\ job'[c].on = LegacyAccount
            /\ job'[c].key = 1 /\ job'[c].creds = legacy /\ job'[c].recs = {}
            /\ UNCHANGED <<migrated, migrating>>
         \/ /\ ~Whole(legacy) /\ job'[c].at \in {"resolve", "status"}
            /\ migrated' = TRUE
  BY MigrateMoves
<1>2. ~job[c].fill
  BY <1>1, KnowsNow DEF RecsOf
<1>3. GrantState(owner)'
  BY <1>1, StateStays DEF Owned, storeVars
<1>4. Knows(owner, c)'
  <2>1. CASE job'[c].at # "set"
    BY <1>1, <1>2, <2>1, PlainKnows
  <2>2. CASE job'[c].at = "set"
    <3>1. /\ Whole(legacy)' /\ job'[c].on = LegacyAccount /\ job'[c].creds = legacy'
          /\ job'[c].recs = {} /\ migrating' = c
      BY <1>1, <2>2 DEF storeVars, Whole
    <3>2. OwnedBy(owner, LegacyAccount, legacy.refresh)'
      BY <1>3 DEF GrantState
    <3>3. RecsOf(job[c])'
      BY <1>1, <1>2, <2>2, <3>1 DEF RecsOf
    <3>4. CredsOf(owner, c, job[c])'
      BY <2>2, <3>1, <3>2 DEF CredsOf, Whole
    <3> QED
      BY <3>3, <3>4 DEF Knows, KnowsOf
  <2> QED
    BY <2>1, <2>2
<1> QED
  BY <1>1, <1>3, <1>4, OwnersStay DEF storeVars, serverVars

LEMMA CleanOwners ==
    ASSUME LockInv, NEW owner, NEW c \in Callers, Owned(owner), Clean(c)
    PROVE  Owned(owner)'
<1>1. /\ OnlyCaller(c) /\ OthersHold(c) /\ migrating = c /\ job[c].at = "clean"
      /\ job'[c].fill = job[c].fill /\ job'[c].recs = job[c].recs
      /\ UNCHANGED <<secret, cached, serverVars>>
      /\ \/ /\ job[c].key = 1 /\ job'[c].at = "clean" /\ job'[c].key = 2
            /\ legacy' = [legacy EXCEPT !.access = 0]
            /\ UNCHANGED <<migrated, migrating>>
         \/ /\ job[c].key = 2 /\ job'[c].at \in {"resolve", "status"}
            /\ legacy' = [legacy EXCEPT !.refresh = 0]
            /\ migrated' = TRUE /\ migrating' = NoCaller
  BY CleanMoves
<1>2. ~job[c].fill /\ job[c].recs = {}
  BY <1>1, KnowsNow DEF RecsOf
<1>3. legacy \in Credentials
  BY DEF LockInv, RestTypeOK
<1>4. ~Whole(legacy') /\ legacy'.refresh \in {legacy.refresh, 0}
      /\ (job'[c].at = "clean" => legacy'.access = 0)
  BY <1>1, <1>3 DEF Credentials, Kinds, Whole
<1>5. GrantState(owner)'
  <2>1. GrantState(owner)
    BY DEF Owned
  <2> QED
    BY <1>1, <1>4, <2>1 DEF GrantState, OwnedBy, serverVars, Whole
<1>6. Knows(owner, c)'
  <2>1. CASE job'[c].at # "clean"
    BY <1>1, <1>2, <2>1, PlainKnows
  <2>2. CASE job'[c].at = "clean"
    <3>1. ~Changing(job[c])'
      BY <2>2 DEF Changing
    <3> QED
      BY <1>1, <1>2, <1>4, <2>2, <3>1 DEF Knows, KnowsOf, CredsOf, RecsOf
  <2> QED
    BY <2>1, <2>2
<1> QED
  BY <1>1, <1>5, <1>6, OwnersStay DEF serverVars

(* A call that works with what it had before.                              *)
LEMMA IndexOwners ==
    ASSUME LockInv, NEW owner, NEW c \in Callers, Owned(owner), ReadIndex(c) \/ FillIndex(c)
    PROVE  Owned(owner)'
<1>1. /\ OnlyCaller(c) /\ job'[c].at = job[c].at
      /\ job'[c].op = job[c].op /\ job'[c].acct = job[c].acct /\ job'[c].on = job[c].on
      /\ job'[c].key = job[c].key /\ job'[c].creds = job[c].creds
  BY ReadIndexMoves, FillIndexMoves
<1>2. CredsOf(owner, c, job[c]) /\ RecsOf(job[c])
  BY KnowsNow
<1>3. job[c].at \in IndexPoints
  BY <1>2 DEF ReadIndex, FillIndex, RecsOf
<1>4. UNCHANGED <<secret, legacy, cached, migrated, Held, serverVars>>
  BY DEF ReadIndex, FillIndex, OnlyJob, OnlyCall, storeVars
<1>5. CredsOf(owner, c, job[c])'
  BY <1>1, <1>2, <1>4 DEF CredsOf, Changing, OwnedBy, Held, serverVars
<1>6. RecsOf(job[c])'
  <2>1. job'[c].fill => job'[c].recs # {}
    <3>1. CASE ReadIndex(c)
      BY <3>1, ReadIndexMoves
    <3>2. CASE FillIndex(c)
      BY <1>2, <3>2, FillIndexMoves, FillIndexFills DEF RecsOf
    <3> QED
      BY <3>1, <3>2
  <2> QED
    BY <1>1, <1>3, <2>1 DEF RecsOf, IndexPoints
<1>7. Knows(owner, c)' /\ OthersHold(c)
  BY <1>4, <1>5, <1>6, HeldStays DEF Knows, KnowsOf
<1> QED
  BY <1>1, <1>4, <1>7, QuietOwners

LEMMA ResolveOwners ==
    ASSUME LockInv, NEW owner, NEW c \in Callers, Owned(owner), Resolve(c)
    PROVE  Owned(owner)'
<1>1. job[c].at = "resolve" /\ ~job[c].fill /\ migrated
  BY KnowsNow DEF Resolve, At, Known, CredsOf
<1>2. CASE Fail(c)
  BY <1>2, FailOwners
<1>3. CASE /\ \E a \in Selected(c) :
                job' = [job EXCEPT ![c].at = "lock", ![c].acct = a, ![c].recs = {}]
           /\ OnlyJob
  <2>1. PICK a \in Selected(c) :
                job' = [job EXCEPT ![c].at = "lock", ![c].acct = a, ![c].recs = {}]
    BY <1>3
  <2>2. a \in Accounts
    <3>1. job[c].recs \in SUBSET SUBSET Accounts
      BY JobFacts
    <3> QED
      BY <3>1 DEF Selected, Records
  <2>3. OnlyCaller(c) /\ job'[c].at = "lock" /\ job'[c].recs = {} /\ job'[c].fill = job[c].fill
    BY <2>1, <2>2, ResolveMoves
  <2>4. UNCHANGED <<secret, legacy, cached, migrated, Held, serverVars>>
    BY <1>3 DEF OnlyJob, OnlyCall, storeVars
  <2>5. Knows(owner, c)' /\ OthersHold(c)
    BY <1>1, <2>3, <2>4, PlainKnows, HeldStays
  <2> QED
    BY <2>3, <2>4, <2>5, QuietOwners
<1> QED
  BY <1>2, <1>3 DEF Resolve

LEMMA AcquireOwners ==
    ASSUME LockInv, NEW owner, NEW c \in Callers, Owned(owner), Acquire(c)
    PROVE  Owned(owner)'
<1>1. /\ job[c].at = "lock" /\ Goto(c, "read") /\ "read" \in Points
      /\ UNCHANGED <<storeVars, migrated, migrating, serverVars>>
  BY DEF Acquire, Enter, At, Points
<1>2. ~job[c].fill /\ migrated
  BY <1>1, KnowsNow DEF RecsOf, CredsOf
<1>3. OnlyCaller(c) /\ job'[c].at = "read" /\ job'[c].fill = job[c].fill
  BY <1>1, GotoMoves
<1>4. Knows(owner, c)'
  BY <1>1, <1>2, <1>3, PlainKnows
<1>5. OthersHold(c)
  BY <1>1 DEF OthersHold
<1> QED
  BY <1>1, <1>3, <1>4, <1>5, QuietOwners DEF storeVars

LEMMA LookupOwners ==
    ASSUME LockInv, NEW owner, NEW c \in Callers, Owned(owner), Lookup(c)
    PROVE  Owned(owner)'
<1>1. /\ job[c].at = "read" /\ job[c].acct \in Accounts
      /\ UNCHANGED <<secret, legacy, cached, migrated, Held, serverVars>>
  BY JobFacts DEF Lookup, At, OnlyJob, OnlyCall, storeVars, Place, PlaceOf
<1>2. ~job[c].fill /\ migrated
  BY <1>1, KnowsNow DEF RecsOf, CredsOf
<1>3. /\ OnlyCaller(c) /\ job'[c].fill = job[c].fill /\ job'[c].acct = job[c].acct
      /\ \/ /\ job'[c].at = "get" /\ job'[c].key = 1 /\ job'[c].creds = None
         \/ /\ cached[job[c].acct] # None
            /\ job'[c].at = "decide" /\ job'[c].creds = cached[job[c].acct]
  BY LookupMoves
<1>4. GrantState(owner)
  BY DEF Owned
<1>5. ~Changing(job[c])' /\ RecsOf(job[c])'
  BY <1>2, <1>3 DEF Changing, RecsOf
<1>6. CredsOf(owner, c, job[c])'
  <2>1. CASE job'[c].at = "get"
    <3>1. None.refresh = 0
      BY DEF None, From, Kinds
    <3> QED
      BY <1>1, <1>2, <1>3, <1>5, <2>1, <3>1 DEF CredsOf, OwnedBy
  <2>2. CASE job'[c].at = "decide"
    <3>1. /\ Whole(job'[c].creds)
          /\ OwnedBy(owner, job[c].acct, job'[c].creds.refresh)
      BY <1>1, <1>3, <1>4, <2>2 DEF GrantState
    <3> QED
      BY <1>1, <1>2, <1>3, <1>5, <2>2, <3>1 DEF CredsOf, OwnedBy, serverVars
  <2> QED
    BY <1>3, <2>1, <2>2
<1>7. Knows(owner, c)' /\ OthersHold(c)
  BY <1>1, <1>5, <1>6, HeldStays DEF Knows, KnowsOf
<1> QED
  BY <1>1, <1>3, <1>7, QuietOwners

LEMMA GetOwners ==
    ASSUME LockInv, NEW owner, NEW c \in Callers, Owned(owner), Get(c)
    PROVE  Owned(owner)'
<1>1. CASE Fail(c)
  BY <1>1, FailOwners
<1>2. CASE /\ secret[job[c].acct][Keys[job[c].key]] # 0
           /\ job' = [job EXCEPT ![c] = Got(c)]
           /\ OnlyJob
  <2>1. /\ job[c].at = "get" /\ job[c].acct \in Accounts /\ job[c].creds \in Credentials
        /\ job[c].key = 1 \/ job[c].key = 2
        /\ UNCHANGED <<secret, legacy, cached, migrated, Held, serverVars>>
    <3>1. job[c].at = "get"
      BY DEF Get, At
    <3>2. job[c].acct \in Accounts
      BY <3>1, JobFacts DEF Place, PlaceOf
    <3>3. job[c].creds \in Credentials /\ (job[c].key = 1 \/ job[c].key = 2)
      BY JobFacts
    <3>4. UNCHANGED <<secret, legacy, cached, migrated, Held, serverVars>>
      BY <1>2 DEF OnlyJob, OnlyCall, storeVars
    <3> QED
      BY <3>1, <3>2, <3>3, <3>4
  <2>2. /\ ~job[c].fill /\ migrated /\ job[c].creds.refresh = 0
        /\ job[c].key = 2 => job[c].creds.access # 0
    BY <2>1, KnowsNow DEF RecsOf, CredsOf
  <2>3. /\ Got(c) \in Jobs /\ Got(c).acct = job[c].acct /\ Got(c).fill = job[c].fill
        /\ job[c].key = 1 => /\ Got(c).at = "get" /\ Got(c).key = 2
                             /\ Got(c).creds = [job[c].creds EXCEPT !.access = secret[job[c].acct].access]
        /\ job[c].key = 2 => /\ Got(c).at = "keep" /\ Got(c).key = 1
                             /\ Got(c).creds = [job[c].creds EXCEPT !.refresh = secret[job[c].acct].refresh]
    BY <2>1, GetMoves
  <2>4. OnlyCaller(c) /\ job'[c] = Got(c)
    <3>1. Moves(c, Got(c))
      BY <1>2 DEF Moves
    <3> QED
      BY <2>3, <3>1, PutMoves
  <2>5. /\ job[c].key = 1 => secret[job[c].acct].access # 0
        /\ job[c].key = 2 => secret[job[c].acct].refresh # 0
    BY <1>2 DEF Keys
  <2>6. ~Changing(job[c])' /\ RecsOf(job[c])'
    BY <2>1, <2>2, <2>3, <2>4 DEF Changing, RecsOf
  <2>7. CredsOf(owner, c, job[c])'
    <3>1. CASE job[c].key = 1
      <4>1. job'[c].creds.refresh = 0 /\ job'[c].creds.access # 0
        BY <2>1, <2>2, <2>3, <2>4, <2>5, <3>1 DEF Credentials, Kinds
      <4> QED
        BY <2>1, <2>2, <2>3, <2>4, <2>6, <3>1, <4>1 DEF CredsOf, OwnedBy
    <3>2. CASE job[c].key = 2
      <4>1. /\ job'[c].creds.refresh = secret[job[c].acct].refresh
            /\ job'[c].creds.access # 0
        BY <2>1, <2>2, <2>3, <2>4, <3>2 DEF Credentials, Kinds
      <4>2. OwnedBy(owner, job[c].acct, secret[job[c].acct].refresh)
        BY <2>1 DEF Owned, GrantState
      <4> QED
        BY <2>1, <2>2, <2>3, <2>4, <2>5, <2>6, <3>2, <4>1, <4>2
           DEF CredsOf, OwnedBy, Whole, serverVars
    <3> QED
      BY <2>1, <3>1, <3>2
  <2>8. Knows(owner, c)' /\ OthersHold(c)
    BY <2>1, <2>6, <2>7, HeldStays DEF Knows, KnowsOf
  <2> QED
    BY <2>1, <2>4, <2>8, QuietOwners
<1> QED
  BY <1>1, <1>2 DEF Get, Got

LEMMA KeepOwners ==
    ASSUME LockInv, NEW owner, NEW c \in Callers, Owned(owner), Keep(c)
    PROVE  Owned(owner)'
<1>1. /\ job[c].at = "keep" /\ job[c].acct \in Accounts
      /\ cached' = [cached EXCEPT ![job[c].acct] = job[c].creds]
      /\ Goto(c, "decide") /\ "decide" \in Points
      /\ UNCHANGED <<secret, legacy, migrated, Held, serverVars>>
  BY JobFacts DEF Keep, At, Place, PlaceOf, Points
<1>2. /\ ~job[c].fill /\ migrated /\ Whole(job[c].creds)
      /\ OwnedBy(owner, job[c].acct, job[c].creds.refresh)
  BY <1>1, KnowsNow DEF RecsOf, CredsOf
<1>3. /\ OnlyCaller(c) /\ job'[c].at = "decide" /\ job'[c].fill = job[c].fill
      /\ job'[c].acct = job[c].acct /\ job'[c].creds = job[c].creds
  BY <1>1, GotoMoves
<1>4. GrantState(owner)'
  <2>1. GrantState(owner) /\ cached \in [Accounts -> Credentials]
    BY DEF Owned, LockInv, RestTypeOK
  <2>2. \A a \in Accounts :
           /\ OwnedBy(owner, a, cached'[a].refresh)
           /\ cached'[a] = None \/ Whole(cached'[a])
    BY <1>1, <1>2, <2>1 DEF GrantState
  <2> QED
    BY <1>1, <2>1, <2>2 DEF GrantState, OwnedBy, serverVars
<1>5. ~Changing(job[c])' /\ RecsOf(job[c])'
  BY <1>2, <1>3 DEF Changing, RecsOf
<1>6. CredsOf(owner, c, job[c])'
  BY <1>1, <1>2, <1>3, <1>5 DEF CredsOf, OwnedBy, serverVars
<1>7. Knows(owner, c)' /\ OthersHold(c)
  BY <1>1, <1>5, <1>6, HeldStays DEF Knows, KnowsOf
<1> QED
  BY <1>1, <1>3, <1>4, <1>7, OwnersStay DEF serverVars

LEMMA DecideOwners ==
    ASSUME LockInv, NEW owner, NEW c \in Callers, Owned(owner), Decide(c)
    PROVE  Owned(owner)'
<1>1. CASE /\ Return(c)
           /\ UNCHANGED <<storeVars, migrated, serverVars, calls, faults, pastVars>>
  <2>1. Ended(c) /\ OthersHold(c)
    BY <1>1, ReturnEnds, ReturnHolds DEF Return
  <2> QED
    BY <1>1, <2>1, EndOwners DEF storeVars
<1>2. CASE Goto(c, "sent") /\ OnlyJob
  <2>1. /\ job[c].at = "decide" /\ "sent" \in Points
        /\ UNCHANGED <<secret, legacy, cached, migrated, Held, serverVars>>
    BY <1>2 DEF Decide, At, Points, OnlyJob, OnlyCall, storeVars
  <2>2. /\ ~job[c].fill /\ migrated /\ Whole(job[c].creds)
        /\ OwnedBy(owner, job[c].acct, job[c].creds.refresh)
    BY <2>1, KnowsNow DEF RecsOf, CredsOf
  <2>3. /\ OnlyCaller(c) /\ job'[c].at = "sent" /\ job'[c].fill = job[c].fill
        /\ job'[c].acct = job[c].acct /\ job'[c].creds = job[c].creds
    BY <1>2, <2>1, GotoMoves
  <2>4. ~Changing(job[c])' /\ RecsOf(job[c])'
    BY <2>2, <2>3 DEF Changing, RecsOf
  <2>5. CredsOf(owner, c, job[c])'
    BY <2>1, <2>2, <2>3, <2>4 DEF CredsOf, OwnedBy, serverVars
  <2>6. Knows(owner, c)' /\ OthersHold(c)
    BY <2>1, <2>4, <2>5, HeldStays DEF Knows, KnowsOf
  <2> QED
    BY <2>1, <2>3, <2>6, QuietOwners
<1> QED
  BY <1>1, <1>2 DEF Decide

(* Storing: the call keeps its credentials from step to step.              *)
LEMMA ChangingKnows ==
    ASSUME NEW owner, NEW c \in Callers, Owned(owner), job[c].at \in Writing,
           job'[c].at \in Writing, job'[c].op = job[c].op, job'[c].on = job[c].on,
           job'[c].creds = job[c].creds,
           UNCHANGED <<legacy, migrated, Held, serverVars>>,
           RecsOf(job[c])'
    PROVE  Knows(owner, c)'
<1>1. CredsOf(owner, c, job[c])
  BY KnowsNow
<1>2. Changing(job[c])' <=> Changing(job[c])
  BY DEF Changing
<1>3. CredsOf(owner, c, job[c])'
  BY <1>1, <1>2 DEF CredsOf, OwnedBy, Held, serverVars
<1> QED
  BY <1>3 DEF Knows, KnowsOf

LEMMA PutsOwned ==
    ASSUME LockInv, NEW owner, NEW c \in Callers, Owned(owner), job[c].at = "set",
           PutSecret(job[c])
    PROVE  \A a \in Accounts : OwnedBy(owner, a, secret'[a].refresh)
<1> DEFINE j == job[c]
<1>1. /\ j.on \in Accounts /\ j.creds \in Credentials
      /\ \/ secret' = [secret EXCEPT ![j.on].access = j.creds.access]
         \/ secret' = [secret EXCEPT ![j.on].refresh = j.creds.refresh]
  BY PutsOne
<1>2. j.op # "logout"
  BY JobFacts DEF Place, PlaceOf
<1>3. OwnedBy(owner, j.on, j.creds.refresh)
  BY <1>1, <1>2, KnowsNow DEF CredsOf, Changing
<1>4. GrantState(owner) /\ secret \in [Accounts -> Credentials]
  BY DEF Owned, LockInv, RestTypeOK
<1>5. ASSUME NEW a \in Accounts
      PROVE  \/ secret'[a].refresh = secret[a].refresh
             \/ a = j.on /\ secret'[a].refresh = j.creds.refresh
  <2>1. secret[a] \in Credentials
    BY <1>4
  <2>2. \/ secret'[a] = secret[a]
        \/ a = j.on /\ secret'[a] = [secret[a] EXCEPT !.access = j.creds.access]
        \/ a = j.on /\ secret'[a] = [secret[a] EXCEPT !.refresh = j.creds.refresh]
    <3> HIDE DEF j
    <3> QED
      BY <1>1, <1>4
  <2> QED
    BY <2>1, <2>2 DEF Credentials, Kinds
<1> QED
  BY <1>3, <1>4, <1>5 DEF GrantState

LEMMA SetSecretOwners ==
    ASSUME LockInv, NEW owner, NEW c \in Callers, Owned(owner), SetSecret(c)
    PROVE  Owned(owner)'
<1> DEFINE j == job[c]
<1>1. /\ OnlyCaller(c) /\ job'[c].op = j.op /\ job'[c].on = j.on
      /\ job'[c].creds = j.creds /\ job'[c].recs = j.recs /\ job'[c].fill = j.fill
      /\ j.at = "set" /\ j.on \in Accounts /\ j.creds \in Credentials
      /\ \/ /\ j.key = 1 /\ job'[c].at = "set" /\ job'[c].key = 2
            /\ secret' = [secret EXCEPT ![j.on].access = j.creds.access]
         \/ /\ j.key = 2 /\ job'[c].at = "upsert" /\ job'[c].key = 1
            /\ secret' = [secret EXCEPT ![j.on].refresh = j.creds.refresh]
      /\ UNCHANGED <<legacy, cached, migrated, Held, serverVars>>
  BY SetSecretMoves
<1>2. j.op # "logout"
  BY <1>1, JobFacts DEF Place, PlaceOf
<1>3. /\ ~j.fill /\ j.recs = {} /\ OwnedBy(owner, j.on, j.creds.refresh)
  BY <1>1, <1>2, KnowsNow DEF RecsOf, CredsOf, Changing
<1>4. RecsOf(j)'
  BY <1>1, <1>3 DEF RecsOf
<1>5. Knows(owner, c)' /\ OthersHold(c)
  BY <1>1, <1>4, ChangingKnows, HeldStays
<1>6. GrantState(owner) /\ secret \in [Accounts -> Credentials]
  BY DEF Owned, LockInv, RestTypeOK
<1>7. \A a \in Accounts : OwnedBy(owner, a, secret'[a].refresh)
  BY <1>1, PutsOwned DEF SetSecret
<1>8. GrantState(owner)'
  BY <1>1, <1>6, <1>7 DEF GrantState, OwnedBy, serverVars
<1> QED
  BY <1>1, <1>5, <1>8, OwnersStay DEF serverVars

LEMMA WriteIndexOwners ==
    ASSUME LockInv, NEW owner, NEW c \in Callers, Owned(owner), Upsert(c) \/ Remove(c)
    PROVE  Owned(owner)'
<1>1. /\ OnlyCaller(c) /\ job'[c].op = job[c].op /\ job'[c].on = job[c].on
      /\ job'[c].creds = job[c].creds /\ job'[c].at = "adopt" /\ ~job'[c].fill
      /\ job[c].at \in {"upsert", "remove"}
      /\ UNCHANGED <<secret, legacy, cached, migrated, Held, serverVars>>
  BY WriteIndexMoves
<1>2. RecsOf(job[c])'
  BY <1>1 DEF RecsOf
<1>3. Knows(owner, c)'
  <2>1. CASE job[c].at = "upsert"
    BY <1>1, <1>2, <2>1, ChangingKnows
  <2>2. CASE job[c].at = "remove"
    <3>1. ~Changing(job[c])'
      BY <1>1, <2>2, JobFacts DEF Place, PlaceOf, Changing
    <3>2. CredsOf(owner, c, job[c])'
      BY <1>1, <3>1 DEF CredsOf
    <3> QED
      BY <1>2, <3>2 DEF Knows, KnowsOf
  <2> QED
    BY <1>1, <2>1, <2>2
<1> QED
  BY <1>1, <1>3, QuietOwners, HeldStays

LEMMA AdoptOwners ==
    ASSUME LockInv, NEW owner, NEW c \in Callers, Owned(owner), Adopt(c)
    PROVE  Owned(owner)'
<1>1. /\ job[c].at = "adopt" /\ OnlyCaller(c)
      /\ UNCHANGED <<secret, legacy, cached, migrated, serverVars>>
      /\ \/ /\ migrating = c /\ UNCHANGED Held
            /\ job'[c].at = "clean" /\ job'[c].key = 1 /\ job'[c].recs = {}
            /\ job'[c].fill = job[c].fill
         \/ Return(c) /\ Ended(c)
         \/ /\ UNCHANGED Held
            /\ job'[c].at = "cache" /\ job'[c].op = job[c].op
            /\ job'[c].on = job[c].on /\ job'[c].creds = job[c].creds
            /\ job'[c].fill = job[c].fill
  BY AdoptMoves
<1>2. ~job[c].fill
  BY <1>1, KnowsNow DEF RecsOf
<1>3. CASE Return(c) /\ Ended(c)
  BY <1>1, <1>3, EndOwners, ReturnHolds DEF Return
<1>4. CASE UNCHANGED Held /\ job'[c].at = "clean" /\ job'[c].key = 1 /\ job'[c].recs = {}
           /\ job'[c].fill = job[c].fill
  <2>1. ~Changing(job[c])'
    BY <1>4 DEF Changing
  <2>2. Knows(owner, c)'
    BY <1>2, <1>4, <2>1 DEF Knows, KnowsOf, CredsOf, RecsOf
  <2> QED
    BY <1>1, <1>4, <2>2, QuietOwners, HeldStays
<1>5. CASE /\ UNCHANGED Held
           /\ job'[c].at = "cache" /\ job'[c].op = job[c].op
           /\ job'[c].on = job[c].on /\ job'[c].creds = job[c].creds
           /\ job'[c].fill = job[c].fill
  <2>1. RecsOf(job[c])'
    BY <1>2, <1>5 DEF RecsOf
  <2>2. Knows(owner, c)'
    BY <1>1, <1>5, <2>1, ChangingKnows
  <2> QED
    BY <1>1, <1>5, <2>2, QuietOwners, HeldStays
<1> QED
  BY <1>1, <1>3, <1>4, <1>5

LEMMA CacheOwners ==
    ASSUME LockInv, NEW owner, NEW c \in Callers, Owned(owner), Cache(c)
    PROVE  Owned(owner)'
<1>1. /\ cached' = [cached EXCEPT ![job[c].on] = job[c].creds]
      /\ job[c].at = "cache" /\ job[c].on \in Accounts
      /\ OnlyCaller(c)
      /\ UNCHANGED <<secret, legacy, migrated, serverVars>>
      /\ \/ Return(c) /\ Ended(c)
         \/ job'[c].at = "ensure" /\ UNCHANGED Held /\ job'[c].recs = {} /\ ~job'[c].fill
  BY CacheMoves
<1>2. Changing(job[c])
  BY <1>1, JobFacts DEF Changing, Place, PlaceOf
<1>3. Whole(job[c].creds) /\ OwnedBy(owner, job[c].on, job[c].creds.refresh)
  BY <1>2, KnowsNow DEF CredsOf
<1>4. GrantState(owner)'
  <2>1. GrantState(owner) /\ cached \in [Accounts -> Credentials]
    BY DEF Owned, LockInv, RestTypeOK
  <2>2. \A a \in Accounts :
           /\ OwnedBy(owner, a, cached'[a].refresh)
           /\ cached'[a] = None \/ Whole(cached'[a])
    BY <1>1, <1>3, <2>1 DEF GrantState
  <2> QED
    BY <1>1, <2>1, <2>2 DEF GrantState, OwnedBy, serverVars
<1>5. Knows(owner, c)' /\ OthersHold(c)
  BY <1>1, PlainKnows, IdleKnows, HeldStays, ReturnHolds DEF Ended, Return
<1> QED
  BY <1>1, <1>4, <1>5, OwnersStay DEF serverVars

LEMMA EraseOwners ==
    ASSUME LockInv, NEW owner, NEW c \in Callers, Owned(owner), Erase(c)
    PROVE  Owned(owner)'
<1>1. /\ job[c].at = "erase" /\ job[c].on \in Accounts
      /\ cached' = [cached EXCEPT ![job[c].on] = None]
      /\ Goto(c, "delete") /\ "delete" \in Points
      /\ UNCHANGED <<secret, legacy, migrated, Held, serverVars>>
  BY JobFacts DEF Erase, At, Place, PlaceOf, Points
<1>2. ~job[c].fill /\ job[c].recs = {}
  BY <1>1, KnowsNow DEF RecsOf
<1>3. /\ OnlyCaller(c) /\ job'[c].at = "delete" /\ job'[c].fill = job[c].fill
      /\ job'[c].recs = job[c].recs
  BY <1>1, GotoMoves
<1>4. GrantState(owner)'
  <2>1. GrantState(owner) /\ cached \in [Accounts -> Credentials] /\ None.refresh = 0
    BY DEF Owned, LockInv, RestTypeOK, None, From, Kinds
  <2>2. ASSUME NEW a \in Accounts
        PROVE  OwnedBy(owner, a, cached'[a].refresh) /\ (cached'[a] = None \/ Whole(cached'[a]))
    <3>1. cached'[a] \in {cached[a], None}
      BY <1>1, <2>1
    <3> QED
      BY <2>1, <3>1 DEF GrantState, OwnedBy
  <2> QED
    BY <1>1, <2>1, <2>2 DEF GrantState, OwnedBy, serverVars
<1>5. Knows(owner, c)' /\ OthersHold(c)
  BY <1>1, <1>2, <1>3, PlainKnows, HeldStays
<1> QED
  BY <1>1, <1>3, <1>4, <1>5, OwnersStay DEF serverVars

(* A call of the secret store that fails has done nothing, or what it was  *)
(* to do.                                                                  *)
LEMMA SecretFaultOwners ==
    ASSUME LockInv, NEW owner, NEW c \in Callers, Owned(owner), SecretFault(c)
    PROVE  Owned(owner)'
<1>1. Ended(c) /\ OthersHold(c) /\ UNCHANGED <<migrated, serverVars>>
  BY ReturnEnds, ReturnHolds DEF SecretFault, GiveUp, Return
<1>2. GrantState(owner) /\ legacy \in Credentials
  BY DEF Owned, LockInv, RestTypeOK
<1>3. CASE AsItWas
  BY <1>1, <1>3, EndOwners DEF AsItWas, storeVars
<1>4. CASE /\ At(c, "set") /\ PutSecret(job[c])
           /\ UNCHANGED <<index, legacy, cached, cachedIndex, astray>>
  <2>1. \A a \in Accounts : OwnedBy(owner, a, secret'[a].refresh)
    BY <1>4, PutsOwned DEF At
  <2>2. GrantState(owner)'
    BY <1>1, <1>2, <1>4, <2>1 DEF GrantState, OwnedBy, serverVars
  <2> QED
    BY <1>1, <1>4, <2>2, IdleKnows, OwnersStay DEF Ended, serverVars
<1>5. CASE /\ At(c, "clean")
           /\ legacy' = [legacy EXCEPT ![Keys[job[c].key]] = 0]
           /\ UNCHANGED <<secret, index, cached, cachedIndex, astray>>
  <2>1. migrating = c /\ Keys[job[c].key] \in Kinds
    BY <1>5, JobFacts, KeysAreKinds DEF At, Place, PlaceOf
  <2>2. ~Whole(legacy') /\ legacy'.refresh \in {0, legacy.refresh}
    BY <1>2, <1>5, <2>1 DEF Credentials, Kinds, Whole
  <2>3. GrantState(owner)'
    BY <1>1, <1>2, <1>5, <2>2 DEF GrantState, OwnedBy, serverVars, Whole
  <2> QED
    BY <1>1, <2>1, <2>3, IdleKnows, OwnersStay DEF Ended, serverVars
<1>6. CASE UNCHANGED <<secret, legacy, cached, cachedIndex>>
  BY <1>1, <1>6, EndOwners
<1> QED
  BY <1>3, <1>4, <1>5, <1>6 DEF SecretFault, DoneInVain

LEMMA DeleteOwners ==
    ASSUME LockInv, NEW owner, NEW c \in Callers, Owned(owner), Delete(c)
    PROVE  Owned(owner)'
<1> DEFINE j == job[c]
<1>1. /\ OnlyCaller(c) /\ j.at = "delete" /\ j.on \in Accounts
      /\ job'[c].recs = j.recs /\ job'[c].fill = j.fill
      /\ job'[c].at \in {"delete", "deleted", "remove"}
      /\ secret' \in {secret, [secret EXCEPT ![j.on][Keys[j.key]] = 0]}
      /\ Keys[j.key] \in Kinds
      /\ UNCHANGED <<legacy, cached, migrated, Held, serverVars>>
  BY DeleteMoves
<1>2. ~j.fill /\ j.recs = {}
  BY <1>1, KnowsNow DEF RecsOf
<1>3. Knows(owner, c)' /\ OthersHold(c)
  BY <1>1, <1>2, PlainKnows, HeldStays
<1>4. GrantState(owner) /\ secret \in [Accounts -> Credentials]
  BY DEF Owned, LockInv, RestTypeOK
<1>5. \A a \in Accounts : secret'[a].refresh \in {secret[a].refresh, 0}
  BY <1>1, <1>4 DEF Credentials, Kinds
<1>6. GrantState(owner)'
  BY <1>1, <1>4, <1>5 DEF GrantState, OwnedBy, serverVars
<1> QED
  BY <1>1, <1>3, <1>6, OwnersStay DEF serverVars

-----------------------------------------------------------------------------
(* A new grant belongs to the account it was asked for.                    *)
LEMMA NewOwner ==
    ASSUME NEW owner \in Owners, NEW a \in Accounts, grants \in Nat, grants + 1 \in 1..MaxGrants
    PROVE  \E later \in Owners :
               later[grants + 1] = a /\ \A t \in 1..grants : later[t] = owner[t]
<1> DEFINE later == [owner EXCEPT ![grants + 1] = a]
<1>1. later \in Owners
  BY DEF Owners, Grants
<1>2. later[grants + 1] = a
  BY DEF Owners, Grants
<1>3. ASSUME NEW t \in 1..grants PROVE later[t] = owner[t]
  <2>1. t # grants + 1
    OBVIOUS
  <2> QED
    BY <2>1 DEF Owners, Grants
<1> QED
  BY <1>1, <1>2, <1>3

LEMMA OwnersGrow ==
    ASSUME LockInv, NEW owner \in Owners, NEW later \in Owners, NEW c \in Callers, Owned(owner),
           OnlyCaller(c), OthersHold(c),
           grants \in Nat, grants' = grants + 1, \A t \in 1..grants : later[t] = owner[t],
           UNCHANGED <<secret, legacy, cached, migrated>>,
           spent' \subseteq 1..grants, Whole(legacy) => spent' = {},
           Knows(later, c)'
    PROVE  Owned(later)'
<1>1. GrantState(owner)
  BY DEF Owned
<1>2. ASSUME NEW a, NEW t, OwnedBy(owner, a, t) PROVE OwnedBy(later, a, t)'
  <2> SUFFICES ASSUME t # 0 PROVE t \in 1..grants' /\ later[t] = a
    BY DEF OwnedBy
  <2>1. t \in 1..grants /\ owner[t] = a
    BY <1>2 DEF OwnedBy
  <2> QED
    BY <2>1
<1>3. spent' \subseteq 1..grants'
  OBVIOUS
<1>4. GrantState(later)'
  <2>1. OwnedBy(later, LegacyAccount, legacy.refresh)'
    BY <1>1, <1>2 DEF GrantState
  <2>2. \A a \in Accounts :
           /\ OwnedBy(later, a, secret[a].refresh)'
           /\ OwnedBy(later, a, cached[a].refresh)'
    BY <1>1, <1>2 DEF GrantState
  <2> QED
    BY <1>1, <1>3, <2>1, <2>2 DEF GrantState, Whole
<1>5. ASSUME NEW d \in Callers \ {c} PROVE Knows(later, d)'
  BY OthersKnow DEF Owned, OnlyCaller
<1> QED
  BY <1>4, <1>5 DEF Owned

LEMMA CompleteOwners ==
    ASSUME LockInv, NEW owner \in Owners, NEW c \in Callers, Owned(owner), Complete(c)
    PROVE  \E later \in Owners : Owned(later)'
<1>1. PICK a \in Accounts :
          /\ OnlyCaller(c) /\ job'[c].at = "set" /\ job'[c].on = a /\ job'[c].key = 1
          /\ job'[c].creds = From(grants + 1) /\ job'[c].recs = {}
          /\ job'[c].op = "login" /\ job'[c].fill = job[c].fill /\ job[c].at = "accept"
          /\ migrating # c
          /\ grants \in Nat /\ grants + 1 \in 1..MaxGrants /\ grants' = grants + 1
          /\ UNCHANGED <<storeVars, migrated, Held, spent, calls, faults, pastVars>>
  BY CompleteMoves
<1>2. PICK later \in Owners :
          later[grants + 1] = a /\ \A t \in 1..grants : later[t] = owner[t]
  BY <1>1, NewOwner
<1>3. ~job[c].fill
  BY <1>1, KnowsNow DEF RecsOf
<1>4. /\ UNCHANGED <<secret, legacy, cached, migrated>> /\ spent' = spent
      /\ migrating' # c /\ OthersHold(c)
  BY <1>1, HeldStays DEF storeVars, Held
<1>5. Knows(later, c)'
  <2>1. /\ job'[c].creds.access = grants + 1 /\ job'[c].creds.refresh = grants + 1
        /\ grants + 1 # 0
    BY <1>1 DEF From, Kinds
  <2>2. CredsOf(later, c, job[c])'
    BY <1>1, <1>2, <1>4, <2>1 DEF CredsOf, OwnedBy, Whole, Changing
  <2>3. RecsOf(job[c])'
    BY <1>1, <1>3 DEF RecsOf
  <2> QED
    BY <2>2, <2>3 DEF Knows, KnowsOf
<1>6. spent \subseteq 1..grants /\ (Whole(legacy) => spent = {})
  BY DEF Owned, GrantState
<1> QED
  BY <1>1, <1>2, <1>4, <1>5, <1>6, OwnersGrow

(* What the endpoint answers to a refresh.                                 *)
LEMMA AnsweredSpends ==
    ASSUME LockInv, NEW owner \in Owners, NEW c \in Callers, Owned(owner),
           NEW fresh \in Answers, Answered(c, fresh)
    PROVE  /\ spent' \subseteq 1..grants /\ (Whole(legacy) => spent' = {})
           /\ job[c].at = "sent" /\ job[c].acct \in Accounts /\ migrating # c
           /\ grants \in Nat /\ grants + 1 \in 1..MaxGrants /\ grants' = grants + 1
           /\ migrated /\ ~job[c].fill /\ Whole(job[c].creds)
           /\ OwnedBy(owner, job[c].acct, job[c].creds.refresh)
<1>1. /\ job[c].at = "sent" /\ job[c].acct \in Accounts /\ migrating # c
      /\ grants \in Nat /\ grants + 1 \in 0..MaxGrants /\ grants' = grants + 1
      /\ spent' \ spent \subseteq {job[c].creds.refresh}
  BY AnsweredFacts
<1>2. /\ migrated /\ ~job[c].fill /\ Whole(job[c].creds)
      /\ OwnedBy(owner, job[c].acct, job[c].creds.refresh)
  BY <1>1, KnowsNow DEF CredsOf, RecsOf
<1>3. spent \subseteq 1..grants /\ ~Whole(legacy)
  BY <1>2 DEF Owned, GrantState
<1>4. job[c].creds.refresh \in 1..grants
  BY <1>2 DEF OwnedBy, Whole
<1>5. grants + 1 \in 1..MaxGrants
  BY <1>1, AuthAssumption
<1>6. spent' \subseteq 1..grants
  BY <1>1, <1>3, <1>4
<1> QED
  BY <1>1, <1>2, <1>3, <1>5, <1>6

LEMMA AnswerOwners ==
    ASSUME LockInv, NEW owner \in Owners, NEW c \in Callers, Owned(owner), Answer(c)
    PROVE  \E later \in Owners : Owned(later)'
<1>1. PICK fresh \in Answers :
          /\ Answered(c, fresh)
          /\ OnlyCaller(c) /\ job'[c].at = "set" /\ job'[c].on = job[c].acct /\ job'[c].key = 1
          /\ job'[c].creds = NewCreds(c, fresh) /\ job'[c].recs = {} /\ job'[c].op = "refresh"
          /\ job'[c].fill = job[c].fill
          /\ UNCHANGED <<storeVars, migrated, Held, calls, faults, pastVars>>
  BY AnswerMoves
<1>2. /\ spent' \subseteq 1..grants /\ (Whole(legacy) => spent' = {})
      /\ job[c].acct \in Accounts /\ migrating # c
      /\ grants \in Nat /\ grants + 1 \in 1..MaxGrants /\ grants' = grants + 1
      /\ migrated /\ ~job[c].fill /\ Whole(job[c].creds)
      /\ OwnedBy(owner, job[c].acct, job[c].creds.refresh)
  BY <1>1, AnsweredSpends
<1>3. PICK later \in Owners :
          later[grants + 1] = job[c].acct /\ \A t \in 1..grants : later[t] = owner[t]
  BY <1>2, NewOwner
<1>4. /\ UNCHANGED <<secret, legacy, cached, migrated>>
      /\ migrating' # c /\ OthersHold(c)
  BY <1>1, <1>2, HeldStays DEF storeVars, Held
<1>5. Knows(later, c)'
  <2>1. /\ job'[c].creds.access \in {job[c].creds.access, grants + 1}
        /\ job'[c].creds.refresh \in {job[c].creds.refresh, grants + 1}
    BY <1>1 DEF NewCreds, Kinds
  <2>2. /\ job'[c].creds.access # 0 /\ job'[c].creds.refresh # 0
        /\ job'[c].creds.refresh \in 1..grants' /\ later[job'[c].creds.refresh] = job[c].acct
    BY <1>2, <1>3, <2>1 DEF Whole, OwnedBy
  <2>3. CredsOf(later, c, job[c])'
    BY <1>1, <1>2, <1>4, <2>2 DEF CredsOf, OwnedBy, Whole, Changing
  <2>4. RecsOf(job[c])'
    BY <1>1, <1>2 DEF RecsOf
  <2> QED
    BY <2>3, <2>4 DEF Knows, KnowsOf
<1> QED
  BY <1>1, <1>2, <1>3, <1>4, <1>5, OwnersGrow

LEMMA AnswerForAnotherOwners ==
    ASSUME LockInv, NEW owner \in Owners, NEW c \in Callers, Owned(owner), AnswerForAnother(c)
    PROVE  Owned(owner)'
<1>1. PICK fresh \in Answers :
          /\ Answered(c, fresh) /\ Return(c)
          /\ UNCHANGED <<storeVars, migrated, calls, faults, torn, abandoned, astray>>
  BY DEF AnswerForAnother
<1>2. /\ spent' \subseteq 1..grants /\ (Whole(legacy) => spent' = {})
      /\ grants \in Nat /\ grants' = grants + 1
  BY <1>1, AnsweredSpends
<1>3. Ended(c) /\ OthersHold(c)
  BY <1>1, ReturnEnds, ReturnHolds DEF Return
<1> QED
  BY <1>1, <1>2, <1>3, IdleKnows, OwnersGrow DEF Ended, storeVars

LEMMA LoseAnswerOwners ==
    ASSUME LockInv, NEW owner \in Owners, NEW c \in Callers, Owned(owner), LoseAnswer(c)
    PROVE  Owned(owner)'
<1>1. /\ job[c].at = "sent" /\ spent' = spent \union {job[c].creds.refresh} /\ Return(c)
      /\ UNCHANGED <<storeVars, migrated, grants>>
  BY DEF LoseAnswer, At
<1>2. /\ migrated /\ Whole(job[c].creds)
      /\ OwnedBy(owner, job[c].acct, job[c].creds.refresh)
  BY <1>1, KnowsNow DEF CredsOf
<1>3. Ended(c) /\ OthersHold(c)
  BY <1>1, ReturnEnds, ReturnHolds DEF Return
<1>4. GrantState(owner)'
  <2>1. GrantState(owner) /\ job[c].creds.refresh \in 1..grants /\ ~Whole(legacy)
    BY <1>2 DEF Owned, GrantState, OwnedBy, Whole
  <2> QED
    BY <1>1, <2>1 DEF GrantState, OwnedBy, storeVars, Whole
<1> QED
  BY <1>1, <1>3, <1>4, IdleKnows, OwnersStay DEF Ended, storeVars

LEMMA RestartOwners ==
    ASSUME LockInv, NEW owner \in Owners, Owned(owner), Restart
    PROVE  Owned(owner)'
<1>1. /\ job' = [c \in Callers |-> Idle]
      /\ cached' = [a \in Accounts |-> None]
      /\ migrated' = FALSE
      /\ spent' = spent \union {job[c].creds.refresh : c \in Waiting}
      /\ UNCHANGED <<secret, legacy, grants>>
  BY DEF Restart
<1>2. \A c \in Callers : Knows(owner, c)'
  BY <1>1, IdleKnows
<1>3. GrantState(owner) /\ None.refresh = 0
  BY DEF Owned, None, From, Kinds
<1>4. ASSUME NEW c \in Waiting PROVE job[c].creds.refresh \in 1..grants /\ ~Whole(legacy)
  <2>1. c \in Callers /\ job[c].at = "sent"
    BY DEF Waiting, At
  <2> QED
    BY <1>3, <2>1, KnowsNow DEF CredsOf, GrantState, OwnedBy, Whole
<1>5. spent' \subseteq 1..grants /\ (Whole(legacy) => spent' = {})
  <2> DEFINE late == {job[c].creds.refresh : c \in Waiting}
  <2>1. late \subseteq 1..grants /\ (Whole(legacy) => late = {})
    BY <1>4
  <2>2. spent \subseteq 1..grants /\ (Whole(legacy) => spent = {})
    BY <1>3 DEF GrantState
  <2>3. spent' = spent \union late /\ grants' = grants /\ legacy' = legacy
    BY <1>1
  <2> HIDE DEF late
  <2> QED
    BY <2>1, <2>2, <2>3
<1>6. GrantState(owner)'
  BY <1>1, <1>3, <1>5 DEF GrantState, OwnedBy, Whole
<1> QED
  BY <1>2, <1>6 DEF Owned

LEMMA InitOwners == AuthInit => GrantInv
<1> SUFFICES ASSUME AuthInit PROVE GrantInv
  OBVIOUS
<1> DEFINE owner == [g \in Grants |-> LegacyAccount]
<1>1. owner \in Owners
  BY AuthAssumption DEF Owners
<1>2. \A c \in Callers : Knows(owner, c)
  <2> SUFFICES ASSUME NEW c \in Callers PROVE Knows(owner, c)
    OBVIOUS
  <2>1. job[c].at = "idle" /\ job[c].fill = FALSE
    BY DEF AuthInit, Idle
  <2> QED
    BY <2>1 DEF Knows, KnowsOf, CredsOf, RecsOf, Changing
<1>3. GrantState(owner)
  <2>1. None.refresh = 0 /\ From(1).refresh = 1 /\ ~Whole(None)
    BY DEF None, From, Kinds, Whole
  <2>2. OwnedBy(owner, LegacyAccount, legacy.refresh)
    BY <2>1, AuthAssumption DEF AuthInit, OwnedBy, Grants
  <2>3. spent = {} /\ ~migrated
    BY DEF AuthInit
  <2>4. \A a \in Accounts : secret[a] = None /\ cached[a] = None
    BY DEF AuthInit
  <2> QED
    BY <2>1, <2>2, <2>3, <2>4 DEF GrantState, OwnedBy
<1> QED
  BY <1>1, <1>2, <1>3 DEF GrantInv, Owned

LEMMA NextOwners ==
    ASSUME LockInv, GrantInv, AuthNext
    PROVE  GrantInv'
<1>1. PICK owner \in Owners : Owned(owner)
  BY DEF GrantInv
<1>2. CASE Restart
  BY <1>1, <1>2, RestartOwners DEF GrantInv
<1>3. ASSUME NEW c \in Callers, Step(c) PROVE GrantInv'
  <2>1. CASE Complete(c) \/ Answer(c)
    BY <1>1, <2>1, CompleteOwners, AnswerOwners DEF GrantInv
  <2>2. CASE AnswerForAnother(c) \/ LoseAnswer(c)
    BY <1>1, <2>2, AnswerForAnotherOwners, LoseAnswerOwners DEF GrantInv
  <2>3. CASE NoCode(c) \/ Refused(c) \/ Abandon(c) \/ Deleted(c) \/ SecretFault(c)
    BY <1>1, <2>3, FailOwners, SecretFaultOwners DEF GrantInv, NoCode, Refused, Abandon, Deleted
  <2>4. CASE Ensure(c) \/ Migrate(c) \/ Clean(c) \/ Status(c)
    BY <1>1, <2>4, EnsureOwners, MigrateOwners, CleanOwners, StatusOwners DEF GrantInv
  <2>5. CASE ReadIndex(c) \/ FillIndex(c) \/ Resolve(c)
    BY <1>1, <2>5, IndexOwners, ResolveOwners DEF GrantInv
  <2>6. CASE Lookup(c) \/ Get(c) \/ Keep(c) \/ Decide(c)
    BY <1>1, <2>6, LookupOwners, GetOwners, KeepOwners, DecideOwners DEF GrantInv
  <2>7. CASE SetSecret(c) \/ Upsert(c) \/ Remove(c)
    BY <1>1, <2>7, SetSecretOwners, WriteIndexOwners DEF GrantInv
  <2>8. CASE Adopt(c) \/ Cache(c) \/ Erase(c) \/ Delete(c)
    BY <1>1, <2>8, AdoptOwners, CacheOwners, EraseOwners, DeleteOwners DEF GrantInv
  <2> QED
    BY <1>3, <2>1, <2>2, <2>3, <2>4, <2>5, <2>6, <2>7, <2>8 DEF Step
<1>4. ASSUME NEW c \in Callers, Acquire(c) PROVE GrantInv'
  BY <1>1, <1>4, AcquireOwners DEF GrantInv
<1>5. ASSUME NEW c \in Callers, Host(c) PROVE GrantInv'
  <2>1. CASE Calls(c)
    BY <1>1, <2>1, CallsOwners DEF GrantInv
  <2>2. CASE Wait(c) \/ Drop(c)
    BY <1>1, <2>2, WaitOwners, DropOwners DEF GrantInv
  <2>3. CASE Cancel(c)
    BY <1>1, <2>3, FailOwners DEF GrantInv, Cancel
  <2> QED
    BY <1>5, <2>1, <2>2, <2>3 DEF Host, Calls
<1> QED
  BY <1>2, <1>3, <1>4, <1>5 DEF AuthNext

LEMMA StutterOwners == GrantInv /\ UNCHANGED authVars => GrantInv'
<1> SUFFICES ASSUME GrantInv, UNCHANGED authVars PROVE GrantInv'
  OBVIOUS
<1>1. PICK owner \in Owners : Owned(owner)
  BY DEF GrantInv
<1>2. Owned(owner)'
  BY <1>1 DEF Owned, GrantState, Knows, KnowsOf, CredsOf, RecsOf, OwnedBy, Changing, authVars,
              storeVars, serverVars
<1> QED
  BY <1>1, <1>2 DEF GrantInv

LEMMA OwnersHold == AuthSpec => []GrantInv
<1>1. LockInv /\ GrantInv /\ [AuthNext]_authVars => GrantInv'
  BY NextOwners, StutterOwners
<1> QED
  BY <1>1, InitOwners, LocksHold, PTL DEF AuthSpec

(* No refresh token is kept for two accounts.                              *)
Kept(a) == {secret[a].refresh, cached[a].refresh} \ {0}

(* The tokens of one account are never stored or cached for another, in    *)
(* whatever order callers refresh, sign in, migrate and fail:              *)
(* store_credentials writes what the endpoint issued for that account.     *)
THEOREM TokensStayWithTheirAccount ==
    AuthSpec => [](\A a, b \in Accounts : a # b => Kept(a) \intersect Kept(b) = {})
<1>1. GrantInv => \A a, b \in Accounts : a # b => Kept(a) \intersect Kept(b) = {}
  BY DEF GrantInv, Owned, GrantState, OwnedBy, Kept
<1> QED
  BY <1>1, OwnersHold, PTL

-----------------------------------------------------------------------------
(* The index as a call finds it: the cached one, or else the stored one.   *)
View == IF cachedIndex = {} THEN index ELSE UNION cachedIndex

(* While the accounts are apart.  What a call that is in the store has     *)
(* written, read or deleted so far is still there.                         *)
SeenOf(j) ==
    /\ Changing(j) =>
        /\ j.at = "set" /\ j.key = 2 => secret[j.on].access = j.creds.access
        /\ j.at # "set" => secret[j.on] = j.creds
        /\ j.at \in {"adopt", "cache"} => j.on \in index
        /\ j.at = "cache" => \A records \in cachedIndex : j.on \in records
    /\ j.at = "get" /\ j.key = 2 => j.creds.access = secret[j.acct].access
    /\ j.at = "keep" => j.creds = secret[j.acct]
    /\ j.at \in {"delete", "deleted", "remove"} => cached[j.on] = None
    /\ j.at = "delete" /\ j.key = 2 /\ ~j.failed => secret[j.on].access = 0
    /\ j.at = "remove" => secret[j.on] = None
    /\ j.at \in IndexPoints => j.recs \in {{}, {View}}
    /\ j.at = "adopt" =>
        /\ j.recs = {index}
        /\ j.op = "logout" => secret[j.on] = None /\ cached[j.on] = None
Seen(c) == SeenOf(job[c])

(* No refresh token is in use that the endpoint has replaced; one that is  *)
(* stored may be, until the refresh that replaced it has stored its own.   *)
Good(t) == t \notin spent \ dropped
CallGood(c) == job[c].at \in Handling \/ Changing(job[c]) => Good(job[c].creds.refresh)

Replaces(c, a, t) == Refreshes(c, a) /\ Changing(job[c]) /\ job[c].replaces = t
GoodIn(a, t) == Good(t) \/ \E c \in Callers : Replaces(c, a, t)
StoredGood ==
    \A a \in Accounts : GoodIn(a, secret[a].refresh) /\ GoodIn(a, cached[a].refresh)

Settles(a) == Agrees(a) \/ \E c \in Callers : Changing(job[c]) /\ job[c].on = a
AllAgree == \A a \in Accounts : Settles(a)

(* The cached index is the stored one, but for a call that has just        *)
(* written it and is alone, or one that has written it in vain.            *)
Plain(c) == job[c].op \in {"refresh", "status"} /\ migrating # c /\ ~Revives(c)
Alone(c) == \A d \in InStore : d = c
IndexKnown ==
    /\ cachedIndex \in {{}, {View}}
    /\ \/ cachedIndex \in {{}, {index}}
       \/ astray /\ \A c \in Callers : ~At(c, "adopt")
       \/ \E c \in InStore : At(c, "adopt") /\ Alone(c) /\ ~Plain(c)

ApartState ==
    /\ Together
    /\ \A c \in Callers : Seen(c) /\ CallGood(c)
    /\ StoredGood /\ AllAgree /\ IndexKnown
ApartInv == apart => ApartState

-----------------------------------------------------------------------------
(* Who is in the store with another, reads or refreshes another account.   *)
LEMMA NotAlone ==
    ASSUME Together, NEW c \in InStore, ~Alone(c)
    PROVE  \A d \in InStore : Plain(d)
  BY DEF Together, Alone, Plain

LEMMA AloneOrPlain ==
    ASSUME Together, NEW c \in InStore
    PROVE  Alone(c) \/ Plain(c)
  BY NotAlone

LEMMA ViewStays ==
    ASSUME UNCHANGED <<index, cachedIndex>> PROVE View' = View
  BY DEF View

(* A call that is not alone writes the index as everybody finds it.        *)
LEMMA ViewKept ==
    ASSUME cachedIndex \in {{}, {View}}, index' \in {index, View},
           cachedIndex' \in {cachedIndex, {View}}
    PROVE  View' = View /\ cachedIndex' \in {{}, {View'}}
<1>1. cachedIndex = {} => View = index
  BY DEF View
<1>2. CASE cachedIndex' = {}
  BY <1>1, <1>2 DEF View
<1>3. CASE cachedIndex' = {View}
  <2>1. UNION {View} = View
    OBVIOUS
  <2> QED
    BY <1>3, <2>1 DEF View
<1> QED
  BY <1>2, <1>3

(* While somebody who is not alone has yet to adopt it, the index is the   *)
(* stored one.                                                             *)
LEMMA ViewIsIndex ==
    ASSUME IndexKnown, NEW c \in InStore, job[c].at = "adopt", ~Alone(c)
    PROVE  View = index
<1>1. c \in Callers /\ At(c, "adopt")
  BY DEF InStore, At
<1>2. cachedIndex \in {{}, {index}}
  BY <1>1 DEF IndexKnown, Alone
<1>3. UNION {index} = index
  OBVIOUS
<1> QED
  BY <1>2, <1>3 DEF View

InAll(a) == \A records \in {index} \union cachedIndex : a \in records

LEMMA InView ==
    ASSUME IndexKnown, NEW a, InAll(a) PROVE a \in View
  BY DEF IndexKnown, InAll, View

(* What a step does to the store, as far as another call can see it.       *)
Effect(c) ==
    \/ UNCHANGED <<secret, index, cached, cachedIndex>>
    \/ /\ c \in InStore /\ ~Alone(c)
       /\ index' \in {index, View}
       /\ cachedIndex' \in {cachedIndex, {View}}
       /\ \/ UNCHANGED <<secret, cached>>
          \/ /\ Refreshes(c, job[c].acct)
             /\ \A a \in Accounts : a # job[c].acct => secret'[a] = secret[a]
    \/ c \in InStore /\ Alone(c)

LEMMA OthersSeen ==
    ASSUME LockInv, Together, IndexKnown, NEW c \in Callers, NEW d \in Callers \ {c},
           job'[d] = job[d], Seen(d), Effect(c)
    PROVE  Seen(d)'
<1>1. SeenOf(job[d]) /\ Place(d)
  BY DEF Seen, LockInv
<1>2. CASE UNCHANGED <<secret, index, cached, cachedIndex>>
  BY <1>1, <1>2, ViewStays DEF Seen, SeenOf, Changing
<1>3. CASE d \notin InStore
  <2>1. job[d].at \notin StorePoints
    BY <1>3 DEF InStore
  <2>2. ~Changing(job[d])
    BY <2>1 DEF Changing
  <2> QED
    BY <2>1, <2>2 DEF Seen, SeenOf, Changing
<1>4. CASE /\ d \in InStore /\ c \in InStore /\ ~Alone(c)
           /\ index' \in {index, View}
           /\ cachedIndex' \in {cachedIndex, {View}}
           /\ \/ UNCHANGED <<secret, cached>>
              \/ /\ Refreshes(c, job[c].acct)
                 /\ \A a \in Accounts : a # job[c].acct => secret'[a] = secret[a]
  <2>1. Plain(d)
    BY <1>4, NotAlone
  <2>2. /\ job[d].op \in {"refresh", "status"} /\ migrating # d
    BY <2>1 DEF Plain
  <2>3. ASSUME NEW a \in Accounts, Refreshes(d, a) PROVE secret'[a] = secret[a]
    <3>1. SUFFICES ASSUME a = job[c].acct, Refreshes(c, job[c].acct) PROVE FALSE
      BY <1>4
    <3>2. lock[a] = d /\ lock[a] = c
      BY <2>3, <3>1 DEF LockInv, LocksOf
    <3> QED
      BY <3>2
  <2>4. Changing(job[d]) =>
          /\ secret'[job[d].on] = secret[job[d].on]
          /\ job[d].on \in View /\ InAll(job[d].on)
    <3> SUFFICES ASSUME Changing(job[d])
                 PROVE  /\ secret'[job[d].on] = secret[job[d].on]
                        /\ job[d].on \in View /\ InAll(job[d].on)
      OBVIOUS
    <3>1. job[d].op = "refresh" /\ job[d].acct \in Accounts /\ job[d].on = job[d].acct
      BY <1>1, <2>2 DEF Changing, Place, PlaceOf
    <3>2. secret'[job[d].on] = secret[job[d].on]
      BY <2>2, <2>3, <3>1 DEF Refreshes, Changing
    <3>3. InAll(job[d].on)
      BY <2>1, <3>1 DEF Plain, Revives, InAll
    <3> QED
      BY <3>2, <3>3, InView
  <2>5. job[d].at \in {"get", "keep"} => secret'[job[d].acct] = secret[job[d].acct]
    BY <1>1, <2>2, <2>3 DEF Place, PlaceOf, Refreshes
  <2>6. job[d].at \notin SigningOut /\ job[d].op # "logout"
    BY <1>1, <2>2 DEF Place, PlaceOf
  <2>7. View' = View
    BY <1>4, ViewKept DEF IndexKnown
  <2>8. job[d].at = "adopt" => index' = index
    <3>1. ~Alone(d)
      BY <1>4 DEF Alone
    <3> QED
      BY <1>4, <3>1, ViewIsIndex
  <2>9. Changing(job[d]) =>
          job[d].on \in index' /\ \A records \in cachedIndex' : job[d].on \in records
    BY <1>4, <2>4 DEF InAll
  <2> QED
    BY <1>1, <2>4, <2>5, <2>6, <2>7, <2>8, <2>9 DEF Seen, SeenOf, Changing
<1>5. CASE d \in InStore /\ c \in InStore /\ Alone(c)
  BY <1>5 DEF Alone
<1> QED
  BY <1>2, <1>3, <1>4, <1>5 DEF Effect

LEMMA OthersGood ==
    ASSUME NEW c \in Callers, NEW d \in Callers \ {c}, job'[d] = job[d],
           CallGood(d), \A t : Good(t) => Good(t)'
    PROVE  CallGood(d)'
  BY DEF CallGood, Changing

LEMMA GoodStays ==
    ASSUME spent' = spent, dropped \subseteq dropped'
    PROVE  \A t : Good(t) => Good(t)'
  BY DEF Good

GoodNext(t) == t \notin spent' \ dropped'

(* A refresh that goes on still replaces what it replaced.                 *)
GoesOnReplacing(c) ==
    Changing(job[c]) /\ job[c].op = "refresh" /\ migrating # c =>
        \/ /\ Changing(job[c])' /\ job'[c].op = "refresh" /\ migrating' # c
           /\ job'[c].acct = job[c].acct /\ job'[c].replaces = job[c].replaces
        \/ GoodNext(job[c].replaces)
        \/ /\ GoodNext(secret'[job[c].acct].refresh)
           /\ GoodNext(cached'[job[c].acct].refresh)

LEMMA StoredStays ==
    ASSUME LockInv, NEW c \in Callers, OnlyCaller(c), OthersHold(c), StoredGood,
           \A t : Good(t) => Good(t)', GoesOnReplacing(c),
           \A a \in Accounts :
               /\ secret'[a].refresh = secret[a].refresh \/ Good(secret[a].refresh)'
               /\ cached'[a].refresh = cached[a].refresh \/ Good(cached[a].refresh)'
    PROVE  StoredGood'
<1>1. ASSUME NEW a \in Accounts, NEW t, GoodIn(a, t)
      PROVE  \/ GoodIn(a, t)'
             \/ Good(secret[a].refresh)' /\ Good(cached[a].refresh)'
  <2>1. CASE Good(t)
    BY <2>1 DEF GoodIn
  <2>2. ASSUME NEW d \in Callers \ {c}, Replaces(d, a, t)
        PROVE  Replaces(d, a, t)'
    BY <2>2 DEF Replaces, Refreshes, Changing, OnlyCaller, OthersHold
  <2>3. CASE Replaces(c, a, t)
    <3>1. /\ Changing(job[c]) /\ job[c].op = "refresh" /\ migrating # c /\ job[c].acct = a
          /\ job[c].replaces = t
      BY <2>3 DEF Replaces, Refreshes
    <3>2. CASE /\ Changing(job[c])' /\ job'[c].op = "refresh" /\ migrating' # c
               /\ job'[c].acct = job[c].acct /\ job'[c].replaces = job[c].replaces
      <4>1. Replaces(c, a, t)'
        BY <3>1, <3>2 DEF Replaces, Refreshes, Changing
      <4> QED
        BY <4>1 DEF GoodIn
    <3>3. CASE GoodNext(job[c].replaces)
      <4>1. Good(t)'
        BY <3>1, <3>3 DEF Good, GoodNext
      <4> QED
        BY <4>1 DEF GoodIn
    <3>4. CASE /\ GoodNext(secret'[job[c].acct].refresh)
               /\ GoodNext(cached'[job[c].acct].refresh)
      BY <3>1, <3>4 DEF Good, GoodNext
    <3> QED
      BY <3>1, <3>2, <3>3, <3>4 DEF GoesOnReplacing
  <2> QED
    BY <1>1, <2>1, <2>2, <2>3 DEF GoodIn
<1>2. \A a \in Accounts : \A t : Good(t)' => GoodIn(a, t)'
  BY DEF GoodIn
<1> QED
  BY <1>1, <1>2 DEF StoredGood

LEMMA AgreeStays ==
    ASSUME NEW c \in Callers, OnlyCaller(c), AllAgree,
           \A a \in Accounts : Agrees(a) => Agrees(a)' \/ (Changing(job[c])' /\ job'[c].on = a),
           \A a \in Accounts : Changing(job[c]) /\ job[c].on = a
               => Agrees(a)' \/ (Changing(job[c])' /\ job'[c].on = a)
    PROVE  AllAgree'
<1> SUFFICES ASSUME NEW a \in Accounts PROVE Settles(a)'
  BY DEF AllAgree
<1>1. CASE Agrees(a)
  BY <1>1 DEF Settles
<1>2. ASSUME NEW d \in Callers, Changing(job[d]), job[d].on = a PROVE Settles(a)'
  <2>1. CASE d = c
    <3>1. Agrees(a)' \/ (Changing(job[c])' /\ job'[c].on = a)
      BY <1>2, <2>1
    <3> QED
      BY <3>1 DEF Settles
  <2>2. CASE d # c
    BY <1>2, <2>2 DEF Settles, OnlyCaller, Changing
  <2> QED
    BY <2>1, <2>2
<1> QED
  BY <1>1, <1>2 DEF AllAgree, Settles

LEMMA IndexStays ==
    ASSUME LockInv, NEW c \in Callers, OnlyCaller(c), OthersHold(c), IndexKnown, Together',
           job[c].at # "adopt", job'[c].at # "adopt",
           UNCHANGED <<index, cachedIndex, astray>>
    PROVE  IndexKnown'
<1>1. cachedIndex' \in {{}, {View'}}
  BY ViewStays DEF IndexKnown
<1>2. CASE cachedIndex \in {{}, {index}}
  BY <1>1, <1>2 DEF IndexKnown
<1>3. CASE astray /\ \A d \in Callers : ~At(d, "adopt")
  BY <1>1, <1>3 DEF IndexKnown, At, OnlyCaller
<1>4. ASSUME NEW d \in InStore, At(d, "adopt"), Alone(d), ~Plain(d)
      PROVE  IndexKnown'
  <2>1. d \in Callers \ {c} /\ job'[d] = job[d] /\ (migrating' = d <=> migrating = d)
    BY <1>4 DEF InStore, At, OnlyCaller, OthersHold
  <2>2. ~Plain(d)'
    BY <1>4, <2>1 DEF Plain, Revives, Changing
  <2>3. d \in InStore' /\ At(d, "adopt")'
    BY <1>4, <2>1 DEF InStore, At
  <2>4. Alone(d)'
    BY <2>2, <2>3 DEF Together, Alone, Plain
  <2> QED
    BY <1>1, <2>2, <2>3, <2>4 DEF IndexKnown
<1> QED
  BY <1>2, <1>3, <1>4 DEF IndexKnown

-----------------------------------------------------------------------------
(* A step of one call, while the accounts are apart before and after.      *)
StaysGood == \A t : Good(t) => Good(t)'
StoredKeeps ==
    \A a \in Accounts :
        /\ secret'[a].refresh = secret[a].refresh \/ Good(secret[a].refresh)'
        /\ cached'[a].refresh = cached[a].refresh \/ Good(cached[a].refresh)'
Writes(c, a) == Changing(job[c]) /\ job[c].on = a
AgreesOn(c) ==
    \A a \in Accounts : Agrees(a) \/ Writes(c, a) => Agrees(a)' \/ Writes(c, a)'

LEMMA ApartStays ==
    ASSUME LockInv, ApartState, Together', NEW c \in Callers, OnlyCaller(c), OthersHold(c),
           Effect(c), StaysGood, GoesOnReplacing(c), StoredKeeps, AgreesOn(c),
           IndexKnown', Seen(c)', CallGood(c)'
    PROVE  ApartState'
<1>1. ASSUME NEW d \in Callers \ {c} PROVE Seen(d)' /\ CallGood(d)'
  <2>1. job'[d] = job[d] /\ Seen(d) /\ CallGood(d) /\ Together /\ IndexKnown
    BY DEF OnlyCaller, ApartState
  <2>2. Seen(d)'
    BY <2>1, OthersSeen
  <2>3. CallGood(d)'
    BY <2>1, OthersGood DEF StaysGood
  <2> QED
    BY <2>2, <2>3
<1>2. StoredGood'
  BY StoredStays DEF StaysGood, StoredKeeps, ApartState
<1>3. AllAgree'
  BY AgreeStays DEF AgreesOn, Writes, ApartState
<1> QED
  BY <1>1, <1>2, <1>3 DEF ApartState

(* A step that writes nothing into the store.                              *)
StillWrites(c) ==
    Changing(job[c]) => \/ Changing(job[c])' /\ job'[c].on = job[c].on
                        \/ job[c].on \in torn'

LEMMA QuietApart ==
    ASSUME LockInv, ApartState, Together', NEW c \in Callers, OnlyCaller(c), OthersHold(c),
           job[c].at # "adopt", job'[c].at # "adopt",
           UNCHANGED <<secret, index, cached, cachedIndex, astray>>,
           StaysGood, GoesOnReplacing(c), torn \subseteq torn', StillWrites(c),
           Seen(c)', CallGood(c)'
    PROVE  ApartState'
<1>1. Effect(c)
  BY DEF Effect
<1>2. StoredKeeps
  BY DEF StoredKeeps
<1>3. \A a \in Accounts : Agrees(a) => Agrees(a)'
  BY DEF Agrees
<1>4. ASSUME NEW a \in Accounts, Writes(c, a) PROVE Agrees(a)' \/ Writes(c, a)'
  <2>1. CASE a \in torn'
    BY <2>1 DEF Agrees
  <2>2. CASE Changing(job[c])' /\ job'[c].on = job[c].on
    BY <1>4, <2>2 DEF Writes
  <2> QED
    BY <1>4, <2>1, <2>2 DEF StillWrites, Writes
<1>5. AgreesOn(c)
  BY <1>3, <1>4 DEF AgreesOn
<1>6. IndexKnown'
  BY IndexStays DEF ApartState
<1> QED
  BY <1>1, <1>2, <1>5, <1>6, ApartStays

(* Points where a call has nothing in its hands.                           *)
LEMMA PlainSeen ==
    ASSUME NEW c \in Callers,
           \/ job'[c].at \in {"idle", "ensure", "migrate", "clean", "lock", "read", "url",
                              "accept", "erase", "deleted"}
           \/ job'[c].at \in {"resolve", "status"} /\ job'[c].recs = {},
           job'[c].at = "deleted" => cached'[job'[c].on] = None
    PROVE  Seen(c)' /\ CallGood(c)' /\ job'[c].at # "adopt"
<1>1. ~Changing(job[c])'
  BY DEF Changing
<1> QED
  BY <1>1 DEF Seen, SeenOf, CallGood

LEMMA NotWriting ==
    ASSUME NEW c \in Callers, ~Changing(job[c])
    PROVE  GoesOnReplacing(c) /\ StillWrites(c)
  BY DEF GoesOnReplacing, StillWrites

(* A call that has nothing in its hands, before and after.                 *)
LEMMA PlainApart ==
    ASSUME LockInv, ApartState, Together', NEW c \in Callers, OnlyCaller(c), OthersHold(c),
           ~Changing(job[c]), job[c].at # "adopt", job'[c].at # "adopt",
           UNCHANGED <<storeVars, serverVars, pastVars>>, Seen(c)', CallGood(c)'
    PROVE  ApartState'
<1>1. StaysGood /\ torn \subseteq torn'
  BY DEF StaysGood, Good, serverVars, pastVars
<1> QED
  BY <1>1, NotWriting, QuietApart DEF storeVars, pastVars

LEMMA CallsApart ==
    ASSUME LockInv, ApartState, Together', NEW c \in Callers, Calls(c)
    PROVE  ApartState'
<1>1. /\ OnlyCaller(c) /\ job'[c].at \in {"ensure", "erase", "url"}
      /\ job[c].at = "idle"
      /\ UNCHANGED <<storeVars, migrated, migrating, lock, serverVars, faults, pastVars>>
  BY CallsMove
<1>2. OthersHold(c) /\ ~Changing(job[c])
  BY <1>1 DEF OthersHold, Changing
<1> QED
  BY <1>1, <1>2, PlainSeen, PlainApart

LEMMA WaitApart ==
    ASSUME LockInv, ApartState, Together', NEW c \in Callers, Wait(c)
    PROVE  ApartState'
<1>1. job[c].at = "url" /\ Goto(c, "accept") /\ OnlyJob /\ "accept" \in Points
  BY DEF Wait, At, Points
<1>2. OnlyCaller(c) /\ job'[c].at = "accept"
  BY <1>1, GotoMoves
<1>3. /\ OthersHold(c) /\ ~Changing(job[c])
      /\ UNCHANGED <<storeVars, serverVars, pastVars>>
  BY <1>1 DEF OnlyJob, OnlyCall, Held, OthersHold, Changing
<1> QED
  BY <1>1, <1>2, <1>3, PlainSeen, PlainApart

LEMMA IdleSeen ==
    ASSUME NEW c \in Callers, Ended(c)
    PROVE  OnlyCaller(c) /\ Seen(c)' /\ CallGood(c)' /\ job'[c].at = "idle"
<1>1. OnlyCaller(c) /\ job'[c].at = "idle"
  BY DEF Ended, Idle
<1> QED
  BY <1>1, PlainSeen

LEMMA DropApart ==
    ASSUME LockInv, ApartState, Together', NEW c \in Callers, Drop(c)
    PROVE  ApartState'
<1>1. Ended(c) /\ OthersHold(c) /\ job[c].at \in {"url", "accept", "ensure"}
  BY ReturnEnds, HeldStays DEF Drop
<1>2. UNCHANGED <<storeVars, serverVars, dropped, torn, astray>>
  BY DEF Drop
<1>3. StaysGood /\ torn \subseteq torn'
  BY <1>2 DEF StaysGood, Good, serverVars
<1>4. ~Changing(job[c])
  BY <1>1 DEF Changing
<1> QED
  BY <1>1, <1>2, <1>3, <1>4, IdleSeen, NotWriting, QuietApart DEF storeVars

(* An error: what was replaced may be lost, what was written is torn.      *)
LEMMA GoodZero ==
    ASSUME LockInv, NEW owner, Owned(owner) PROVE Good(0)
<1>1. spent \subseteq 1..grants /\ grants \in Nat
  BY DEF Owned, GrantState, LockInv, RestTypeOK
<1> QED
  BY <1>1 DEF Good

LEMMA GiveUpMeans ==
    ASSUME LockInv, NEW owner, Owned(owner), ApartState, NEW c \in Callers, GiveUp(c)
    PROVE  /\ Ended(c) /\ OthersHold(c) /\ spent' = spent
           /\ OnlyCaller(c) /\ Seen(c)' /\ CallGood(c)' /\ job'[c].at = "idle"
           /\ StaysGood /\ GoesOnReplacing(c) /\ torn \subseteq torn' /\ StillWrites(c)
           /\ Changing(job[c]) => job[c].on \in torn'
<1>1. Ended(c) /\ OthersHold(c)
  BY ReturnEnds, ReturnHolds DEF GiveUp, Return
<1>2. /\ UNCHANGED serverVars
      /\ dropped' = dropped \union ({job[c].replaces} \ {0})
      /\ torn' = IF Changing(job[c]) THEN torn \union {job[c].on} ELSE torn
  BY DEF GiveUp
<1>3. StaysGood /\ spent' = spent
  BY <1>2 DEF StaysGood, Good, serverVars
<1>4. GoodNext(job[c].replaces)
  <2>1. CASE job[c].replaces = 0
    BY <1>2, <2>1, GoodZero DEF Good, GoodNext, serverVars
  <2>2. CASE job[c].replaces # 0
    BY <1>2, <2>2 DEF GoodNext
  <2> QED
    BY <2>1, <2>2
<1>5. GoesOnReplacing(c)
  BY <1>4 DEF GoesOnReplacing
<1>6. torn \subseteq torn' /\ StillWrites(c) /\ (Changing(job[c]) => job[c].on \in torn')
  BY <1>2 DEF StillWrites
<1> QED
  BY <1>1, <1>3, <1>5, <1>6, IdleSeen

LEMMA FailApart ==
    ASSUME LockInv, NEW owner, Owned(owner), ApartState, Together', NEW c \in Callers,
           GiveUp(c), job[c].at # "adopt",
           UNCHANGED <<secret, index, cached, cachedIndex, astray>>
    PROVE  ApartState'
<1>1. /\ OthersHold(c) /\ OnlyCaller(c) /\ Seen(c)' /\ CallGood(c)' /\ job'[c].at # "adopt"
      /\ StaysGood /\ GoesOnReplacing(c) /\ torn \subseteq torn' /\ StillWrites(c)
  BY GiveUpMeans
<1> QED
  BY <1>1, QuietApart

LEMMA StatusApart ==
    ASSUME LockInv, ApartState, Together', NEW c \in Callers, Status(c)
    PROVE  ApartState'
<1>1. Ended(c) /\ OthersHold(c) /\ job[c].at = "status"
  BY ReturnEnds, ReturnHolds DEF Status, Return, At
<1>2. UNCHANGED <<storeVars, serverVars, pastVars>>
  BY DEF Status
<1>3. ~Changing(job[c])
  BY <1>1 DEF Changing
<1> QED
  BY <1>1, <1>2, <1>3, IdleSeen, PlainApart

(* The migration.                                                          *)
LEMMA EnsureApart ==
    ASSUME LockInv, NEW owner, Owned(owner), ApartState, Together', NEW c \in Callers, Ensure(c)
    PROVE  ApartState'
<1>1. /\ OnlyCaller(c) /\ OthersHold(c) /\ job[c].at = "ensure"
      /\ job'[c].recs = job[c].recs
      /\ job'[c].at \in {"resolve", "status", "migrate"}
      /\ UNCHANGED <<storeVars, serverVars, pastVars>>
  BY EnsureMoves
<1>2. job[c].recs = {} /\ ~Changing(job[c])
  BY <1>1, KnowsNow DEF RecsOf, Changing
<1>3. Seen(c)' /\ CallGood(c)'
  BY <1>1, <1>2, PlainSeen
<1> QED
  BY <1>1, <1>2, <1>3, PlainApart

LEMMA MigrateApart ==
    ASSUME LockInv, NEW owner, Owned(owner), ApartState, Together', NEW c \in Callers, Migrate(c)
    PROVE  ApartState'
<1>1. /\ OnlyCaller(c) /\ OthersHold(c) /\ job[c].at = "migrate"
      /\ UNCHANGED <<storeVars, serverVars, pastVars>>
      /\ \/ /\ Whole(legacy) /\ job'[c].at = "set"
            /\ job'[c].key = 1 /\ job'[c].creds = legacy
         \/ /\ job'[c].at \in {"resolve", "status"}
            /\ job'[c].recs = job[c].recs
  BY MigrateMoves
<1>2. job[c].recs = {} /\ ~Changing(job[c])
  BY <1>1, KnowsNow DEF RecsOf, Changing
<1>3. CASE job'[c].at \in {"resolve", "status"} /\ job'[c].recs = job[c].recs
  <2>1. Seen(c)' /\ CallGood(c)'
    BY <1>2, <1>3, PlainSeen
  <2> QED
    BY <1>1, <1>2, <2>1, PlainApart
<1>4. CASE /\ Whole(legacy) /\ job'[c].at = "set"
           /\ job'[c].key = 1 /\ job'[c].creds = legacy
  <2>1. spent = {} /\ spent' = spent
    BY <1>1, <1>4 DEF Owned, GrantState, serverVars
  <2>2. CallGood(c)'
    BY <2>1 DEF CallGood, Good
  <2>3. Seen(c)'
    BY <1>4 DEF Seen, SeenOf, Changing
  <2> QED
    BY <1>1, <1>2, <2>2, <2>3, PlainApart
<1> QED
  BY <1>1, <1>3, <1>4

LEMMA CleanApart ==
    ASSUME LockInv, NEW owner, Owned(owner), ApartState, Together', NEW c \in Callers, Clean(c)
    PROVE  ApartState'
<1>1. /\ OnlyCaller(c) /\ OthersHold(c) /\ job[c].at = "clean"
      /\ job'[c].recs = job[c].recs
      /\ UNCHANGED <<secret, index, cached, cachedIndex, serverVars, pastVars>>
      /\ job'[c].at \in {"clean", "resolve", "status"}
  BY CleanMoves
<1>2. job[c].recs = {} /\ ~Changing(job[c])
  BY <1>1, KnowsNow DEF RecsOf, Changing
<1>3. Seen(c)' /\ CallGood(c)'
  BY <1>1, <1>2, PlainSeen
<1>4. StaysGood /\ torn \subseteq torn'
  BY <1>1 DEF StaysGood, Good, serverVars, pastVars
<1> QED
  BY <1>1, <1>2, <1>3, <1>4, NotWriting, QuietApart DEF pastVars

(* The index.                                                              *)
LEMMA SameSeen ==
    ASSUME NEW c \in Callers, Seen(c), CallGood(c), UNCHANGED <<secret, index, cached>>,
           spent' = spent, dropped' = dropped,
           job'[c].at = job[c].at, job[c].at \in IndexPoints,
           job'[c].op = job[c].op, job'[c].acct = job[c].acct, job'[c].on = job[c].on,
           job'[c].key = job[c].key, job'[c].creds = job[c].creds,
           job'[c].failed = job[c].failed,
           job'[c].recs \in {{}, {View'}}
    PROVE  Seen(c)' /\ CallGood(c)'
<1> DEFINE i == job[c]
<1> DEFINE j == job'[c]
<1>1. SeenOf(i) /\ (i.at \in Handling \/ Changing(i) => Good(i.creds.refresh))
  BY DEF Seen, CallGood
<1>2. /\ j.at = i.at /\ i.at \in IndexPoints /\ j.op = i.op /\ j.acct = i.acct
      /\ j.on = i.on /\ j.key = i.key /\ j.creds = i.creds /\ j.failed = i.failed
      /\ j.recs \in {{}, {View'}}
  OBVIOUS
<1>3. SeenOf(job[c])' /\ (j.at \in Handling \/ Changing(j) => GoodNext(j.creds.refresh))
  <2> HIDE DEF i
  <2>1. Changing(job[c])' <=> Changing(i)
    BY <1>2 DEF Changing
  <2>2. Changing(j) <=> Changing(i)
    BY <1>2 DEF Changing
  <2>3. SeenOf(job[c])'
    BY <1>1, <1>2, <2>1 DEF SeenOf
  <2> QED
    BY <1>1, <1>2, <2>2, <2>3 DEF Good, GoodNext
<1> QED
  BY <1>3 DEF Seen, CallGood, Good, GoodNext, Changing

LEMMA ReadIndexApart ==
    ASSUME LockInv, ApartState, Together', NEW c \in Callers, ReadIndex(c)
    PROVE  ApartState'
<1>1. /\ OnlyCaller(c) /\ job'[c].at = job[c].at
      /\ job'[c].op = job[c].op /\ job'[c].acct = job[c].acct /\ job'[c].on = job[c].on
      /\ job'[c].key = job[c].key /\ job'[c].creds = job[c].creds
      /\ job'[c].replaces = job[c].replaces /\ job'[c].failed = job[c].failed
      /\ job'[c].recs = IF cachedIndex # {} THEN cachedIndex ELSE {index}
  BY ReadIndexMoves
<1>2. job[c].at \in IndexPoints /\ OnlyJob
  BY DEF ReadIndex
<1>3. /\ UNCHANGED <<storeVars, serverVars, pastVars, Held>> /\ OthersHold(c)
  BY <1>2, HeldStays DEF OnlyJob, OnlyCall
<1>4. job'[c].recs \in {{}, {View'}}
  <2>1. cachedIndex \in {{}, {View}} /\ View' = View
    BY <1>3, ViewStays DEF ApartState, IndexKnown, storeVars
  <2>2. cachedIndex = {} => View = index
    BY DEF View
  <2> QED
    BY <1>1, <2>1, <2>2
<1>5. Seen(c)' /\ CallGood(c)'
  <2>1. Seen(c) /\ CallGood(c)
    BY DEF ApartState
  <2>2. UNCHANGED <<secret, index, cached>> /\ spent' = spent /\ dropped' = dropped
    BY <1>3 DEF storeVars, serverVars, pastVars
  <2> QED
    BY <1>1, <1>2, <1>4, <2>1, <2>2, SameSeen
<1>6. StaysGood /\ torn \subseteq torn'
  BY <1>3 DEF StaysGood, Good, serverVars, pastVars
<1>7. GoesOnReplacing(c) /\ StillWrites(c)
  BY <1>1, <1>3 DEF GoesOnReplacing, StillWrites, Changing, Held
<1> QED
  BY <1>1, <1>2, <1>3, <1>5, <1>6, <1>7, QuietApart DEF storeVars, pastVars

LEMMA FillIndexApart ==
    ASSUME LockInv, NEW owner, Owned(owner), ApartState, Together', NEW c \in Callers,
           FillIndex(c)
    PROVE  ApartState'
<1>1. /\ OnlyCaller(c) /\ job'[c].at = job[c].at
      /\ job'[c].op = job[c].op /\ job'[c].acct = job[c].acct /\ job'[c].on = job[c].on
      /\ job'[c].key = job[c].key /\ job'[c].creds = job[c].creds
      /\ job'[c].replaces = job[c].replaces /\ job'[c].failed = job[c].failed
      /\ job'[c].recs = job[c].recs
  BY FillIndexMoves
<1>2. /\ job[c].fill /\ cachedIndex' = job[c].recs
      /\ UNCHANGED <<secret, index, cached, serverVars, pastVars, Held>>
  BY DEF FillIndex
<1>3. job[c].at \in IndexPoints /\ job[c].recs # {} /\ c \in InStore
  BY <1>2, KnowsNow DEF RecsOf, InStore
<1>4. Seen(c) /\ CallGood(c) /\ IndexKnown /\ cachedIndex' = {View}
  BY <1>2, <1>3 DEF ApartState, Seen, SeenOf
<1>5. View' = View /\ cachedIndex' \in {{}, {View'}}
  BY <1>2, <1>4, ViewKept DEF IndexKnown
<1>6. Seen(c)' /\ CallGood(c)'
  <2>1. spent' = spent /\ dropped' = dropped /\ job'[c].recs \in {{}, {View'}}
    BY <1>1, <1>2, <1>4, <1>5 DEF serverVars, pastVars
  <2> QED
    BY <1>1, <1>2, <1>3, <1>4, <2>1, SameSeen
<1>7. IndexKnown'
  <2>1. CASE cachedIndex \in {{}, {index}}
    <3>1. View = index
      <4>1. UNION {index} = index
        OBVIOUS
      <4> QED
        BY <2>1, <4>1 DEF View
    <3> QED
      BY <1>2, <1>4, <1>5, <3>1 DEF IndexKnown
  <2>2. CASE astray /\ \A d \in Callers : ~At(d, "adopt")
    <3>1. astray' = astray /\ \A d \in Callers : ~At(d, "adopt")'
      BY <1>1, <1>2, <2>2 DEF At, OnlyCaller, pastVars
    <3> QED
      BY <1>5, <2>2, <3>1 DEF IndexKnown
  <2>3. ~ \E d \in InStore : At(d, "adopt") /\ Alone(d) /\ ~Plain(d)
    BY <1>3 DEF Alone, At
  <2> QED
    BY <1>4, <2>1, <2>2, <2>3 DEF IndexKnown
<1>8. StaysGood /\ StoredKeeps /\ Effect(c)
  BY <1>2, <1>3, <1>4 DEF StaysGood, StoredKeeps, Effect, Good, serverVars, pastVars
<1>9. GoesOnReplacing(c) /\ OthersHold(c)
  BY <1>1, <1>2, HeldStays DEF GoesOnReplacing, Changing, Held
<1>10. AgreesOn(c)
  <2>1. ASSUME NEW a \in Accounts, Agrees(a) PROVE Agrees(a)'
    <3>1. InAll(a) => InAll(a)'
      BY <1>2, <1>4, InView DEF InAll
    <3> QED
      BY <1>2, <2>1, <3>1 DEF Agrees, InAll, pastVars
  <2>2. \A a \in Accounts : Writes(c, a) => Writes(c, a)'
    BY <1>1 DEF Writes, Changing
  <2> QED
    BY <2>1, <2>2 DEF AgreesOn
<1> QED
  BY <1>1, <1>6, <1>7, <1>8, <1>9, <1>10, ApartStays

LEMMA ResolveApart ==
    ASSUME LockInv, NEW owner, Owned(owner), ApartState, Together', NEW c \in Callers, Resolve(c)
    PROVE  ApartState'
<1>1. job[c].at = "resolve"
  BY DEF Resolve, At
<1>2. CASE Fail(c)
  BY <1>1, <1>2, FailApart DEF Fail, AsItWas, storeVars
<1>3. CASE /\ \E a \in Selected(c) :
                job' = [job EXCEPT ![c].at = "lock", ![c].acct = a, ![c].recs = {}]
           /\ OnlyJob
  <2>1. PICK a \in Selected(c) :
                job' = [job EXCEPT ![c].at = "lock", ![c].acct = a, ![c].recs = {}]
    BY <1>3
  <2>2. a \in Accounts
    <3>1. job[c].recs \in SUBSET SUBSET Accounts
      BY JobFacts
    <3> QED
      BY <3>1 DEF Selected, Records
  <2>3. OnlyCaller(c) /\ job'[c].at = "lock"
    BY <2>1, <2>2, ResolveMoves
  <2>4. UNCHANGED <<storeVars, serverVars, pastVars>> /\ OthersHold(c) /\ ~Changing(job[c])
    BY <1>1, <1>3, HeldStays DEF OnlyJob, OnlyCall, Held, OthersHold, Changing
  <2> QED
    BY <1>1, <2>3, <2>4, PlainSeen, PlainApart
<1> QED
  BY <1>2, <1>3 DEF Resolve

(* A refresh.                                                              *)
LEMMA AcquireApart ==
    ASSUME LockInv, ApartState, Together', NEW c \in Callers, Acquire(c)
    PROVE  ApartState'
<1>1. /\ job[c].at = "lock" /\ Goto(c, "read") /\ "read" \in Points
      /\ UNCHANGED <<storeVars, migrating, serverVars, pastVars>>
  BY DEF Acquire, Enter, At, Points
<1>2. OnlyCaller(c) /\ job'[c].at = "read"
  BY <1>1, GotoMoves
<1>3. OthersHold(c) /\ ~Changing(job[c])
  BY <1>1 DEF OthersHold, Changing
<1> QED
  BY <1>1, <1>2, <1>3, PlainSeen, PlainApart

(* What is stored under the lock of a call that writes nothing is good.    *)
LEMMA HeldGood ==
    ASSUME LockInv, StoredGood, NEW c \in Callers, NEW a \in Accounts, Refreshes(c, a),
           ~Changing(job[c])
    PROVE  Good(secret[a].refresh) /\ Good(cached[a].refresh)
<1>1. ASSUME NEW d \in Callers, NEW t, Replaces(d, a, t) PROVE FALSE
  <2>1. Refreshes(d, a) /\ Changing(job[d])
    BY <1>1 DEF Replaces
  <2>2. lock[a] = d /\ lock[a] = c
    BY <2>1 DEF LockInv, LocksOf
  <2> QED
    BY <2>1, <2>2
<1> QED
  BY <1>1 DEF StoredGood, GoodIn

LEMMA LookupApart ==
    ASSUME LockInv, NEW owner, Owned(owner), ApartState, Together', NEW c \in Callers, Lookup(c)
    PROVE  ApartState'
<1>1. /\ job[c].at = "read" /\ job[c].acct \in Accounts /\ Refreshes(c, job[c].acct)
      /\ UNCHANGED <<storeVars, Held, serverVars, pastVars>>
  BY JobFacts DEF Lookup, At, OnlyJob, OnlyCall, Place, PlaceOf, Refreshes
<1>2. /\ OnlyCaller(c)
      /\ \/ /\ job'[c].at = "get" /\ job'[c].key = 1 /\ job'[c].creds = None
         \/ /\ job'[c].at = "decide" /\ job'[c].creds = cached[job[c].acct]
  BY LookupMoves
<1>3. ~Changing(job[c]) /\ OthersHold(c)
  BY <1>1, HeldStays DEF Changing
<1>4. Good(job'[c].creds.refresh)
  <2>1. None.refresh = 0
    BY DEF None, From, Kinds
  <2> QED
    BY <1>1, <1>2, <1>3, <2>1, HeldGood, GoodZero DEF ApartState
<1>5. CallGood(c)'
  BY <1>1, <1>4 DEF CallGood, Good, serverVars, pastVars
<1>6. Seen(c)'
  BY <1>2 DEF Seen, SeenOf, Changing
<1> QED
  BY <1>1, <1>2, <1>3, <1>5, <1>6, PlainApart

LEMMA GetApart ==
    ASSUME LockInv, NEW owner, Owned(owner), ApartState, Together', NEW c \in Callers, Get(c)
    PROVE  ApartState'
<1>1. /\ job[c].at = "get" /\ job[c].acct \in Accounts /\ Refreshes(c, job[c].acct)
      /\ job[c].creds \in Credentials
      /\ job[c].key = 1 \/ job[c].key = 2
  <2>1. job[c].at = "get"
    BY DEF Get, At
  <2>2. job[c].acct \in Accounts /\ Refreshes(c, job[c].acct)
    BY <2>1, JobFacts DEF Place, PlaceOf, Refreshes
  <2> QED
    BY <2>1, <2>2, JobFacts
<1>2. CASE Fail(c)
  BY <1>1, <1>2, FailApart DEF Fail, AsItWas, storeVars
<1>3. CASE job' = [job EXCEPT ![c] = Got(c)] /\ OnlyJob
  <2>1. /\ UNCHANGED <<storeVars, Held, serverVars, pastVars>>
        /\ ~Changing(job[c]) /\ OthersHold(c)
    BY <1>1, <1>3, HeldStays DEF OnlyJob, OnlyCall, Held, OthersHold, Changing
  <2>2. /\ Got(c) \in Jobs /\ Got(c).acct = job[c].acct
        /\ job[c].key = 1 => /\ Got(c).at = "get" /\ Got(c).key = 2
                             /\ Got(c).creds = [job[c].creds EXCEPT !.access = secret[job[c].acct].access]
        /\ job[c].key = 2 => /\ Got(c).at = "keep" /\ Got(c).key = 1
                             /\ Got(c).creds = [job[c].creds EXCEPT !.refresh = secret[job[c].acct].refresh]
    BY <1>1, GetMoves
  <2>3. OnlyCaller(c) /\ job'[c] = Got(c)
    <3>1. Moves(c, Got(c))
      BY <1>3 DEF Moves
    <3> QED
      BY <2>2, <3>1, PutMoves
  <2>4. secret[job[c].acct] \in Credentials
    BY <1>1 DEF LockInv, RestTypeOK
  <2>5. Good(secret[job[c].acct].refresh) /\ Good(0)
    BY <1>1, <2>1, HeldGood, GoodZero DEF ApartState
  <2>6. job[c].creds.refresh = 0 /\ (job[c].key = 2 => job[c].creds.access = secret[job[c].acct].access)
    <3>1. Seen(c)
      BY DEF ApartState
    <3>2. job[c].creds.refresh = 0
      BY <1>1, KnowsNow DEF CredsOf
    <3> QED
      BY <1>1, <3>1, <3>2 DEF Seen, SeenOf
  <2>7. CASE job[c].key = 1
    <3>1. /\ job'[c].at = "get" /\ job'[c].key = 2 /\ job'[c].acct = job[c].acct
          /\ job'[c].creds.refresh = 0
          /\ job'[c].creds.access = secret[job[c].acct].access
      BY <1>1, <2>2, <2>3, <2>6, <2>7 DEF Credentials, Kinds
    <3>2. CallGood(c)'
      BY <2>1, <2>5, <3>1 DEF CallGood, Good, serverVars, pastVars
    <3>3. Seen(c)'
      BY <2>1, <3>1 DEF Seen, SeenOf, Changing, storeVars
    <3> QED
      BY <1>1, <2>1, <2>3, <3>1, <3>2, <3>3, PlainApart
  <2>8. CASE job[c].key = 2
    <3>1. /\ job'[c].at = "keep" /\ job'[c].acct = job[c].acct
          /\ job'[c].creds = [job[c].creds EXCEPT !.refresh = secret[job[c].acct].refresh]
      BY <2>2, <2>3, <2>8
    <3>2. job'[c].creds = secret[job[c].acct]
      BY <1>1, <2>4, <2>6, <2>8, <3>1 DEF Credentials, Kinds
    <3>3. CallGood(c)'
      BY <2>1, <2>5, <3>1, <3>2 DEF CallGood, Good, serverVars, pastVars
    <3>4. Seen(c)'
      BY <2>1, <3>1, <3>2 DEF Seen, SeenOf, Changing, storeVars
    <3> QED
      BY <1>1, <2>1, <2>3, <3>1, <3>3, <3>4, PlainApart
  <2> QED
    BY <1>1, <2>7, <2>8
<1> QED
  BY <1>2, <1>3 DEF Get, Got

(* Who is in the store and refreshes an account writes that one only.      *)
LEMMA RefreshEffect ==
    ASSUME Together, NEW c \in InStore, Alone(c) \/ Refreshes(c, job[c].acct),
           Alone(c) \/ (index' \in {index, View} /\ cachedIndex' \in {cachedIndex, {View}}),
           Alone(c) \/ \A a \in Accounts : a # job[c].acct => secret'[a] = secret[a]
    PROVE  Effect(c)
  BY DEF Effect

LEMMA KeepApart ==
    ASSUME LockInv, NEW owner, Owned(owner), ApartState, Together', NEW c \in Callers, Keep(c)
    PROVE  ApartState'
<1>1. /\ job[c].at = "keep" /\ job[c].acct \in Accounts /\ Refreshes(c, job[c].acct)
      /\ cached' = [cached EXCEPT ![job[c].acct] = job[c].creds]
      /\ Goto(c, "decide") /\ "decide" \in Points
      /\ UNCHANGED <<secret, index, cachedIndex, Held, serverVars, pastVars>>
  BY JobFacts DEF Keep, At, Place, PlaceOf, Points, Refreshes
<1>2. OnlyCaller(c) /\ job'[c].at = "decide" /\ job'[c].creds = job[c].creds
  BY <1>1, GotoMoves
<1>3. ~Changing(job[c]) /\ ~Changing(job[c])' /\ OthersHold(c) /\ c \in InStore
  BY <1>1, <1>2, HeldStays DEF Changing, InStore
<1>4. job[c].creds = secret[job[c].acct] /\ Good(job[c].creds.refresh)
  BY <1>1 DEF ApartState, Seen, SeenOf, CallGood
<1>5. StaysGood
  BY <1>1 DEF StaysGood, Good, serverVars, pastVars
<1>6. Effect(c)
  BY <1>1, <1>3, RefreshEffect DEF ApartState
<1>7. cached \in [Accounts -> Credentials]
  BY DEF LockInv, RestTypeOK
<1>8. StoredKeeps
  BY <1>1, <1>4, <1>5, <1>7 DEF StoredKeeps, StaysGood
<1>9. AgreesOn(c)
  <2>1. ASSUME NEW a \in Accounts, Agrees(a) PROVE Agrees(a)'
    <3>1. cached'[a] \in {cached[a], secret[a]}
      BY <1>1, <1>4, <1>7
    <3> QED
      BY <1>1, <2>1, <3>1 DEF Agrees, pastVars
  <2> QED
    BY <1>3, <2>1 DEF AgreesOn, Writes
<1>10. Seen(c)' /\ CallGood(c)'
  BY <1>1, <1>2, <1>3, <1>4, <1>5 DEF Seen, SeenOf, CallGood, Good, serverVars, pastVars
<1>11. IndexKnown'
  BY <1>1, <1>2, <1>3, IndexStays DEF ApartState, pastVars
<1> QED
  BY <1>2, <1>3, <1>5, <1>6, <1>8, <1>9, <1>10, <1>11, NotWriting, ApartStays

LEMMA DecideApart ==
    ASSUME LockInv, ApartState, Together', NEW c \in Callers, Decide(c)
    PROVE  ApartState'
<1>1. job[c].at = "decide" /\ ~Changing(job[c])
  BY DEF Decide, At, Changing
<1>2. CASE /\ Return(c)
           /\ UNCHANGED <<storeVars, migrated, serverVars, calls, faults, pastVars>>
  <2>1. Ended(c) /\ OthersHold(c)
    BY <1>2, ReturnEnds, ReturnHolds DEF Return
  <2> QED
    BY <1>1, <1>2, <2>1, IdleSeen, PlainApart
<1>3. CASE Goto(c, "sent") /\ OnlyJob
  <2>1. /\ "sent" \in Points /\ OthersHold(c)
        /\ UNCHANGED <<storeVars, serverVars, pastVars>>
    BY <1>3, HeldStays DEF Points, OnlyJob, OnlyCall, Held, OthersHold
  <2>2. OnlyCaller(c) /\ job'[c].at = "sent" /\ job'[c].creds = job[c].creds
    BY <1>3, <2>1, GotoMoves
  <2>3. Good(job[c].creds.refresh)
    BY <1>1 DEF ApartState, CallGood
  <2>4. Seen(c)' /\ CallGood(c)'
    BY <2>1, <2>2, <2>3 DEF Seen, SeenOf, CallGood, Good, Changing, serverVars, pastVars
  <2> QED
    BY <1>1, <2>1, <2>2, <2>4, PlainApart
<1> QED
  BY <1>2, <1>3 DEF Decide

(* New grants.                                                             *)
LEMMA FreshIsGood ==
    ASSUME LockInv, NEW owner, Owned(owner), spent' \subseteq spent \union 1..grants
    PROVE  GoodNext(grants + 1)
<1>1. grants \in Nat /\ spent \subseteq 1..grants
  BY DEF Owned, GrantState, LockInv, RestTypeOK
<1>2. grants + 1 \notin 1..grants
  BY <1>1
<1> QED
  BY <1>1, <1>2 DEF GoodNext

LEMMA CompleteApart ==
    ASSUME LockInv, NEW owner, Owned(owner), ApartState, Together', NEW c \in Callers,
           Complete(c)
    PROVE  ApartState'
<1>1. /\ OnlyCaller(c) /\ job'[c].at = "set" /\ job'[c].key = 1
      /\ job'[c].creds = From(grants + 1) /\ job[c].at = "accept"
      /\ UNCHANGED <<storeVars, Held, spent, pastVars>>
  BY CompleteMoves
<1>2. job'[c].creds.refresh = grants + 1
  BY <1>1 DEF From, Kinds
<1>3. CallGood(c)'
  BY <1>1, <1>2, FreshIsGood DEF CallGood, Good, GoodNext
<1>4. Seen(c)'
  BY <1>1 DEF Seen, SeenOf, Changing
<1>5. StaysGood /\ torn \subseteq torn' /\ ~Changing(job[c]) /\ OthersHold(c)
  BY <1>1, HeldStays DEF StaysGood, Good, pastVars, Changing
<1> QED
  BY <1>1, <1>3, <1>4, <1>5, NotWriting, QuietApart DEF storeVars, pastVars

(* An answer replaces the token that was sent; nobody else uses that token *)
(* and from now on it counts as replaced.                                  *)
LEMMA SentIsOurs ==
    ASSUME LockInv, NEW owner, Owned(owner), Together', NEW c \in Callers,
           job[c].at = "sent", OnlyCaller(c), OthersHold(c),
           job'[c].at = "set", NEW d \in Callers \ {c},
           job[d].at \in Handling \/ Changing(job[d])
    PROVE  job[d].creds.refresh # job[c].creds.refresh
<1> SUFFICES ASSUME job[d].creds.refresh = job[c].creds.refresh PROVE FALSE
  OBVIOUS
<1>1. /\ job[c].op = "refresh" /\ job[c].acct \in Accounts /\ migrating # c
      /\ Place(d) /\ Place(c)
  BY JobFacts DEF Place, PlaceOf
<1>2. Refreshes(c, job[c].acct)
  BY <1>1 DEF Refreshes
<1>3. /\ Whole(job[c].creds)
      /\ OwnedBy(owner, job[c].acct, job[c].creds.refresh)
      /\ job[d].at \in Handling => OwnedBy(owner, job[d].acct, job[d].creds.refresh)
      /\ Changing(job[d]) => OwnedBy(owner, job[d].on, job[d].creds.refresh)
  <2>1. CredsOf(owner, c, job[c]) /\ CredsOf(owner, d, job[d])
    BY KnowsNow
  <2> QED
    BY <2>1 DEF CredsOf
<1>4. /\ job[d].at \in Handling => job[d].acct = job[c].acct
      /\ Changing(job[d]) => job[d].on = job[c].acct
  BY <1>3 DEF OwnedBy, Whole
<1>5. ~Refreshes(d, job[c].acct)
  <2> SUFFICES ASSUME Refreshes(d, job[c].acct) PROVE FALSE
    OBVIOUS
  <2>1. lock[job[c].acct] = d /\ lock[job[c].acct] = c
    BY <1>1, <1>2 DEF LockInv, LocksOf
  <2> QED
    BY <2>1
<1>6. CASE job[d].at \in Handling
  BY <1>1, <1>4, <1>5, <1>6 DEF Place, PlaceOf, Refreshes
<1>7. CASE Changing(job[d])
  <2>1. job[d].op # "refresh" \/ migrating = d
    BY <1>1, <1>4, <1>5, <1>7 DEF Place, PlaceOf, Refreshes, Changing
  <2>2. job[d].op # "status" \/ migrating = d
    BY <1>1, <1>7 DEF Place, PlaceOf, Changing
  <2>3. job'[d] = job[d] /\ (migrating' = d <=> migrating = d)
    BY DEF OnlyCaller, OthersHold
  <2>4. c \in InStore' /\ d \in InStore' /\ c # d
    BY <1>7, <2>3 DEF InStore, Changing
  <2>5. job'[d].op \in {"refresh", "status"} /\ migrating' # d
    BY <2>4 DEF Together
  <2> QED
    BY <2>1, <2>2, <2>3, <2>5
<1> QED
  BY <1>6, <1>7

LEMMA AnswerApart ==
    ASSUME LockInv, NEW owner \in Owners, Owned(owner), ApartState, Together', NEW c \in Callers,
           Answer(c)
    PROVE  ApartState'
<1>1. PICK fresh \in Answers :
          /\ Answered(c, fresh)
          /\ OnlyCaller(c) /\ job'[c].at = "set" /\ job'[c].on = job[c].acct /\ job'[c].key = 1
          /\ job'[c].creds = NewCreds(c, fresh) /\ job'[c].op = "refresh"
          /\ job'[c].acct = job[c].acct /\ job'[c].replaces = OldToken(c, fresh)
          /\ UNCHANGED <<storeVars, migrated, Held, calls, faults, pastVars>>
  BY AnswerMoves
<1>2. /\ job[c].at = "sent" /\ job[c].acct \in Accounts /\ migrating # c
      /\ Whole(job[c].creds) /\ OwnedBy(owner, job[c].acct, job[c].creds.refresh)
      /\ spent' \subseteq 1..grants
  BY <1>1, AnsweredSpends
<1>3. /\ UNCHANGED <<secret, index, cached, cachedIndex, dropped, torn, astray>>
      /\ OthersHold(c) /\ migrating' # c /\ ~Changing(job[c])
  BY <1>1, <1>2, HeldStays DEF storeVars, pastVars, Held, Changing
<1>4. Seen(c)'
  BY <1>1 DEF Seen, SeenOf, Changing
<1>5. GoodNext(grants + 1)
  BY <1>2, FreshIsGood
<1>6. CASE "refresh" \notin fresh
  <2>1. spent' = spent /\ job'[c].creds.refresh = job[c].creds.refresh
    BY <1>1, <1>6 DEF Answered, NewCreds, Kinds
  <2>2. Good(job[c].creds.refresh)
    BY <1>2 DEF ApartState, CallGood
  <2>3. CallGood(c)' /\ StaysGood
    BY <1>3, <2>1, <2>2 DEF CallGood, Good, StaysGood
  <2> QED
    BY <1>1, <1>2, <1>3, <1>4, <2>3, NotWriting, QuietApart
<1>7. CASE "refresh" \in fresh
  <2> DEFINE t == job[c].creds.refresh
  <2>1. spent' = spent \union {t} /\ job'[c].creds.refresh = grants + 1 /\ job'[c].replaces = t
    BY <1>1, <1>7 DEF Answered, NewCreds, OldToken, Kinds
  <2>2. \A u : Good(u) /\ u # t => Good(u)'
    BY <1>3, <2>1 DEF Good
  <2>3. CallGood(c)'
    BY <1>5, <2>1 DEF CallGood, Good, GoodNext
  <2>4. ASSUME NEW d \in Callers \ {c} PROVE Seen(d)' /\ CallGood(d)'
    <3>1. job'[d] = job[d] /\ Seen(d) /\ CallGood(d) /\ Together /\ IndexKnown
      BY <1>1 DEF OnlyCaller, ApartState
    <3>2. Seen(d)'
      BY <1>3, <3>1, OthersSeen DEF Effect
    <3>3. job[d].at \in Handling \/ Changing(job[d]) => job[d].creds.refresh # t
      BY <1>1, <1>2, <1>3, SentIsOurs
    <3>4. CallGood(d)'
      BY <2>2, <3>1, <3>3 DEF CallGood, Changing
    <3> QED
      BY <3>2, <3>4
  <2>5. ASSUME NEW a \in Accounts, NEW u, GoodIn(a, u), OwnedBy(owner, a, u)
        PROVE  GoodIn(a, u)'
    <3>1. CASE u = t
      <4>1. a = job[c].acct
        BY <1>2, <2>5, <3>1 DEF OwnedBy, Whole
      <4>2. Replaces(c, a, u)'
        BY <1>1, <1>3, <2>1, <3>1, <4>1 DEF Replaces, Refreshes, Changing
      <4> QED
        BY <4>2 DEF GoodIn
    <3>2. CASE u # t /\ Good(u)
      BY <2>2, <3>2 DEF GoodIn
    <3>3. ASSUME NEW d \in Callers, Replaces(d, a, u) PROVE Replaces(d, a, u)'
      <4>1. d # c /\ job'[d] = job[d] /\ (migrating' = d <=> migrating = d)
        BY <1>1, <1>3, <3>3 DEF Replaces, OnlyCaller, OthersHold
      <4> QED
        BY <3>3, <4>1 DEF Replaces, Refreshes, Changing
    <3> QED
      BY <2>5, <3>1, <3>2, <3>3 DEF GoodIn
  <2>6. StoredGood'
    <3>1. \A a \in Accounts : /\ OwnedBy(owner, a, secret[a].refresh)
                              /\ OwnedBy(owner, a, cached[a].refresh)
      BY DEF Owned, GrantState
    <3>2. \A a \in Accounts : GoodIn(a, secret[a].refresh) /\ GoodIn(a, cached[a].refresh)
      BY DEF ApartState, StoredGood
    <3> HIDE DEF t
    <3> QED
      BY <1>3, <2>5, <3>1, <3>2 DEF StoredGood
  <2>7. AllAgree'
    <3>1. \A a \in Accounts : Agrees(a) => Agrees(a)'
      BY <1>3 DEF Agrees
    <3> QED
      BY <1>1, <1>3, <3>1, AgreeStays DEF ApartState
  <2>8. IndexKnown'
    BY <1>1, <1>2, <1>3, IndexStays DEF ApartState
  <2> QED
    BY <1>4, <2>3, <2>4, <2>6, <2>7, <2>8 DEF ApartState
<1> QED
  BY <1>6, <1>7

(* An answer that is not taken: the token counts as dropped.               *)
LEMMA LostApart ==
    ASSUME LockInv, ApartState, Together', NEW c \in Callers, job[c].at = "sent",
           Return(c), UNCHANGED <<storeVars, torn, astray>>, spent \subseteq spent',
           dropped' = dropped \union (spent' \ spent)
    PROVE  ApartState'
<1>1. Ended(c) /\ OthersHold(c) /\ ~Changing(job[c])
  BY ReturnEnds, ReturnHolds DEF Return, Changing
<1>2. StaysGood
  BY DEF StaysGood, Good
<1> QED
  BY <1>1, <1>2, IdleSeen, NotWriting, QuietApart DEF storeVars

LEMMA AnswerForAnotherApart ==
    ASSUME LockInv, ApartState, Together', NEW c \in Callers, AnswerForAnother(c)
    PROVE  ApartState'
<1>1. PICK fresh \in Answers :
          /\ Answered(c, fresh) /\ Return(c)
          /\ dropped' = dropped \union (spent' \ spent)
          /\ UNCHANGED <<storeVars, migrated, calls, faults, torn, abandoned, astray>>
  BY DEF AnswerForAnother
<1>2. job[c].at = "sent" /\ spent \subseteq spent'
  BY <1>1, AnsweredFacts
<1> QED
  BY <1>1, <1>2, LostApart

LEMMA LoseAnswerApart ==
    ASSUME LockInv, ApartState, Together', NEW c \in Callers, LoseAnswer(c)
    PROVE  ApartState'
<1>1. /\ job[c].at = "sent" /\ Return(c) /\ UNCHANGED <<storeVars, torn, astray>>
      /\ spent' = spent \union {job[c].creds.refresh}
      /\ dropped' = dropped \union {job[c].creds.refresh}
  BY DEF LoseAnswer, At
<1>2. Ended(c) /\ OthersHold(c) /\ ~Changing(job[c])
  BY <1>1, ReturnEnds, ReturnHolds DEF Return, Changing
<1>3. StaysGood
  BY <1>1 DEF StaysGood, Good
<1> QED
  BY <1>1, <1>2, <1>3, IdleSeen, NotWriting, QuietApart DEF storeVars

-----------------------------------------------------------------------------
(* Writing the store.  Who changes accounts, and is not alone, refreshes.  *)
LEMMA ChangesAs ==
    ASSUME LockInv, Together, NEW c \in Callers, Changing(job[c])
    PROVE  /\ c \in InStore /\ job[c].on \in Accounts
           /\ Alone(c) \/ ( /\ job[c].op = "refresh" /\ migrating # c
                            /\ Refreshes(c, job[c].acct) /\ job[c].on = job[c].acct
                            /\ \A records \in {index} \union cachedIndex : job[c].on \in records )
<1>1. Place(c) /\ job[c].at \in Writing /\ job[c].op # "logout"
  BY DEF LockInv, Changing
<1>2. c \in InStore /\ job[c].on \in Accounts
  BY <1>1 DEF InStore, Place, PlaceOf
<1>3. Alone(c) \/ Plain(c)
  BY <1>2, AloneOrPlain
<1>4. ASSUME Plain(c)
      PROVE  /\ job[c].op = "refresh" /\ migrating # c
             /\ Refreshes(c, job[c].acct) /\ job[c].on = job[c].acct
             /\ \A records \in {index} \union cachedIndex : job[c].on \in records
  <2>1. job[c].op = "refresh" /\ migrating # c
    BY <1>1, <1>4 DEF Plain, Place, PlaceOf
  <2>2. Refreshes(c, job[c].acct) /\ job[c].on = job[c].acct
    BY <1>1, <2>1 DEF Place, PlaceOf, Refreshes
  <2>3. \A records \in {index} \union cachedIndex : job[c].on \in records
    BY <1>4, <2>1 DEF Plain, Revives
  <2> QED
    BY <2>1, <2>2, <2>3
<1> QED
  BY <1>2, <1>3, <1>4

LEMMA SignsOutAlone ==
    ASSUME LockInv, Together, NEW c \in InStore, job[c].op = "logout"
    PROVE  Alone(c) /\ ~Changing(job[c])
  BY AloneOrPlain DEF Plain, Changing

(* One secret after the other is stored.                                   *)
LEMMA PutsApart ==
    ASSUME LockInv, ApartState, NEW c \in Callers, job[c].at = "set", PutSecret(job[c]),
           UNCHANGED <<index, cached, cachedIndex>>, StaysGood
    PROVE  /\ Changing(job[c]) /\ Good(job[c].creds.refresh)
           /\ \A a \in Accounts : a # job[c].on => secret'[a] = secret[a]
           /\ StoredKeeps /\ Effect(c)
<1> DEFINE b == job[c].on
           r == job[c].creds
<1>1. /\ secret \in [Accounts -> Credentials] /\ Place(c) /\ CallGood(c) /\ Together
      /\ Changing(job[c])
  BY JobFacts DEF LockInv, RestTypeOK, ApartState, Changing, Place, PlaceOf
<1>2. /\ b \in Accounts
      /\ \/ secret' = [secret EXCEPT ![b].access = r.access]
         \/ secret' = [secret EXCEPT ![b].refresh = r.refresh]
  BY PutsOne
<1>3. Good(r.refresh) /\ GoodNext(r.refresh)
  BY <1>1 DEF CallGood, StaysGood, Good, GoodNext
<1>4. Effect(c)
  <2>1. \A a \in Accounts : a # b => secret'[a] = secret[a]
    <3> HIDE DEF b, r
    <3> QED
      BY <1>1, <1>2
  <2> QED
    BY <1>1, <2>1, ChangesAs, RefreshEffect
<1> HIDE DEF b, r
<1>5. \A a \in Accounts : a # b => secret'[a] = secret[a]
  BY <1>1, <1>2
<1>6. secret'[b].refresh \in {secret[b].refresh, r.refresh}
  BY <1>1, <1>2 DEF Credentials, Kinds
<1>7. StoredKeeps
  BY <1>3, <1>5, <1>6 DEF StoredKeeps, Good, GoodNext
<1> QED
  BY <1>1, <1>3, <1>4, <1>5, <1>7 DEF b, r

LEMMA SetSecretApart ==
    ASSUME LockInv, NEW owner, Owned(owner), ApartState, Together', NEW c \in Callers,
           SetSecret(c)
    PROVE  ApartState'
<1>1. /\ OnlyCaller(c) /\ job'[c].op = job[c].op /\ job'[c].acct = job[c].acct
      /\ job'[c].on = job[c].on
      /\ job'[c].creds = job[c].creds /\ job'[c].replaces = job[c].replaces
      /\ job'[c].recs = job[c].recs
      /\ job[c].at = "set" /\ job[c].on \in Accounts /\ job[c].creds \in Credentials
      /\ \/ /\ job[c].key = 1 /\ job'[c].at = "set" /\ job'[c].key = 2
            /\ secret' = [secret EXCEPT ![job[c].on].access = job[c].creds.access]
         \/ /\ job[c].key = 2 /\ job'[c].at = "upsert" /\ job'[c].key = 1
            /\ secret' = [secret EXCEPT ![job[c].on].refresh = job[c].creds.refresh]
      /\ UNCHANGED <<index, cached, cachedIndex, Held, serverVars, pastVars>>
  BY SetSecretMoves
<1>2. secret \in [Accounts -> Credentials] /\ Place(c) /\ Seen(c) /\ CallGood(c) /\ Together
  BY DEF LockInv, RestTypeOK, ApartState
<1>3. Changing(job[c]) /\ Changing(job[c])' /\ OthersHold(c) /\ job[c].recs = {}
  BY <1>1, <1>2, KnowsNow, HeldStays DEF Changing, Place, PlaceOf, RecsOf
<1>4. StaysGood
  BY <1>1 DEF StaysGood, Good, serverVars, pastVars
<1>5. /\ Good(job[c].creds.refresh) /\ StoredKeeps /\ Effect(c)
      /\ \A a \in Accounts : a # job[c].on => secret'[a] = secret[a]
  BY <1>1, <1>4, PutsApart DEF SetSecret
<1>6. GoodNext(job[c].creds.refresh)
  BY <1>4, <1>5 DEF StaysGood, Good, GoodNext
<1>7. GoesOnReplacing(c)
  BY <1>1, <1>3 DEF GoesOnReplacing, Held
<1>10. AgreesOn(c)
  <2>1. ASSUME NEW a \in Accounts, Agrees(a), a # job[c].on PROVE Agrees(a)'
    BY <1>1, <1>5, <2>1 DEF Agrees, pastVars
  <2> QED
    BY <1>1, <1>3, <2>1 DEF AgreesOn, Writes
<1>11. IndexKnown'
  BY <1>1, <1>3, IndexStays DEF ApartState, pastVars
<1>12. CallGood(c)'
  BY <1>1, <1>6 DEF CallGood, Good, GoodNext
<1>13. Seen(c)'
  <2>1. CASE job[c].key = 1
    <3>1. secret'[job[c].on].access = job[c].creds.access
      <4> DEFINE b == job[c].on
      <4> DEFINE r == job[c].creds
      <4>1. b \in Accounts /\ secret' = [secret EXCEPT ![b].access = r.access]
        BY <1>1, <2>1
      <4> HIDE DEF b, r
      <4>2. secret'[b].access = r.access
        BY <1>2, <4>1 DEF Credentials, Kinds
      <4> QED
        BY <4>2 DEF b, r
    <3>2. job'[c].at = "set" /\ job'[c].key = 2
      BY <1>1, <2>1
    <3> QED
      BY <1>1, <3>1, <3>2 DEF Seen, SeenOf
  <2>2. CASE job[c].key = 2
    <3>1. secret'[job[c].on] = job[c].creds
      <4> DEFINE b == job[c].on
      <4> DEFINE r == job[c].creds
      <4>1. b \in Accounts /\ secret' = [secret EXCEPT ![b].refresh = r.refresh]
        BY <1>1, <2>2
      <4>2. secret[b].access = r.access /\ r \in Credentials
        BY <1>1, <1>2, <1>3, <2>2 DEF Seen, SeenOf
      <4> HIDE DEF b, r
      <4>3. secret'[b] = r
        BY <1>2, <4>1, <4>2 DEF Credentials, Kinds
      <4> QED
        BY <4>3 DEF b, r
    <3>2. job'[c].at = "upsert" /\ job'[c].recs = {}
      BY <1>1, <1>3, <2>2
    <3> QED
      BY <1>1, <3>1, <3>2 DEF Seen, SeenOf
  <2> QED
    BY <1>1, <2>1, <2>2
<1> QED
  BY <1>1, <1>3, <1>4, <1>5, <1>7, <1>10, <1>11, <1>12, <1>13, ApartStays

(* The index is written with the account or without it.                    *)
LEMMA ViewWritten ==
    ASSUME cachedIndex \in {{}, {View}}, cachedIndex' = cachedIndex
    PROVE  cachedIndex' \in {{}, {View'}}
  BY DEF View

LEMMA UpsertApart ==
    ASSUME LockInv, NEW owner, Owned(owner), ApartState, Together', NEW c \in Callers, Upsert(c)
    PROVE  ApartState'
<1>1. job[c].at = "upsert" /\ Known(c)
  BY DEF Upsert, At
<1>2. /\ OnlyCaller(c) /\ job'[c].op = job[c].op /\ job'[c].acct = job[c].acct
      /\ job'[c].on = job[c].on
      /\ job'[c].creds = job[c].creds /\ job'[c].replaces = job[c].replaces
      /\ job'[c].at = "adopt" /\ job'[c].recs = {index'} /\ job[c].on \in Accounts
      /\ index' = Records(c) \union {job[c].on}
      /\ UNCHANGED <<secret, cached, cachedIndex, Held, serverVars, pastVars>>
  BY <1>1, WriteIndexMoves
<1>3. Place(c) /\ Seen(c) /\ CallGood(c) /\ Together /\ IndexKnown
  BY DEF LockInv, ApartState
<1>4. Changing(job[c]) /\ Changing(job[c])' /\ OthersHold(c)
  BY <1>1, <1>2, <1>3, HeldStays DEF Changing, Place, PlaceOf
<1>5. secret[job[c].on] = job[c].creds /\ Records(c) = View
  <2>1. job[c].recs \in {{}, {View}} /\ job[c].recs # {}
    BY <1>1, <1>3 DEF Known, Seen, SeenOf
  <2>2. UNION {View} = View
    OBVIOUS
  <2> QED
    BY <1>1, <1>3, <1>4, <2>1, <2>2 DEF Seen, SeenOf, Records
<1>6. /\ c \in InStore
      /\ Alone(c) \/ (Refreshes(c, job[c].acct) /\ InAll(job[c].on))
  BY <1>3, <1>4, ChangesAs DEF InAll
<1>7. index' = View \union {job[c].on} /\ (Alone(c) \/ index' = View)
  BY <1>2, <1>3, <1>5, <1>6, InView
<1>8. Effect(c)
  BY <1>2, <1>3, <1>6, <1>7, RefreshEffect
<1>9. StaysGood /\ StoredKeeps /\ Good(job[c].creds.refresh)
  BY <1>2, <1>3, <1>4 DEF StaysGood, StoredKeeps, Good, CallGood, serverVars, pastVars
<1>10. GoesOnReplacing(c)
  BY <1>2, <1>4 DEF GoesOnReplacing, Held
<1>11. AgreesOn(c)
  <2>1. ASSUME NEW a \in Accounts, Agrees(a) PROVE Agrees(a)'
    <3>1. InAll(a) => InAll(a)'
      BY <1>2, <1>3, <1>7, InView DEF InAll
    <3> QED
      BY <1>2, <2>1, <3>1 DEF Agrees, InAll, pastVars
  <2> QED
    BY <1>2, <1>4, <2>1 DEF AgreesOn, Writes
<1>12. CallGood(c)'
  BY <1>2, <1>9 DEF CallGood, Good, serverVars, pastVars
<1>13. Seen(c)'
  <2>1. job'[c].op # "logout"
    BY <1>2, <1>4 DEF Changing
  <2>2. secret'[job'[c].on] = job'[c].creds /\ job'[c].on \in index'
    BY <1>2, <1>5
  <2> QED
    BY <1>2, <2>1, <2>2 DEF Seen, SeenOf
<1>14. IndexKnown'
  <2>1. cachedIndex' \in {{}, {View}} /\ cachedIndex' \in {{}, {View'}}
    BY <1>2, <1>3, ViewWritten DEF IndexKnown
  <2>2. CASE cachedIndex' = {} \/ index' = View
    BY <2>1, <2>2 DEF IndexKnown
  <2>3. CASE cachedIndex' = {View} /\ index' # View
    <3>1. Alone(c) /\ job[c].on \notin View
      BY <1>7, <2>3
    <3>2. c \in InStore' /\ Alone(c)' /\ At(c, "adopt")'
      BY <1>2, <3>1 DEF InStore, Alone, OnlyCaller, At
    <3>3. ~Plain(c)'
      <4>1. job[c].op = "refresh" => Revives(c)'
        BY <1>2, <1>4, <2>3, <3>1 DEF Revives
      <4>2. job[c].op = "status" => migrating' = c
        BY <1>1, <1>2, <1>3 DEF Place, PlaceOf, Held
      <4> QED
        BY <1>2, <4>1, <4>2 DEF Plain
    <3> QED
      BY <2>1, <3>2, <3>3 DEF IndexKnown
  <2> QED
    BY <2>1, <2>2, <2>3
<1> QED
  BY <1>2, <1>4, <1>8, <1>9, <1>10, <1>11, <1>12, <1>13, <1>14, ApartStays

LEMMA RemoveApart ==
    ASSUME LockInv, NEW owner, Owned(owner), ApartState, Together', NEW c \in Callers, Remove(c)
    PROVE  ApartState'
<1>1. job[c].at = "remove" /\ Known(c)
  BY DEF Remove, At
<1>2. /\ OnlyCaller(c) /\ job'[c].op = job[c].op /\ job'[c].on = job[c].on
      /\ job'[c].at = "adopt" /\ job'[c].recs = {index'} /\ job[c].on \in Accounts
      /\ index' = Records(c) \ {job[c].on}
      /\ UNCHANGED <<secret, cached, cachedIndex, Held, serverVars, pastVars>>
  BY <1>1, WriteIndexMoves
<1>3. Place(c) /\ Seen(c) /\ Together /\ IndexKnown
  BY DEF LockInv, ApartState
<1>4. /\ c \in InStore /\ job[c].op = "logout" /\ OthersHold(c)
      /\ ~Changing(job[c])'
  BY <1>1, <1>2, <1>3, HeldStays DEF InStore, Place, PlaceOf, Changing
<1>5. Alone(c) /\ ~Changing(job[c])
  BY <1>3, <1>4, SignsOutAlone
<1>6. secret[job[c].on] = None /\ cached[job[c].on] = None /\ Records(c) = View
  BY <1>1, <1>3 DEF Seen, SeenOf, Records, Known
<1>7. Effect(c)
  BY <1>4, <1>5 DEF Effect
<1>8. StaysGood /\ StoredKeeps
  BY <1>2 DEF StaysGood, StoredKeeps, Good, serverVars, pastVars
<1>9. AgreesOn(c)
  <2>1. ASSUME NEW a \in Accounts, Agrees(a) PROVE Agrees(a)'
    <3>1. a # job[c].on /\ InAll(a) => InAll(a)'
      BY <1>2, <1>3, <1>6, InView DEF InAll
    <3> QED
      BY <1>2, <1>6, <2>1, <3>1 DEF Agrees, InAll, pastVars
  <2> QED
    BY <1>5, <2>1 DEF AgreesOn, Writes
<1>10. Seen(c)' /\ CallGood(c)'
  BY <1>2, <1>4, <1>6 DEF Seen, SeenOf, CallGood
<1>11. IndexKnown'
  <2>1. c \in InStore' /\ Alone(c)' /\ At(c, "adopt")' /\ ~Plain(c)'
    BY <1>2, <1>4, <1>5 DEF InStore, Alone, OnlyCaller, At, Plain
  <2>2. cachedIndex' \in {{}, {View'}}
    BY <1>2, <1>3, ViewWritten DEF IndexKnown
  <2> QED
    BY <2>1, <2>2 DEF IndexKnown
<1> QED
  BY <1>2, <1>4, <1>5, <1>7, <1>8, <1>9, <1>10, <1>11, NotWriting, ApartStays

(* A call of the secret store that fails, and has done what it was to do.  *)
LEMMA VainPutApart ==
    ASSUME LockInv, NEW owner, Owned(owner), ApartState, Together', NEW c \in Callers,
           GiveUp(c), job[c].at = "set", PutSecret(job[c]),
           UNCHANGED <<index, legacy, cached, cachedIndex, astray>>
    PROVE  ApartState'
<1>1. /\ OthersHold(c) /\ OnlyCaller(c) /\ Seen(c)' /\ CallGood(c)' /\ job'[c].at = "idle"
      /\ StaysGood /\ GoesOnReplacing(c) /\ torn \subseteq torn'
      /\ Changing(job[c]) => job[c].on \in torn'
  BY GiveUpMeans
<1>2. /\ Changing(job[c]) /\ StoredKeeps /\ Effect(c)
      /\ \A a \in Accounts : a # job[c].on => secret'[a] = secret[a]
  BY <1>1, PutsApart
<1>3. AgreesOn(c)
  <2>1. ASSUME NEW a \in Accounts, a = job[c].on PROVE Agrees(a)'
    BY <1>1, <1>2, <2>1 DEF Agrees
  <2>2. ASSUME NEW a \in Accounts, a # job[c].on, Agrees(a) PROVE Agrees(a)'
    BY <1>1, <1>2, <2>2 DEF Agrees
  <2> QED
    BY <2>1, <2>2 DEF AgreesOn, Writes
<1>4. IndexKnown'
  BY <1>1, IndexStays DEF ApartState
<1> QED
  BY <1>1, <1>2, <1>3, <1>4, ApartStays

LEMMA VainIndexApart ==
    ASSUME LockInv, NEW owner, Owned(owner), ApartState, Together', NEW c \in Callers,
           GiveUp(c), job[c].at \in {"upsert", "remove"}, Known(c),
           index' = IF job[c].at = "upsert" THEN WithIt(c) ELSE WithoutIt(c),
           astray' = (astray \/ index' # index),
           UNCHANGED <<secret, legacy, cached, cachedIndex>>
    PROVE  ApartState'
<1>1. /\ OthersHold(c) /\ OnlyCaller(c) /\ Seen(c)' /\ CallGood(c)' /\ job'[c].at = "idle"
      /\ StaysGood /\ GoesOnReplacing(c) /\ torn \subseteq torn'
      /\ Changing(job[c]) => job[c].on \in torn'
  BY GiveUpMeans
<1>2. /\ Place(c) /\ Seen(c) /\ Together /\ IndexKnown /\ c \in InStore
      /\ cachedIndex \in {{}, {View}}
  BY DEF LockInv, ApartState, InStore, IndexKnown
<1>3. Records(c) = View
  <2>1. job[c].recs = {View}
    BY <1>2 DEF Known, Seen, SeenOf
  <2>2. UNION {View} = View
    OBVIOUS
  <2> QED
    BY <2>1, <2>2 DEF Records
<1>4. Alone(c) \/ (index' = View /\ Refreshes(c, job[c].acct))
  <2>1. CASE job[c].at = "upsert"
    <3>1. Changing(job[c])
      BY <1>2, <2>1 DEF Changing, Place, PlaceOf
    <3>2. Alone(c) \/ (Refreshes(c, job[c].acct) /\ InAll(job[c].on))
      BY <1>2, <3>1, ChangesAs DEF InAll
    <3> QED
      BY <1>2, <1>3, <2>1, <3>2, InView DEF WithIt
  <2>2. CASE job[c].at = "remove"
    BY <1>2, <2>2, SignsOutAlone DEF Place, PlaceOf
  <2> QED
    BY <2>1, <2>2
<1>5. Effect(c)
  BY <1>2, <1>4, RefreshEffect
<1>6. StoredKeeps
  BY DEF StoredKeeps
<1>7. AgreesOn(c)
  <2>1. ASSUME NEW a \in Accounts, a = job[c].on PROVE Agrees(a)'
    <3>1. CASE job[c].at = "upsert"
      <4>1. Changing(job[c])
        BY <1>2, <3>1 DEF Changing, Place, PlaceOf
      <4> QED
        BY <1>1, <2>1, <4>1 DEF Agrees
    <3>2. CASE job[c].at = "remove"
      <4>1. secret[a] = None /\ cached[a] = None
        BY <1>2, <2>1, <3>2 DEF Seen, SeenOf
      <4> QED
        BY <4>1 DEF Agrees
    <3> QED
      BY <3>1, <3>2
  <2>2. ASSUME NEW a \in Accounts, a # job[c].on, Agrees(a) PROVE Agrees(a)'
    <3>1. InAll(a) => InAll(a)'
      BY <1>2, <1>3, <2>2, InView DEF InAll, WithIt, WithoutIt
    <3> QED
      BY <1>1, <2>2, <3>1 DEF Agrees, InAll
  <2> QED
    BY <2>1, <2>2 DEF AgreesOn, Writes
<1>8. IndexKnown'
  <2>1. cachedIndex' \in {{}, {View}} /\ cachedIndex' \in {{}, {View'}}
    BY <1>2, ViewWritten
  <2>2. CASE index' = View
    BY <2>1, <2>2 DEF IndexKnown
  <2>3. CASE Alone(c) /\ index' # index
    <3>1. ASSUME NEW d \in Callers PROVE ~At(d, "adopt")'
      BY <1>1, <2>3 DEF At, OnlyCaller, Alone, InStore
    <3> QED
      BY <2>1, <2>3, <3>1 DEF IndexKnown
  <2>4. CASE index' = index
    <3>1. astray \in BOOLEAN
      BY DEF LockInv, RestTypeOK
    <3>2. astray' = astray
      BY <2>4, <3>1, Zenon
    <3> QED
      BY <1>1, <1>2, <2>4, <3>2, IndexStays
  <2> QED
    BY <1>4, <2>2, <2>3, <2>4
<1> QED
  BY <1>1, <1>5, <1>6, <1>7, <1>8, ApartStays

LEMMA SecretFaultApart ==
    ASSUME LockInv, NEW owner, Owned(owner), ApartState, Together', NEW c \in Callers,
           SecretFault(c)
    PROVE  ApartState'
<1>1. NextSecretCall(c) \in Faulty /\ GiveUp(c)
  BY AuthAssumption DEF SecretFault, Fault
<1>2. job[c].at # "adopt"
  <2> SUFFICES ASSUME job[c].at = "adopt" PROVE FALSE
    OBVIOUS
  <2>1. NextSecretCall(c) = "none"
    BY DEF NextSecretCall
  <2> QED
    BY <1>1, <2>1 DEF Faulty
<1>3. CASE AsItWas
  BY <1>1, <1>2, <1>3, FailApart DEF AsItWas, storeVars
<1>4. CASE /\ At(c, "set") /\ PutSecret(job[c])
           /\ UNCHANGED <<index, legacy, cached, cachedIndex, astray>>
  BY <1>1, <1>4, VainPutApart DEF At
<1>5. CASE UNCHANGED <<secret, index, cached, cachedIndex, astray>>
  BY <1>1, <1>2, <1>5, FailApart
<1>6. CASE /\ \/ At(c, "upsert") /\ Known(c) /\ index' = WithIt(c)
              \/ At(c, "remove") /\ Known(c) /\ index' = WithoutIt(c)
           /\ astray' = (astray \/ index' # index)
           /\ UNCHANGED <<secret, legacy, cached, cachedIndex>>
  BY <1>1, <1>6, VainIndexApart DEF At
<1> QED
  BY <1>3, <1>4, <1>5, <1>6 DEF SecretFault, DoneInVain

(* The cached index follows the stored one, and the cache the secrets.     *)
LEMMA AdoptApart ==
    ASSUME LockInv, NEW owner, Owned(owner), ApartState, Together', NEW c \in Callers, Adopt(c)
    PROVE  ApartState'
<1>1. /\ cachedIndex' = job[c].recs /\ job[c].at = "adopt" /\ job[c].on \in Accounts
      /\ OnlyCaller(c)
      /\ UNCHANGED <<secret, index, legacy, cached, migrated, serverVars, calls, faults>>
      /\ \/ /\ migrating = c /\ job[c].op # "logout" /\ Settled(c) /\ UNCHANGED Held
            /\ job'[c].at = "clean"
         \/ /\ migrating # c /\ job[c].op = "logout" /\ Return(c) /\ Ended(c) /\ Settled(c)
         \/ /\ migrating # c /\ job[c].op # "logout"
            /\ UNCHANGED <<Held, dropped, torn, abandoned>>
            /\ job'[c].at = "cache" /\ job'[c].op = job[c].op /\ job'[c].acct = job[c].acct
            /\ job'[c].on = job[c].on /\ job'[c].creds = job[c].creds
            /\ job'[c].replaces = job[c].replaces
  BY AdoptMoves
<1>2. Seen(c) /\ CallGood(c) /\ cachedIndex' = {index} /\ c \in InStore /\ IndexKnown
  BY <1>1 DEF ApartState, Seen, SeenOf, InStore
<1>3. IndexKnown'
  <2>1. UNION {index} = index
    OBVIOUS
  <2>2. View' = index' /\ cachedIndex' = {index'}
    BY <1>1, <1>2, <2>1 DEF View
  <2> QED
    BY <2>2 DEF IndexKnown
<1>4. Effect(c)
  <2>1. Alone(c) \/ View = index
    BY <1>1, <1>2, ViewIsIndex
  <2> QED
    BY <1>1, <1>2, <2>1 DEF Effect
<1>5. dropped' = dropped /\ torn \subseteq torn' \union {job[c].on} /\ OthersHold(c)
  BY <1>1, HeldStays, ReturnHolds DEF Settled, Return
<1>6. StaysGood /\ StoredKeeps
  BY <1>1, <1>5 DEF StaysGood, StoredKeeps, Good, serverVars
<1>7. ASSUME NEW a \in Accounts, a # job[c].on, Agrees(a) PROVE Agrees(a)'
  BY <1>1, <1>2, <1>5, <1>7 DEF Agrees
<1>8. CASE migrating = c /\ job[c].op # "logout" /\ job'[c].at = "clean"
  <2>1. Changing(job[c]) /\ ~Changing(job[c])'
    BY <1>1, <1>8 DEF Changing
  <2>2. /\ job[c].on = LegacyAccount /\ job[c].creds = From(1)
        /\ secret[job[c].on] = job[c].creds /\ job[c].on \in index
    <3>1. CredsOf(owner, c, job[c])
      BY KnowsNow
    <3>2. Whole(legacy) /\ job[c].on = LegacyAccount /\ job[c].creds = legacy
      BY <1>8, <2>1, <3>1 DEF CredsOf
    <3>3. legacy = From(1)
      BY <3>2 DEF LockInv, LegacyIsReal
    <3> QED
      BY <1>1, <1>2, <2>1, <3>2, <3>3 DEF Seen, SeenOf
  <2>3. \A a \in Accounts : a = job[c].on => Agrees(a)'
    BY <1>1, <1>2, <2>2 DEF Agrees
  <2>4. AgreesOn(c)
    BY <1>7, <2>3 DEF AgreesOn, Writes
  <2>5. GoesOnReplacing(c)
    BY <1>8 DEF GoesOnReplacing
  <2>6. Seen(c)' /\ CallGood(c)'
    BY <1>8, PlainSeen
  <2> QED
    BY <1>1, <1>3, <1>4, <1>5, <1>6, <2>4, <2>5, <2>6, ApartStays
<1>9. CASE job[c].op = "logout" /\ Ended(c)
  <2>1. ~Changing(job[c]) /\ secret[job[c].on] = None /\ cached[job[c].on] = None
    BY <1>1, <1>2, <1>9 DEF Changing, Seen, SeenOf
  <2>2. \A a \in Accounts : a = job[c].on => Agrees(a)'
    BY <1>1, <2>1 DEF Agrees
  <2>3. AgreesOn(c)
    BY <1>7, <2>2 DEF AgreesOn, Writes
  <2> QED
    BY <1>1, <1>3, <1>4, <1>5, <1>6, <1>9, <2>1, <2>3, IdleSeen, NotWriting, ApartStays
<1>10. CASE /\ migrating # c /\ job[c].op # "logout"
            /\ UNCHANGED <<Held, dropped, torn, abandoned>>
            /\ job'[c].at = "cache" /\ job'[c].op = job[c].op /\ job'[c].acct = job[c].acct
            /\ job'[c].on = job[c].on /\ job'[c].creds = job[c].creds
            /\ job'[c].replaces = job[c].replaces
  <2>1. Changing(job[c]) /\ Changing(job[c])'
    BY <1>1, <1>10 DEF Changing
  <2>2. \A a \in Accounts : Writes(c, a) => Writes(c, a)'
    BY <1>10, <2>1 DEF Writes
  <2>3. \A a \in Accounts : Agrees(a) => Agrees(a)'
    BY <1>1, <1>2, <1>10 DEF Agrees
  <2>4. AgreesOn(c)
    BY <2>2, <2>3 DEF AgreesOn
  <2>5. GoesOnReplacing(c)
    BY <1>10, <2>1 DEF GoesOnReplacing, Held
  <2>6. Good(job[c].creds.refresh) /\ secret[job[c].on] = job[c].creds /\ job[c].on \in index
    BY <1>1, <1>2, <2>1 DEF Seen, SeenOf, CallGood
  <2>7. CallGood(c)'
    BY <1>1, <1>5, <1>10, <2>6 DEF CallGood, Good, serverVars
  <2>8. Seen(c)'
    BY <1>1, <1>2, <1>10, <2>6 DEF Seen, SeenOf
  <2> QED
    BY <1>1, <1>3, <1>4, <1>5, <1>6, <2>4, <2>5, <2>7, <2>8, ApartStays
<1> QED
  BY <1>1, <1>8, <1>9, <1>10

LEMMA CacheApart ==
    ASSUME LockInv, NEW owner, Owned(owner), ApartState, Together', NEW c \in Callers, Cache(c)
    PROVE  ApartState'
<1>1. /\ cached' = [cached EXCEPT ![job[c].on] = job[c].creds] /\ Settled(c)
      /\ job[c].at = "cache" /\ job[c].on \in Accounts /\ job[c].creds \in Credentials
      /\ OnlyCaller(c) /\ migrating # c
      /\ UNCHANGED <<secret, index, legacy, cachedIndex, migrated, serverVars, calls, faults,
                     astray>>
      /\ \/ Return(c) /\ Ended(c)
         \/ job'[c].at = "ensure" /\ UNCHANGED Held /\ job'[c].recs = {}
  BY CacheMoves
<1>2. /\ Seen(c) /\ CallGood(c) /\ Together /\ Place(c)
      /\ cached \in [Accounts -> Credentials]
  BY DEF ApartState, LockInv, RestTypeOK
<1>3. Changing(job[c]) /\ OthersHold(c)
  BY <1>1, <1>2, HeldStays, ReturnHolds DEF Changing, Place, PlaceOf, Return
<1>4. /\ secret[job[c].on] = job[c].creds
      /\ \A records \in {index} \union cachedIndex : job[c].on \in records
      /\ Good(job[c].creds.refresh)
  BY <1>1, <1>2, <1>3 DEF Seen, SeenOf, CallGood
<1>5. /\ \A a \in Accounts : a # job[c].on => cached'[a] = cached[a]
      /\ cached'[job[c].on] = job[c].creds
  BY <1>1, <1>2
<1>6. Effect(c)
  BY <1>1, <1>2, <1>3, ChangesAs, RefreshEffect
<1>7. dropped' = dropped /\ torn \subseteq torn' \union {job[c].on}
  BY <1>1 DEF Settled
<1>8. StaysGood /\ GoodNext(job[c].creds.refresh)
  BY <1>1, <1>4, <1>7 DEF StaysGood, Good, GoodNext, serverVars
<1>9. StoredKeeps
  BY <1>1, <1>5, <1>8 DEF StoredKeeps, Good, GoodNext
<1>10. GoesOnReplacing(c)
  <2> SUFFICES ASSUME job[c].op = "refresh"
               PROVE  /\ GoodNext(secret'[job[c].acct].refresh)
                      /\ GoodNext(cached'[job[c].acct].refresh)
    BY DEF GoesOnReplacing
  <2>1. job[c].on = job[c].acct
    BY <1>1, <1>2 DEF Place, PlaceOf
  <2> QED
    BY <1>1, <1>4, <1>5, <1>8, <2>1
<1>11. AgreesOn(c)
  <2>1. \A a \in Accounts : a = job[c].on => Agrees(a)'
    BY <1>1, <1>4, <1>5 DEF Agrees
  <2>2. ASSUME NEW a \in Accounts, a # job[c].on, Agrees(a) PROVE Agrees(a)'
    BY <1>1, <1>5, <1>7, <2>2 DEF Agrees
  <2> QED
    BY <2>1, <2>2 DEF AgreesOn, Writes
<1>12. Seen(c)' /\ CallGood(c)' /\ job'[c].at # "adopt"
  BY <1>1, IdleSeen, PlainSeen
<1>13. IndexKnown'
  BY <1>1, <1>3, <1>12, IndexStays DEF ApartState
<1> QED
  BY <1>1, <1>3, <1>6, <1>8, <1>9, <1>10, <1>11, <1>12, <1>13, ApartStays

(* Signing out.                                                            *)
LEMMA EraseApart ==
    ASSUME LockInv, NEW owner, Owned(owner), ApartState, Together', NEW c \in Callers, Erase(c)
    PROVE  ApartState'
<1>1. /\ job[c].at = "erase" /\ Goto(c, "delete") /\ "delete" \in Points
      /\ cached' = [cached EXCEPT ![job[c].on] = None]
      /\ UNCHANGED <<secret, index, cachedIndex, Held, serverVars, pastVars>>
  BY DEF Erase, At, Points
<1>2. /\ OnlyCaller(c) /\ job'[c].at = "delete" /\ job'[c].key = job[c].key
      /\ job'[c].on = job[c].on
  BY <1>1, GotoMoves
<1>3. /\ Place(c) /\ Together /\ cached \in [Accounts -> Credentials]
      /\ job[c].key = 1
  BY <1>1, KnowsNow DEF LockInv, ApartState, RestTypeOK, RecsOf
<1>4. /\ c \in InStore /\ job[c].op = "logout" /\ job[c].on \in Accounts /\ OthersHold(c)
      /\ ~Changing(job[c])'
  BY <1>1, <1>2, <1>3, HeldStays DEF InStore, Place, PlaceOf, Changing
<1>5. Alone(c) /\ ~Changing(job[c])
  BY <1>3, <1>4, SignsOutAlone
<1>6. Effect(c)
  BY <1>4, <1>5 DEF Effect
<1>7. \A a \in Accounts : cached'[a] \in {cached[a], None}
  BY <1>1, <1>3
<1>8. Good(0)' /\ StaysGood
  BY <1>1, GoodZero DEF StaysGood, Good, serverVars, pastVars
<1>9. StoredKeeps
  <2>1. None.refresh = 0
    BY DEF None, From, Kinds
  <2> QED
    BY <1>1, <1>7, <1>8, <2>1 DEF StoredKeeps
<1>10. AgreesOn(c)
  <2>1. ASSUME NEW a \in Accounts, Agrees(a) PROVE Agrees(a)'
    BY <1>1, <1>7, <2>1 DEF Agrees, pastVars
  <2> QED
    BY <1>5, <2>1 DEF AgreesOn, Writes
<1>11. Seen(c)' /\ CallGood(c)'
  <2>1. cached'[job'[c].on] = None /\ job'[c].key = 1
    BY <1>1, <1>2, <1>3, <1>4
  <2> QED
    BY <1>2, <1>4, <2>1 DEF Seen, SeenOf, CallGood
<1>12. IndexKnown'
  BY <1>1, <1>2, <1>4, IndexStays DEF ApartState, pastVars
<1> QED
  BY <1>2, <1>4, <1>5, <1>6, <1>8, <1>9, <1>10, <1>11, <1>12, NotWriting, ApartStays

LEMMA DeleteApart ==
    ASSUME LockInv, NEW owner, Owned(owner), ApartState, Together', NEW c \in Callers, Delete(c)
    PROVE  ApartState'
<1>1. /\ OnlyCaller(c) /\ job'[c].op = "logout" /\ job'[c].on = job[c].on
      /\ job[c].at = "delete" /\ job[c].on \in Accounts /\ job'[c].recs = job[c].recs
      /\ job'[c].at \in {"delete", "deleted", "remove"}
      /\ job'[c].at = "remove" => ~job'[c].failed /\ job[c].key = 2
      /\ job'[c].at = "delete" => job'[c].key = 2 /\ job[c].key = 1
      /\ ~job'[c].failed => ~job[c].failed
            /\ secret' = [secret EXCEPT ![job[c].on][Keys[job[c].key]] = 0]
      /\ secret' \in {secret, [secret EXCEPT ![job[c].on][Keys[job[c].key]] = 0]}
      /\ Keys[job[c].key] \in Kinds
      /\ UNCHANGED <<index, cached, cachedIndex, Held, serverVars, pastVars>>
  BY DeleteMoves
<1>2. /\ Place(c) /\ Together /\ Seen(c) /\ secret \in [Accounts -> Credentials]
      /\ job[c].recs = {}
  BY <1>1, KnowsNow DEF LockInv, ApartState, RestTypeOK, RecsOf
<1>3. /\ c \in InStore /\ job[c].op = "logout" /\ OthersHold(c)
      /\ ~Changing(job[c])'
  BY <1>1, <1>2, HeldStays DEF InStore, Place, PlaceOf, Changing
<1>4. Alone(c) /\ ~Changing(job[c])
  BY <1>2, <1>3, SignsOutAlone
<1>5. Effect(c)
  BY <1>3, <1>4 DEF Effect
<1>6. /\ cached[job[c].on] = None
      /\ job[c].key = 2 /\ ~job[c].failed => secret[job[c].on].access = 0
  BY <1>1, <1>2 DEF Seen, SeenOf
<1>7. /\ \A a \in Accounts : a # job[c].on => secret'[a] = secret[a]
      /\ secret'[job[c].on].refresh \in {secret[job[c].on].refresh, 0}
      /\ secret[job[c].on] = None => secret'[job[c].on] = None
      /\ ~job'[c].failed => secret'[job[c].on][Keys[job[c].key]] = 0
      /\ \A k \in Kinds : secret'[job[c].on][k] \in {secret[job[c].on][k], 0}
      /\ secret'[job[c].on] \in Credentials
  <2> DEFINE b == job[c].on
  <2> DEFINE k == Keys[job[c].key]
  <2> DEFINE failed == job'[c].failed
  <2>1. /\ b \in Accounts /\ k \in Kinds
        /\ secret' \in {secret, [secret EXCEPT ![b][k] = 0]}
        /\ ~failed => secret' = [secret EXCEPT ![b][k] = 0]
    BY <1>1
  <2> HIDE DEF b, k, failed
  <2>2. \A a \in Accounts : a # b => secret'[a] = secret[a]
    BY <1>2, <2>1
  <2>3. secret[b] \in Credentials /\ secret'[b] \in {secret[b], [secret[b] EXCEPT ![k] = 0]}
        /\ (~failed => secret'[b] = [secret[b] EXCEPT ![k] = 0])
    BY <1>2, <2>1
  <2>4. /\ \A i \in Kinds : secret'[b][i] \in {secret[b][i], 0}
        /\ ~failed => secret'[b][k] = 0
    BY <2>1, <2>3 DEF Credentials
  <2>5. secret'[b] \in Credentials
    BY <2>1, <2>3, AuthAssumption DEF Credentials
  <2>6. secret[b] = None => secret'[b] = None
    <3> SUFFICES ASSUME secret[b] = None PROVE secret'[b] = None
      OBVIOUS
    <3>1. \A i \in Kinds : secret'[b][i] = 0
      BY <2>4 DEF None, From
    <3> QED
      BY <2>5, <3>1 DEF Credentials, None, From
  <2>7. secret'[b].refresh \in {secret[b].refresh, 0}
    BY <2>4 DEF Kinds
  <2> QED
    BY <2>2, <2>4, <2>5, <2>6, <2>7 DEF b, k, failed
<1>8. Good(0)' /\ StaysGood
  BY <1>1, GoodZero DEF StaysGood, Good, serverVars, pastVars
<1>9. StoredKeeps
  BY <1>1, <1>7, <1>8 DEF StoredKeeps
<1>10. AgreesOn(c)
  <2>1. ASSUME NEW a \in Accounts, a # job[c].on, Agrees(a) PROVE Agrees(a)'
    BY <1>1, <1>7, <2>1 DEF Agrees, pastVars
  <2>2. ASSUME NEW a \in Accounts, a = job[c].on, Agrees(a) PROVE Agrees(a)'
    BY <1>1, <1>6, <1>7, <2>2 DEF Agrees, pastVars
  <2> QED
    BY <1>4, <2>1, <2>2 DEF AgreesOn, Writes
<1>11. CallGood(c)'
  BY <1>1, <1>3 DEF CallGood
<1>12. Seen(c)'
  <2>1. job'[c].at = "delete" /\ ~job'[c].failed => secret'[job'[c].on].access = 0
    BY <1>1, <1>7 DEF Keys
  <2>2. job'[c].at = "remove" => secret'[job'[c].on] = None
    <3> SUFFICES ASSUME job'[c].at = "remove" PROVE secret'[job[c].on] = None
      BY <1>1
    <3>1. secret'[job[c].on].access = 0 /\ secret'[job[c].on].refresh = 0
      <4>1. Keys[job[c].key] = "refresh" /\ secret[job[c].on].access = 0
        BY <1>1, <1>6 DEF Keys
      <4>2. \A k \in Kinds : secret'[job[c].on][k] \in {secret[job[c].on][k], 0}
        BY <1>7
      <4>3. secret'[job[c].on][Keys[job[c].key]] = 0
        BY <1>1, <1>7
      <4> QED
        BY <4>1, <4>2, <4>3 DEF Kinds
    <3> QED
      BY <1>7, <3>1 DEF Credentials, Kinds, None, From
  <2>3. cached'[job'[c].on] = None /\ job'[c].recs = {}
    BY <1>1, <1>2, <1>6
  <2> QED
    BY <1>1, <1>3, <2>1, <2>2, <2>3 DEF Seen, SeenOf
<1>13. IndexKnown'
  BY <1>1, <1>3, IndexStays DEF ApartState, pastVars
<1> QED
  BY <1>1, <1>3, <1>4, <1>5, <1>8, <1>9, <1>10, <1>11, <1>12, <1>13, NotWriting, ApartStays

LEMMA DeletedApart ==
    ASSUME LockInv, NEW owner, Owned(owner), ApartState, Together', NEW c \in Callers,
           \/ NoCode(c) \/ Refused(c) \/ Abandon(c) \/ Deleted(c) \/ Cancel(c)
    PROVE  ApartState'
<1>1. job[c].at # "adopt" /\ Fail(c)
  BY DEF NoCode, Refused, Abandon, Deleted, Cancel, At
<1> QED
  BY <1>1, FailApart DEF Fail, AsItWas, storeVars

-----------------------------------------------------------------------------
(* The process ends.                                                       *)
LEMMA RestartApart ==
    ASSUME LockInv, NEW owner, Owned(owner), ApartState, Restart
    PROVE  ApartState'
<1> DEFINE cut == {job[c].on : c \in {d \in Callers : Changing(job[d])}}
<1> DEFINE lost == {job[c].replaces : c \in Callers}
<1> DEFINE late == {job[c].creds.refresh : c \in Waiting}
<1>1. /\ job' = [c \in Callers |-> Idle]
      /\ cached' = [a \in Accounts |-> None]
      /\ cachedIndex' = {}
      /\ torn' = torn \union cut
      /\ dropped' = dropped \union (lost \ {0}) \union late
      /\ spent' = spent \union late
      /\ UNCHANGED <<secret, index, grants>>
  BY DEF Restart
<1>2. /\ \A c \in Callers : job[c].replaces \in lost
      /\ \A c \in Callers : Changing(job[c]) => job[c].on \in cut
  OBVIOUS
<1> HIDE DEF cut, lost, late
<1>3. \A c \in Callers : job'[c].at = "idle"
  BY <1>1 DEF Idle
<1>4. \A c \in Callers : Seen(c)' /\ CallGood(c)'
  BY <1>3, PlainSeen
<1>5. Together'
  BY <1>3 DEF Together, InStore
<1>6. IndexKnown'
  BY <1>1 DEF IndexKnown
<1>7. StaysGood /\ Good(0) /\ Good(0)'
  <2>1. StaysGood
    BY <1>1 DEF StaysGood, Good
  <2> QED
    BY <2>1, GoodZero DEF StaysGood
<1>8. ASSUME NEW a \in Accounts, NEW t, GoodIn(a, t) PROVE Good(t)'
  <2>1. CASE Good(t)
    BY <1>7, <2>1 DEF StaysGood
  <2>2. ASSUME NEW c \in Callers, Replaces(c, a, t) PROVE Good(t)'
    <3>1. t \in lost
      BY <1>2, <2>2 DEF Replaces
    <3>2. t = 0 \/ t \in dropped'
      BY <1>1, <3>1
    <3> QED
      BY <1>7, <3>2 DEF Good
  <2> QED
    BY <1>8, <2>1, <2>2 DEF GoodIn
<1>9. StoredGood'
  <2>1. \A a \in Accounts : GoodIn(a, secret[a].refresh)
    BY DEF ApartState, StoredGood
  <2>2. \A a \in Accounts : Good(secret[a].refresh)'
    <3> SUFFICES ASSUME NEW a \in Accounts PROVE Good(secret[a].refresh)'
      OBVIOUS
    <3> DEFINE t == secret[a].refresh
    <3>1. GoodIn(a, t) /\ secret'[a].refresh = t
      BY <1>1, <2>1
    <3> HIDE DEF t
    <3>2. GoodNext(t)
      BY <1>8, <3>1 DEF Good, GoodNext
    <3> QED
      BY <3>1, <3>2 DEF Good, GoodNext
  <2>3. \A a \in Accounts : Good(cached[a].refresh)'
    <3>1. None.refresh = 0
      BY DEF None, From, Kinds
    <3> QED
      BY <1>1, <1>7, <3>1 DEF Good
  <2> QED
    BY <2>2, <2>3 DEF StoredGood, GoodIn
<1>10. AllAgree'
  <2> SUFFICES ASSUME NEW a \in Accounts PROVE Agrees(a)'
    BY DEF AllAgree, Settles
  <2>1. Agrees(a) \/ a \in torn'
    BY <1>1, <1>2 DEF ApartState, AllAgree, Settles
  <2> QED
    BY <1>1, <2>1 DEF Agrees
<1> QED
  BY <1>4, <1>5, <1>6, <1>9, <1>10 DEF ApartState

LEMMA InitApart == AuthInit => ApartInv
<1> SUFFICES ASSUME AuthInit PROVE ApartState
  BY DEF ApartInv
<1>1. \A c \in Callers : job[c].at = "idle"
  BY DEF AuthInit, Idle
<1>2. /\ spent = {} /\ cachedIndex = {}
      /\ \A a \in Accounts : secret[a] = None /\ cached[a] = None
  BY DEF AuthInit
<1>3. \A c \in Callers : Seen(c) /\ CallGood(c)
  BY <1>1 DEF Seen, SeenOf, CallGood, Changing
<1>4. Together
  BY <1>1 DEF Together, InStore
<1>5. StoredGood /\ AllAgree /\ IndexKnown
  BY <1>2 DEF StoredGood, GoodIn, Good, AllAgree, Settles, Agrees, IndexKnown
<1> QED
  BY <1>3, <1>4, <1>5 DEF ApartState

LEMMA NextApart ==
    ASSUME LockInv, GrantInv, ApartInv, AuthNext
    PROVE  ApartInv'
<1> SUFFICES ASSUME apart' PROVE ApartState'
  BY DEF ApartInv
<1>1. ApartState /\ Together'
  BY DEF AuthNext, Observe, ApartInv
<1>2. PICK owner \in Owners : Owned(owner)
  BY DEF GrantInv
<1>3. CASE Restart
  BY <1>1, <1>2, <1>3, RestartApart
<1>4. ASSUME NEW c \in Callers, Step(c) PROVE ApartState'
  <2>1. CASE Complete(c) \/ Answer(c) \/ AnswerForAnother(c) \/ LoseAnswer(c)
    BY <1>1, <1>2, <2>1, CompleteApart, AnswerApart, AnswerForAnotherApart, LoseAnswerApart
  <2>2. CASE NoCode(c) \/ Refused(c) \/ Abandon(c) \/ Deleted(c) \/ SecretFault(c)
    BY <1>1, <1>2, <2>2, DeletedApart, SecretFaultApart
  <2>3. CASE Ensure(c) \/ Migrate(c) \/ Clean(c) \/ Status(c)
    BY <1>1, <1>2, <2>3, EnsureApart, MigrateApart, CleanApart, StatusApart
  <2>4. CASE ReadIndex(c) \/ FillIndex(c) \/ Resolve(c)
    BY <1>1, <1>2, <2>4, ReadIndexApart, FillIndexApart, ResolveApart
  <2>5. CASE Lookup(c) \/ Get(c) \/ Keep(c) \/ Decide(c)
    BY <1>1, <1>2, <2>5, LookupApart, GetApart, KeepApart, DecideApart
  <2>6. CASE SetSecret(c) \/ Upsert(c) \/ Remove(c)
    BY <1>1, <1>2, <2>6, SetSecretApart, UpsertApart, RemoveApart
  <2>7. CASE Adopt(c) \/ Cache(c) \/ Erase(c) \/ Delete(c)
    BY <1>1, <1>2, <2>7, AdoptApart, CacheApart, EraseApart, DeleteApart
  <2> QED
    BY <1>4, <2>1, <2>2, <2>3, <2>4, <2>5, <2>6, <2>7 DEF Step
<1>5. ASSUME NEW c \in Callers, Acquire(c) PROVE ApartState'
  BY <1>1, <1>5, AcquireApart
<1>6. ASSUME NEW c \in Callers, Host(c) PROVE ApartState'
  <2>1. CASE Calls(c)
    BY <1>1, <2>1, CallsApart
  <2>2. CASE Wait(c) \/ Drop(c)
    BY <1>1, <2>2, WaitApart, DropApart
  <2>3. CASE Cancel(c)
    BY <1>1, <1>2, <2>3, DeletedApart
  <2> QED
    BY <1>6, <2>1, <2>2, <2>3 DEF Host, Calls
<1> QED
  BY <1>3, <1>4, <1>5, <1>6 DEF AuthNext

LEMMA StutterApart == ApartInv /\ UNCHANGED authVars => ApartInv'
<1> SUFFICES ASSUME ApartState, UNCHANGED authVars PROVE ApartState'
  BY DEF ApartInv, authVars
<1> USE DEF authVars, storeVars, serverVars, pastVars
<1>1. Together'
  BY DEF ApartState, Together, InStore, Revives, Changing
<1>2. \A c \in Callers : Seen(c)' /\ CallGood(c)'
  BY DEF ApartState, Seen, SeenOf, View, CallGood, Good, Changing
<1>3. StoredGood'
  BY DEF ApartState, StoredGood, GoodIn, Good, Replaces, Refreshes, Changing
<1>4. AllAgree'
  BY DEF ApartState, AllAgree, Settles, Agrees, Changing
<1>5. IndexKnown'
  BY DEF ApartState, IndexKnown, View, InStore, At, Alone, Plain, Revives, Changing
<1> QED
  BY <1>1, <1>2, <1>3, <1>4, <1>5 DEF ApartState

LEMMA ApartHolds == AuthSpec => []ApartInv
<1>1. LockInv /\ GrantInv /\ ApartInv /\ [AuthNext]_authVars => ApartInv'
  BY NextApart, StutterApart
<1> QED
  BY <1>1, InitApart, LocksHold, OwnersHold, PTL DEF AuthSpec

-----------------------------------------------------------------------------
LEMMA ApartMeans == ApartInv => CacheAndStoreAgree
<1> SUFFICES ASSUME ApartState, InStore = {}
             PROVE  /\ astray \/ cachedIndex \in {{}, {index}}
                    /\ \A a \in Accounts : Agrees(a)
  BY DEF ApartInv, CacheAndStoreAgree
<1>1. \A c \in Callers : ~Changing(job[c])
  BY DEF InStore, Changing
<1> QED
  BY <1>1 DEF ApartState, AllAgree, Settles, IndexKnown

(* Between calls the caches tell what the secret store holds, and an       *)
(* account with secrets is in the index: store_credentials, read_account_  *)
(* index, logout and the migration, for any restarts and any errors of the *)
(* secret store, which may have done what they refuse, as long as only one *)
(* call at a time changes accounts.  An index that was written in vain is  *)
(* the exception that CacheAndStoreAgree names.                            *)
THEOREM CachesTellTheStore == AuthSpec => []CacheAndStoreAgree
  BY ApartHolds, ApartMeans, PTL

(* refresh_credentials never sends a refresh token that the endpoint has   *)
(* replaced: what a caller finds under the lock of its account, in the     *)
(* cache or secret by secret, is what the last refresh has stored.         *)
THEOREM SpentTokensAreNotSent == AuthSpec => NeverSendsSpentToken
<1>1. ApartInv => \A c \in Callers : At(c, "decide")
                    => ~apart \/ job[c].creds.refresh \notin spent \ dropped
  BY DEF ApartInv, ApartState, CallGood, Good, At
<1>2. ApartInv /\ [AuthNext]_authVars
        => [\A c \in Callers : At(c, "decide") /\ job'[c].at = "sent"
                => ~apart \/ job[c].creds.refresh \notin spent \ dropped]_authVars
  BY <1>1
<1> QED
  BY <1>2, ApartHolds, PTL DEF AuthSpec, NeverSendsSpentToken
=============================================================================
