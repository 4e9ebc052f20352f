---------------------------- MODULE EncryptedVault ---------------------------
(***************************************************************************)
(* EncryptedFileSecretStore: the secrets of a process in memory, and the   *)
(* vault on disk, which every change writes anew: a temporary file that is *)
(* then renamed.  The mutex of the state is held while memory is read or   *)
(* changed and while the vault is read, but not while it is written, so    *)
(* that the writes of two threads may overlap; both use one temporary      *)
(* name.  A file is an inode: who has opened it goes on writing to it      *)
(* wherever it is renamed to.                                              *)
(*                                                                         *)
(* Encryption is modelled by what it does: what was written under a key    *)
(* is read with that key and no other, and a damaged file with none.       *)
(***************************************************************************)
EXTENDS Naturals, FiniteSets

CONSTANTS
    Threads,
    Keys,           \* the names of secrets
    Secrets,
    NoSecret,
    Passwords,
    NoPassword,
    Faults,         \* what may go wrong, among Faulty
    MaxSalts,       \* bound: vaults that are created
    MaxCalls,       \* bound: calls
    MaxFaults       \* bound: things that go wrong

Faulty == {"open", "write", "sync", "permissions", "rename", "exit"}

\* What the constants must be.
VaultAssumption ==
    /\ IsFiniteSet(Threads) /\ Threads \cap {"ok", "failed"} = {}
    /\ NoSecret \notin Secrets /\ NoPassword \notin Passwords
    /\ Faults \subseteq Faulty
    /\ MaxSalts \in Nat /\ MaxCalls \in Nat /\ MaxFaults \in Nat

VARIABLES
    key,            \* VaultState: the key (with its salt), or NoKey
    values,         \* VaultState: the secrets
    vault,          \* the inode at the path of the vault, 0 for no file
    tmp,            \* the inode at the temporary name
    node,           \* node[i]: the contents of an inode
    job,            \* job[t]: the call of a thread
    salts,          \* salts drawn so far
    calls, faults,  \* calls and faults so far
    last,           \* last[k]: the last change of a secret, and what came of it
    met             \* two calls overlapped

memoryVars == <<key, values>>
fileVars == <<vault, tmp, node>>
vars == <<memoryVars, fileVars, job, salts, calls, faults, last, met>>

Empty == [k \in Keys |-> NoSecret]
NoKey == [password |-> NoPassword, salt |-> 0]
Unlocked == key # NoKey

(* There are never more files than the vault, the temporary one and those  *)
(* that are open.                                                          *)
Inodes == 1..(Cardinality(Threads) + 2)
Contents(k, v) == [whole |-> TRUE, key |-> k, values |-> v]
Partial == [whole |-> FALSE, key |-> NoKey, values |-> Empty]

Idle == [op |-> "none", at |-> "idle", name |-> 0, contents |-> Partial, inode |-> 0]
Failed(j) == [j EXCEPT !.at = "failed"]

VaultInit ==
    /\ key = NoKey /\ values = Empty
    /\ vault = 0 /\ tmp = 0
    /\ node = [i \in Inodes |-> Partial]
    /\ job = [t \in Threads |-> Idle]
    /\ salts = 0 /\ calls = 0 /\ faults = 0
    /\ last = [k \in Keys |-> [secret |-> NoSecret, by |-> "ok"]]
    /\ met = FALSE

----------------------------------------------------------------------------
At(t, point) == job[t].at = point
Go(t, j) == job' = [job EXCEPT ![t] = j]

Fault(kind) ==
    /\ kind \in Faults
    /\ faults < MaxFaults
    /\ faults' = faults + 1

Begin(t) ==
    /\ At(t, "idle") /\ calls < MaxCalls
    /\ calls' = calls + 1
    /\ met' = (met \/ \E u \in Threads : ~At(u, "idle"))

(* unlock with a vault: it is read and decrypted under the mutex; a wrong  *)
(* password or a damaged vault changes nothing.                            *)
Opens(password) == node[vault].whole /\ node[vault].key.password = password

Unlock(t, password) ==
    /\ Begin(t)
    /\ vault # 0
    /\ IF Opens(password)
       THEN key' = node[vault].key /\ values' = node[vault].values
       ELSE UNCHANGED memoryVars
    /\ UNCHANGED <<fileVars, job, salts, faults, last>>

(* unlock without one: an empty vault is made in memory, then persisted.   *)
Create(t, password) ==
    /\ Begin(t)
    /\ vault = 0 /\ salts < MaxSalts
    /\ salts' = salts + 1
    /\ key' = [password |-> password, salt |-> salts + 1]
    /\ values' = Empty
    /\ Go(t, [Idle EXCEPT !.op = "create", !.at = "snapshot"])
    /\ UNCHANGED <<fileVars, faults, last>>

Lock(t) ==
    /\ Begin(t)
    /\ key' = NoKey
    /\ values' = Empty
    /\ UNCHANGED <<fileVars, job, salts, faults, last>>

(* set and delete change memory, and then persist.  Without a key they are *)
(* refused.                                                                *)
Change(t, k, s) ==
    /\ Begin(t)
    /\ IF Unlocked
       THEN /\ values' = [values EXCEPT ![k] = s]
            /\ Go(t, [Idle EXCEPT !.op = "change", !.at = "snapshot", !.name = k])
            /\ last' = [last EXCEPT ![k] = [secret |-> s, by |-> t]]
       ELSE UNCHANGED <<values, job, last>>
    /\ UNCHANGED <<key, fileVars, salts, faults>>

(* persist: memory is encrypted under the mutex.  The vault may have been  *)
(* locked since.                                                           *)
Snapshot(t) ==
    /\ At(t, "snapshot")
    /\ Go(t, IF Unlocked THEN [job[t] EXCEPT !.at = "open", !.contents = Contents(key, values)]
             ELSE Failed(job[t]))
    /\ UNCHANGED <<memoryVars, fileVars, salts, calls, faults, last, met>>

(* write_vault: create or truncate the temporary file, write it, sync it   *)
(* and set its mode, rename it.                                            *)
Used == {vault, tmp} \union {job[t].inode : t \in Threads}
Fresh == CHOOSE i \in Inodes : i \notin Used
\* Mutant: the vault itself is opened and truncated.
OpenedInPlace == IF vault = 0 THEN Fresh ELSE vault

Opened == IF tmp = 0 THEN Fresh ELSE tmp

OpenTmp(t) ==
    /\ At(t, "open")
    /\ tmp' = Opened
    /\ node' = [node EXCEPT ![Opened] = Partial]
    /\ Go(t, [job[t] EXCEPT !.at = "write", !.inode = Opened])
    /\ UNCHANGED <<memoryVars, vault, salts, calls, faults, last, met>>

(* Who writes over what another thread wrote since leaves its own contents *)
(* or a mixture.                                                           *)
Written(t) == {job[t].contents} \union (IF node[job[t].inode].whole THEN {Partial} ELSE {})

WriteTmp(t) ==
    /\ At(t, "write")
    /\ \E c \in Written(t) : node' = [node EXCEPT ![job[t].inode] = c]
    /\ Go(t, [job[t] EXCEPT !.at = "rename"])
    /\ UNCHANGED <<memoryVars, vault, tmp, salts, calls, faults, last, met>>

Close(j, point) == [j EXCEPT !.at = point, !.inode = 0]

Rename(t) ==
    /\ At(t, "rename")
    /\ IF tmp = 0
       THEN Go(t, Close(job[t], "failed")) /\ UNCHANGED <<vault, tmp>>
       ELSE Go(t, Close(job[t], "done")) /\ vault' = tmp /\ tmp' = 0
    /\ UNCHANGED <<memoryVars, node, salts, calls, faults, last, met>>

(* Any of the steps may fail; the temporary file is removed when its mode  *)
(* cannot be set or it cannot be renamed.                                  *)
FailOpen(t) == At(t, "open") /\ Fault("open") /\ UNCHANGED <<tmp, node>>
FailWrite(t) ==
    /\ At(t, "write") /\ Fault("write")
    /\ node' = [node EXCEPT ![job[t].inode] = Partial]
    /\ UNCHANGED tmp
FailSync(t) == At(t, "rename") /\ Fault("sync") /\ UNCHANGED <<tmp, node>>
FailRename(t) ==
    /\ At(t, "rename")
    /\ Fault("permissions") \/ Fault("rename")
    /\ tmp' = 0
    /\ UNCHANGED node

\* Mutant: an error of the last step is dropped.
AfterFailureDone(j) == Close(j, "done")

AfterFailure(j) == Close(j, "failed")
FailPersist(t) ==
    /\ FailOpen(t) \/ FailWrite(t) \/ FailSync(t) \/ FailRename(t)
    /\ Go(t, AfterFailure(job[t]))
    /\ UNCHANGED <<memoryVars, vault, salts, calls, last, met>>

(* The call returns; what became of the change is remembered, if no other  *)
(* change of the same secret came after it.                                *)
Return(t) ==
    /\ At(t, "done") \/ At(t, "failed")
    /\ last' = IF job[t].op = "change" /\ last[job[t].name].by = t
               THEN [last EXCEPT ![job[t].name].by = IF At(t, "done") THEN "ok" ELSE "failed"]
               ELSE last
    /\ Go(t, Idle)
    /\ UNCHANGED <<memoryVars, fileVars, salts, calls, faults, met>>

Exit ==
    /\ Fault("exit")
    /\ key' = NoKey /\ values' = Empty
    /\ job' = [t \in Threads |-> Idle]
    /\ last' = [k \in Keys |-> IF last[k].by \in Threads THEN [last[k] EXCEPT !.by = "failed"]
                               ELSE last[k]]
    /\ UNCHANGED <<fileVars, salts, calls, met>>

VaultNext ==
    \/ \E t \in Threads :
        \/ \E p \in Passwords : Unlock(t, p) \/ Create(t, p)
        \/ Lock(t)
        \/ \E k \in Keys, s \in Secrets \union {NoSecret} : Change(t, k, s)
        \/ Snapshot(t) \/ OpenTmp(t) \/ WriteTmp(t) \/ Rename(t)
        \/ FailPersist(t) \/ Return(t)
    \/ Exit

VaultSpec == VaultInit /\ [][VaultNext]_vars

----------------------------------------------------------------------------
VaultTypeOK ==
    /\ key.salt \in 0..MaxSalts
    /\ values \in [Keys -> Secrets \union {NoSecret}]
    /\ vault \in {0} \union Inodes /\ tmp \in {0} \union Inodes
    /\ node \in [Inodes -> [whole : BOOLEAN, key : [password : Passwords \union {NoPassword},
                                                    salt : 0..MaxSalts],
                            values : [Keys -> Secrets \union {NoSecret}]]]
    /\ met \in BOOLEAN

(* When all calls have returned, what was reported as stored is on disk,   *)
(* in a vault that opens: "restart with the same password restores         *)
(* accounts" (docs/auth/linux-headless.md:53).  Not kept when two threads  *)
(* write at the same time.                                                 *)
OnDisk(k) == vault # 0 /\ node[vault].whole /\ node[vault].values[k] = last[k].secret

Reported(k) == last[k].by = "ok" /\ last[k].secret # NoSecret

AcceptedIsOnDisk ==
    (\A t \in Threads : At(t, "idle")) => \A k \in Keys : Reported(k) => OnDisk(k)

(* The same of calls that do not overlap, whatever fails and wherever the  *)
(* process ends; and what was deleted does not come back either.           *)
AcceptedSurvives ==
    ~met => \A k \in Keys : last[k].by = "ok" =>
        OnDisk(k) \/ (vault = 0 /\ last[k].secret = NoSecret)

(* The vault on disk is never a torn one, and what failed to be written    *)
(* does not stand in its way: the key in memory is the key of the vault.   *)
(* Calls that overlap are left out.                                        *)
VaultStaysWhole ==
    ~met /\ vault # 0 =>
        /\ node[vault].whole
        /\ Unlocked /\ (\A t \in Threads : At(t, "idle")) => node[vault].key = key
=============================================================================
