---------------------------- MODULE KeyringStore -----------------------------
(***************************************************************************)
(* SystemKeyringStore: one key of the keyring of the system.  A secret     *)
(* that is too long for an entry is cut into chunks, each an entry of its  *)
(* own, under a manifest.  The clients are processes that share the        *)
(* keyring; inside a process a mutex is held for a whole call.  Every call *)
(* of the keyring is a step and may fail, a process may end between any    *)
(* two, and somebody may change a chunk.                                   *)
(*                                                                         *)
(* A secret is a sequence of characters, which have one or two UTF-16      *)
(* units.  A generation is a number: the code draws 12 random bytes.  The  *)
(* hash of a secret stands for the secret: hashes are taken not to         *)
(* collide.                                                                *)
(***************************************************************************)
EXTENDS Naturals, Sequences

CONSTANTS
    Processes,      \* processes
    Width,          \* Width[x]: the UTF-16 units of a character
    Secrets,        \* sequences of characters
    Garbage,        \* what somebody may write over a chunk
    MaxUnits,       \* KEYRING_CHUNK_MAX_UTF16_UNITS
    MaxChunks,      \* KEYRING_CHUNK_MAX_COUNT
    NoSecret,
    Faults,         \* what may go wrong, among Faulty
    MaxGens,        \* bound: generations that are ever drawn
    MaxCalls,       \* bound: calls
    MaxFaults       \* bound: things that go wrong

(* "late": an entry is written and an error is reported all the same.      *)
Faulty == {"get", "set", "late", "delete", "exit", "damage"}

\* What the constants must be.
KeyringAssumption ==
    /\ Width \in [DOMAIN Width -> 1..MaxUnits]
    /\ Secrets \subseteq Seq(DOMAIN Width)
    /\ Garbage \subseteq Seq(DOMAIN Width)
    /\ NoSecret \notin Secrets
    /\ MaxUnits \in Nat \ {0} /\ MaxChunks \in Nat \ {0}
    /\ Faults \subseteq Faulty
    /\ MaxGens \in Nat /\ MaxCalls \in Nat /\ MaxFaults \in Nat

VARIABLES
    entry,          \* what the keyring holds under the key itself
    chunk,          \* chunk[<<g, i>>]: the entry of a chunk, never empty, or Missing
    job,            \* job[c]: the call of a client, after its last step
    gens,           \* generations drawn so far
    calls,          \* calls so far
    faults          \* faults so far

(* What the properties need to know of the past.                           *)
VARIABLES
    harmed,         \* generations whose manifest or chunks were spoiled
    littered        \* something may have been left in the keyring

entryVars == <<entry, chunk>>
pastVars == <<harmed, littered>>
keyringVars == <<entryVars, job, gens, calls, faults, pastVars>>

----------------------------------------------------------------------------
(* secret_utf16_units: the units of the first i characters, for every i.   *)
UnitsTo(s) ==
    LET units[i \in 0 .. Len(s)] == IF i = 0 THEN 0 ELSE units[i - 1] + Width[s[i]]
    IN  units
Units(s) == UnitsTo(s)[Len(s)]

(* split_secret_chunks: the chunks that are done, the open one and its     *)
(* units after the first i characters, for every i.  A character is added  *)
(* to the open chunk while it fits.                                        *)
\* Mutant: the width of the next character is left out of the comparison.
FitsSoFar(cut, x) == cut.units < MaxUnits \/ cut.open = <<>>

Fits(cut, x) == cut.units + Width[x] <= MaxUnits \/ cut.open = <<>>

AddChar(cut, x) ==
    IF Fits(cut, x)
    THEN [cut EXCEPT !.open = Append(@, x), !.units = @ + Width[x]]
    ELSE [done |-> Append(cut.done, cut.open), open |-> <<x>>, units |-> Width[x]]

NoCut == [done |-> <<>>, open |-> <<>>, units |-> 0]
Cuts(s) ==
    LET cut[i \in 0 .. Len(s)] == IF i = 0 THEN NoCut ELSE AddChar(cut[i - 1], s[i])
    IN  cut
Split(s) == LET cut == Cuts(s)[Len(s)] IN Append(cut.done, cut.open)

Short(s) == Units(s) <= MaxUnits

(* What the key may hold.                                                  *)
Nothing == [kind |-> "nothing", gen |-> 0, count |-> 0, secret |-> <<>>]
Plain(s) == [Nothing EXCEPT !.kind = "plain", !.secret = s]
Manifest(g, s) == [kind |-> "manifest", gen |-> g, count |-> Len(Split(s)), secret |-> s]
HasManifest(e) == e.kind = "manifest"

Names == (1..MaxGens) \X (1..MaxChunks)
Missing == <<>>
Chunks(e) == {e.gen} \X (1..e.count)

(* A call: where it is, the entry it found, the generation it writes, the  *)
(* index of the next chunk, what it has read so far, whether it has taken  *)
(* effect, and whether it returns an error.                                *)
Idle == [op |-> "none", at |-> "idle", secret |-> <<>>, found |-> Nothing, gen |-> 0,
         next |-> 1, told |-> <<>>, done |-> FALSE, failed |-> FALSE]
Ended(j) == [j EXCEPT !.at = "end"]
Failed(j) == [Ended(j) EXCEPT !.failed = TRUE]

KeyringInit ==
    /\ entry = Nothing
    /\ chunk = [n \in Names |-> Missing]
    /\ job = [c \in Processes |-> Idle]
    /\ gens = 0
    /\ calls = 0
    /\ faults = 0
    /\ harmed = {}
    /\ littered = FALSE

----------------------------------------------------------------------------
At(c, point) == job[c].at = point
Go(c, j) == job' = [job EXCEPT ![c] = j]

Fault(kind) ==
    /\ kind \in Faults
    /\ faults < MaxFaults
    /\ faults' = faults + 1

Untouched == UNCHANGED <<gens, calls, pastVars>>
Smoothly == UNCHANGED <<calls, faults, pastVars>>

Changes(c) == job[c].op \in {"set", "delete"}
Litter(left) == littered' = (littered \/ left)

(* A change that meets another one may leave entries behind.               *)
Begin(c) ==
    /\ At(c, "idle") /\ calls < MaxCalls
    /\ calls' = calls + 1
    /\ \/ Go(c, [Idle EXCEPT !.op = "get", !.at = "read"]) /\ Litter(FALSE)
       \/ \E s \in Secrets :
            /\ Go(c, [Idle EXCEPT !.op = "set", !.at = "read", !.secret = s])
            /\ Litter(\E d \in Processes : Changes(d))
       \/ /\ Go(c, [Idle EXCEPT !.op = "delete", !.at = "read"])
          /\ Litter(\E d \in Processes : Changes(d))
    /\ UNCHANGED <<entryVars, gens, faults, harmed>>

(* get: the entry, then the chunks it names, in order, then the hash.      *)
ReadEntry(c) ==
    /\ At(c, "read") /\ job[c].op = "get"
    /\ Go(c, [job[c] EXCEPT !.at = "part", !.found = entry, !.done = TRUE,
                 !.told = IF HasManifest(entry) THEN <<>> ELSE entry.secret])
    /\ UNCHANGED <<entryVars, gens>> /\ Smoothly

ReadChunk(c) ==
    LET j == job[c]
        found == chunk[<<j.found.gen, j.next>>]
    IN  /\ At(c, "part") /\ j.next <= j.found.count
        /\ Go(c, IF found = Missing THEN Failed(j)
                 ELSE [j EXCEPT !.next = @ + 1, !.told = @ \o found])
        /\ UNCHANGED <<entryVars, gens>> /\ Smoothly

\* Mutant: chunks are put together without a look at the hash.
HashIgnored(j) == TRUE

HashAgrees(j) == j.told = j.found.secret
CheckHash(c) ==
    /\ At(c, "part") /\ job[c].next > job[c].found.count
    /\ Go(c, IF HashAgrees(job[c]) THEN Ended(job[c]) ELSE Failed(job[c]))
    /\ UNCHANGED <<entryVars, gens>> /\ Smoothly

(* set: what is to be replaced is looked up first.                         *)
\* Mutant: the chunks of every secret have the same names.
GenerationFixed == 1

Generation == gens + 1

Prepare(c) ==
    LET j == [job[c] EXCEPT !.found = entry]
    IN  /\ At(c, "read") /\ j.op = "set"
        /\ \/ /\ Short(j.secret)
              /\ Go(c, [j EXCEPT !.at = "publish"])
              /\ UNCHANGED gens
           \/ /\ ~Short(j.secret) /\ Len(Split(j.secret)) > MaxChunks
              /\ Go(c, Failed(j))
              /\ UNCHANGED gens
           \/ /\ ~Short(j.secret) /\ Len(Split(j.secret)) <= MaxChunks
              /\ gens < MaxGens
              /\ gens' = gens + 1
              /\ Go(c, [j EXCEPT !.at = "write", !.gen = Generation])
        /\ UNCHANGED entryVars /\ Smoothly

Name(j) == <<j.gen, j.next>>
Text(j) == Split(j.secret)[j.next]

WriteChunk(c) ==
    LET j == job[c] IN
    /\ At(c, "write")
    /\ chunk' = [chunk EXCEPT ![Name(j)] = Text(j)]
    /\ Go(c, [j EXCEPT !.next = @ + 1,
                 !.at = IF j.next = Len(Split(j.secret)) THEN "publish" ELSE "write"])
    /\ UNCHANGED <<entry, gens>> /\ Smoothly

NewEntry(j) == IF j.gen = 0 THEN Plain(j.secret) ELSE Manifest(j.gen, j.secret)
\* Mutant: nothing is cleaned up behind a manifest.
SweepingNothing(j) == [j EXCEPT !.at = "sweep", !.next = j.found.count + 1]

Sweeping(j) == [j EXCEPT !.at = "sweep", !.next = 1]

Publish(c) ==
    /\ At(c, "publish")
    /\ entry' = NewEntry(job[c])
    /\ Go(c, Sweeping([job[c] EXCEPT !.done = TRUE]))
    /\ UNCHANGED <<chunk, gens>> /\ Smoothly

(* A write that fails ends the call; the chunks written before are deleted *)
(* first.                                                                  *)
Undoing(j) == [j EXCEPT !.at = "undo"]

FailWrite(c) ==
    /\ At(c, "write") \/ At(c, "publish")
    /\ Fault("set")
    /\ Go(c, Undoing(job[c]))
    /\ UNCHANGED entryVars /\ Untouched

FailLate(c) ==
    LET j == job[c] IN
    /\ Fault("late")
    /\ \/ /\ At(c, "write")
          /\ chunk' = [chunk EXCEPT ![Name(j)] = Text(j)]
          /\ Go(c, Undoing(j))
          /\ UNCHANGED <<entry, harmed>>
       \/ /\ At(c, "publish")
          /\ entry' = NewEntry(j)
          /\ Go(c, Undoing([j EXCEPT !.done = TRUE]))
          /\ harmed' = harmed \union {j.gen}
          /\ UNCHANGED chunk
    /\ Litter(TRUE)
    /\ UNCHANGED <<gens, calls>>

(* A deletion that fails is not tried again.                               *)
Discard(name) ==
    \/ /\ chunk' = [chunk EXCEPT ![name] = Missing]
       /\ UNCHANGED <<faults, littered>>
    \/ /\ Fault("delete")
       /\ Litter(TRUE)
       /\ UNCHANGED chunk

DeleteWritten(c) ==
    LET j == job[c] IN
    /\ At(c, "undo")
    /\ \/ /\ j.gen # 0 /\ j.next > 1
          /\ Go(c, [j EXCEPT !.next = @ - 1])
          /\ Discard(<<j.gen, j.next - 1>>)
       \/ /\ j.gen = 0 \/ j.next = 1
          /\ Go(c, Failed(j))
          /\ UNCHANGED <<chunk, faults, littered>>
    /\ UNCHANGED <<entry, gens, calls, harmed>>

(* delete: the entry, and whether that works or not, the chunks that it    *)
(* named.                                                                  *)
LookUp(c) ==
    /\ At(c, "read") /\ job[c].op = "delete"
    /\ Go(c, [job[c] EXCEPT !.found = entry, !.at = "erase"])
    /\ UNCHANGED <<entryVars, gens>> /\ Smoothly

Erase(c) ==
    LET j == job[c] IN
    /\ At(c, "erase")
    /\ \/ /\ entry' = Nothing
          /\ Go(c, Sweeping([j EXCEPT !.done = TRUE]))
          /\ UNCHANGED <<faults, harmed>>
       \/ /\ Fault("delete")
          /\ Go(c, Sweeping([j EXCEPT !.failed = TRUE]))
          /\ harmed' = harmed \union {j.found.gen}
          /\ UNCHANGED entry
    /\ UNCHANGED <<chunk, gens, calls, littered>>

(* The chunks of the entry that was replaced or deleted; one that stays    *)
(* does not stop the others, and only delete reports it.                   *)
Sweep(c) ==
    LET j == job[c] IN
    /\ At(c, "sweep")
    /\ \/ /\ j.next <= j.found.count
          /\ Discard(<<j.found.gen, j.next>>)
          /\ Go(c, [j EXCEPT !.next = @ + 1,
                       !.failed = @ \/ (j.op = "delete" /\ faults' # faults)])
       \/ /\ j.next > j.found.count
          /\ Go(c, Ended(j))
          /\ UNCHANGED <<chunk, faults, littered>>
    /\ UNCHANGED <<entry, gens, calls, harmed>>

Leave(c) ==
    /\ At(c, "end")
    /\ Go(c, Idle)
    /\ UNCHANGED <<entryVars, gens>> /\ Smoothly

----------------------------------------------------------------------------
(* The keyring cannot be read.                                             *)
FailRead(c) ==
    /\ At(c, "read") \/ (At(c, "part") /\ job[c].next <= job[c].found.count)
    /\ Fault("get")
    /\ Go(c, Failed(job[c]))
    /\ UNCHANGED entryVars /\ Untouched

Exit(c) ==
    /\ ~At(c, "idle")
    /\ Fault("exit")
    /\ Go(c, Idle)
    /\ Litter(Changes(c))
    /\ UNCHANGED <<entryVars, gens, calls, harmed>>

Damage ==
    /\ Fault("damage")
    /\ \E n \in Names :
        /\ chunk[n] # Missing
        /\ \E d \in Garbage \union {Missing} :
              d # chunk[n] /\ chunk' = [chunk EXCEPT ![n] = d]
        /\ harmed' = harmed \union {n[1]}
    /\ UNCHANGED <<entry, job, gens, calls, littered>>

KeyringNext ==
    \/ \E c \in Processes :
        \/ Begin(c)
        \/ ReadEntry(c) \/ ReadChunk(c) \/ CheckHash(c)
        \/ Prepare(c) \/ WriteChunk(c) \/ Publish(c)
        \/ FailWrite(c) \/ FailLate(c) \/ DeleteWritten(c)
        \/ LookUp(c) \/ Erase(c) \/ Sweep(c) \/ Leave(c)
        \/ FailRead(c) \/ Exit(c)
    \/ Damage

KeyringSpec == KeyringInit /\ [][KeyringNext]_keyringVars

----------------------------------------------------------------------------
KeyringTypeOK ==
    /\ entry.secret \in Secrets \union {<<>>} /\ entry.gen \in 0..MaxGens
    /\ DOMAIN chunk = Names
    /\ gens \in 0..MaxGens /\ harmed \subseteq 0..MaxGens
    /\ littered \in BOOLEAN

(* The manifest under the key has all its chunks, of its own secret,       *)
(* whatever processes write, delete and clean up at the same time and      *)
(* wherever they end.  Except for what was damaged, for a manifest that    *)
(* was written though an error was reported, and for one that delete could *)
(* not erase: delete goes on with its chunks (keyring_store.rs:335).       *)
EntryIsWhole ==
    HasManifest(entry) /\ entry.gen \notin harmed =>
        \A n \in Chunks(entry) : chunk[n] = Split(entry.secret)[n[2]]

(* When nobody changes anything, the keyring holds no piece of a secret    *)
(* that was replaced or deleted, or that was refused half-way: unless a    *)
(* process ended in a change, two processes changed the key at the same    *)
(* time, or an entry could not be deleted.                                 *)
NoPieceIsLeft ==
    ~littered /\ (\A c \in Processes : ~Changes(c)) =>
        \A n \in Names : chunk[n] # Missing => HasManifest(entry) /\ n \in Chunks(entry)

(* No entry is longer than the keyring of the system takes, wherever wide  *)
(* characters fall.                                                        *)
EntriesFit ==
    /\ entry.kind = "plain" => Units(entry.secret) <= MaxUnits
    /\ \A n \in Names : chunk[n] # Missing /\ n[1] \notin harmed =>
          Units(chunk[n]) <= MaxUnits

(* Seen from outside this is a store of whole secrets: what get tells is   *)
(* the secret that was under the key at some moment of the call, and what  *)
(* set and delete report as done is done.                                  *)
Told(s) == IF s = <<>> THEN NoSecret ELSE s

Outcome(j) ==
    CASE j.at # "end" -> "pending"
      [] j.at = "end" /\ j.failed -> "error"
      [] OTHER -> "ok"

AsCall(j) ==
    [op |-> j.op,
     secret |-> IF j.op = "set" THEN j.secret ELSE NoSecret,
     done |-> j.done,
     result |-> IF j.op # "get" \/ ~j.done THEN NoSecret
                ELSE IF Outcome(j) = "ok" THEN Told(j.told) ELSE Told(j.found.secret),
     outcome |-> Outcome(j)]

Contract ==
    INSTANCE SecretStore WITH
        Clients <- Processes, Blank <- Secrets \intersect {<<>>},
        value <- Told(entry.secret),
        call <- [c \in Processes |-> AsCall(job[c])]

ImplementsSecretStore == Contract!SecretSpec
=============================================================================
