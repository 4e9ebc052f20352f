# A TLA+ model of aifluxon

aifluxon is an embeddable engine that runs language-model agents: a host asks
for a *run*, the engine alternates model turns and tool calls, asks the host to
approve what its policy does not allow outright, streams events and persists
the conversation. This directory models the parts of the engine where threads,
tasks, hosts, processes and files meet, checks them with TLC on small
instances, and proves the most important properties with TLAPS for every
instance. The source is the reference: every definition that models code names
its lines in `PROJECT.json` (`map`).

## 1. Inventory

### Components, state, operations

| Component | Source (crates/…) | State | Operations |
|---|---|---|---|
| Operation store | `aifluxon-runtime/src/operations.rs` | operations per run with mode, state, decision; set of terminal runs; a `Notify` | `register`, `resolve`, `wait`, `wait_for_commit_or_reject`, `begin_commit`, `finish_commit`, `finish_blocking_approval`, `cancel_run`, `expire`, `remove` |
| Run table | `…/run_table.rs` | run state, event log, parent, cancellation token, hooks | `start`/`register`, `set_state`, `emit`, `finish_*`, `cancel`, `cancel_tree`, `register_cancellation_hook`, `events_since` |
| Coordinator | `…/coordinator.rs`, `budget.rs`, `continuation.rs`, `tools/policy.rs`, `tools/executor.rs` | budget, continuation counts, ledger of executed invocations, messages | `run_registered_model_tool_loop`, `execute_registered_tool` |
| Session stores | `…/state.rs`, `json_store.rs` | session records under a revision; on disk one file each, an index, a lock file | `load`, `save` (compare and swap), `delete`, `list` |
| Launch (facade) | `aifluxon-api/src/backend.rs` | nothing of its own; calls all of the above | `start`, `start_on`, `cancel`, sessions, operations |
| Event stream | `backend.rs` (`spawn_event_forwarder`), `stream.rs`, `run.rs`, `result.rs` | position in the log, bounded channel | forwarding, `RunHandle::events`, `result` |
| Python run | `bindings/python/python/aifluxon/agent.py`, `bindings/python/src/lib.rs` | asyncio queue, result future, pump task | `events()`, `result()` |
| Codex authentication | `aifluxon-auth/src/codex/*` | accounts, a login in progress, secrets per account | login, refresh, logout, seed |
| Secret stores | `aifluxon-auth/src/{keyring,encrypted,secret}_store.rs` | chunks in a keyring; an encrypted vault | get, set, delete, unlock |
| Provider turn engine | `aifluxon-providers/src/openai_compatible/*` | attempts, partial answers and calls | `next_turn`, both protocols, the body of a request |
| HTTP and decoders | `…/common/*`, `…/tool_deltas.rs` | bytes, lines and texts that have arrived so far | `send_http`, UTF-8, SSE and text decoding, assembly of calls |
| Provider families | `…/{qwen,kimi,gemini,deepseek,custom}` | text held back inside a tag | filters of a stream |
| Context | `aifluxon-runtime/src/context.rs`, `aifluxon-api/src/prompt.rs` | none | pruning of a history, merging of a prompt |
| Core types, validation, builder, other Python | | none | translation between formats |

### How they interact

A host calls `Aifluxon::start`. *Launch* loads the session, registers the run in
the *run table*, starts the *event forwarder*, loads the provider's opaque
state, saves a checkpoint and spawns a task. The task runs the *coordinator*,
which calls the provider, asks the policy about every tool call, registers an
*operation* and awaits the host's decision where approval is needed, executes
the tool and records the result. When the loop returns, the task saves session,
provider state and checkpoint and finishes the run in the table. Meanwhile the
host may answer operations, cancel runs or trees of runs, and read events; all
of them share the run table and the operation store, whose locks are taken one
after the other and never together with an await. A provider makes a *body* of
the messages, asks its *authentication* for a bearer (which asks a *secret
store*), sends the request, decodes the stream and shows text to the run's sink
while it assembles the turn.

### What is hard

* Every await is a place where a cancellation, another run of the same session
  or the host's answer comes in; the run table and the operation store are two
  locks, so that what one says may be old when the other is asked.
* Approvals are waited for with a `Notify`, read-then-wait.
* Calls of a parallel turn share the run, its ledger and its state.
* Sessions are shared by runs, threads and processes; records, index, provider
  state and checkpoints are written one after the other and any write may fail.
* Events pass two bounded buffers to a reader that may be slow or absent.
* Login, refresh and logout of one account overlap; secrets are several entries
  of a keyring that processes share, or one file that threads write.
* A request may have been worked on although its answer was lost; deadlines,
  refreshes and fallbacks repeat what is already a repetition.
* A stream ends anywhere, in a character, a line, a tag or an argument; servers
  tell one answer in deltas, in snapshots, twice, or in another order.
* A session passes from one protocol to another, each with its own form of what
  was said.

### What makes each component correct

* Operation store: one answer per operation, the waiter is told that answer, a
  settled operation stays settled, nothing is live in a run that is over, no
  wake-up is lost.
* Run table: one terminal event, the last one, which agrees with the state; end
  states are final; cancellation reaches operations, hooks and descendants.
* Coordinator: nothing is executed without its approval, its announcement and
  its budget, or twice; whatever fails, no operation stays open; every run ends.
* Session stores: no accepted message is lost, nothing deleted comes back; the
  file store is as good as an atomic one in spite of crashes and errors.
* Launch: what is reported Completed is persisted; every run that was started
  ends; opaque state stays with its session and provider.
* Event stream and Python run: the host sees the log, all of it, in order and
  once; the result tells how the run ended and arrives.
* Secret stores: what is read is one whole secret that somebody stored; what was
  reported as stored is there after a failure and a restart.
* Provider turn: what the server said arrives whole, once, in its own channel;
  nothing broken becomes a turn; work that has effects is not asked for twice;
  every call ends; the next request tells all that was said, once, in order,
  each call with its answer.

The hazards behind these, line by line, are in `PROJECT.json` (`hazards`),
with a note where a property leaves something out.

## 2. Modules

| Module | Models | Used by |
|---|---|---|
| `OperationStore` | the operation store, its waiters and hosts | extended by `RunTable` |
| `RunTable` | the run table composed with its operation store | extended by `Coordinator` |
| `Coordinator` | the task of one run over both | `MCCoordinator` |
| `SessionStore` | the contract of a session store, and the one in memory | instantiated by `JsonSessionStore`, extended by `Stores` |
| `JsonSessionStore` | the session store on files | |
| `Launch` | a run from request to outcome, over the contracts of the stores | |
| `EventStream` | log, forwarder, channel, `RunHandle` | extended by `PythonRun` |
| `PythonRun` | the Python pump, queue and result future behind the stream | |
| `CodexAuth` | the sign-in state of Codex accounts over a secret store | |
| `SecretStore` | the contract of a secret store, and the one in memory | instantiated by `KeyringStore` |
| `KeyringStore` | chunked secrets in the keyring of a system | extended by `Stores` |
| `EncryptedVault` | the secrets in an encrypted file | instantiated by `Stores` |
| `ContextPruning` | a history pruned again and again | extended by `Stores` |
| `Stores` | the session store, the pruned histories, the keyring and the vault, side by side | `MCStores` |
| `TurnEngine` | one call of `next_turn`, its attempts and fallbacks | extended by `Provider` |
| `HttpRetry` | one request and its retries | `Provider` |
| `StreamDecoder` | bytes to events to the assembler | `Provider` |
| `TurnParts` | the operators both protocols share | extended by the two |
| `ChatTurn`, `ResponsesTurn` | an answer told in either protocol, and the turn made of it | `Provider` |
| `FamilyFilters` | tags cut anywhere (Kimi, Gemini, Qwen) | `Provider` |
| `TurnHistory` | the body of the next request, over runs and providers | `Provider` |
| `Provider` | the parts of a turn side by side, and what they promise together | `MCProvider` |
| `LaunchProofs`, `JsonSessionStoreProofs`, `CodexAuthProofs` | the theorems about the module of that name | |
| `CoordinatorProofs` | the theorems about `OperationStore`, `RunTable` and `Coordinator` | |
| `EventStreamProofs` | the theorems about `EventStream` and `PythonRun` | |
| `StoresProofs` | the theorems about `SessionStore`, `ContextPruning`, `KeyringStore` and `EncryptedVault`, alone and in `Stores` | |
| `ProviderProofs` | the theorems about `TurnEngine` and `HttpRetry`, alone and in `Provider`, and about the turns that `StreamDecoder`, `ChatTurn` and `ResponsesTurn` make, in `Provider` | |
| `Folding` | what folding an operation over a sequence does, step by step | instantiated by `ProviderProofs` |
| `MC*` | values of the constants for TLC, and bounds (`MCTurnCases`: the requests, bodies and answers of `MCProvider`) | |

### OperationStore

`ops` holds the records (`"Absent"` before registration and after removal),
`terminalRuns` the runs the store takes for over. Each method is a *result*
(what it returns, from its guards in the order of the code) and an action that
applies it. `wait` and `wait_for_commit_or_reject` are a critical section that
reads (`WaitRead`) and an await that any `notify_waiters` ends
(`NotifyWaiters`); the `Notified` future is created before the record is read,
which is what makes it safe. Deadlines may pass at any time.

### RunTable

`finish`, `cancel` and `cancel_tree` release the table's lock before they take
the store's, so each is several steps of a caller (`FinishCheck`, `FinishSet`,
`FinishMark`; `CancelSet`, `CancelOps`, `CallHook`, `CancelReturn`; `TreeStart`,
`TreeNext`, `TreeReturn`), and the calls of several callers interleave.
`set_state`, `emit`, registration and hooks are one critical section each.

### Coordinator

One run. `lpc` is the place in the loop, a *slot* per call of the turn the place
in `execute_registered_tool`. Calls of a parallel turn are polled by one task
(`join_all`): between two awaits only one of them steps (`CanStep`). Providers
end a turn in every way `ProviderTerminal` knows; hosts approve, reject, commit,
cancel, expire, or say nothing. `limits` is what the run was started with: a limit of
`u32::MAX` is none (`Reached`), and with both of them disabled the run is *unlimited*,
with no limit of continuations and no wall time either (`Continues`,
`WallTimeChecks`). Counts saturate at `U32Max`. What the task does with the stores
after the loop is in `Launch`.

### SessionStore and JsonSessionStore

A client (a run, or a session call of the host) makes a call, the call takes effect, the
call returns. In `SessionStore` the effect is one step, as in `InMemorySessionStore`; an
error may come before or after it, a client may die in a call, and the sessions in
`Removable` may be deleted or lose their record. A list may lack sessions without saying
so (`ListPart`): the file store leaves out what its directory could not give.
`JsonSessionStore` does the same calls with the steps of the files: take the lock, read
and check, write, scan and write the index, drop the lock; with I/O errors, deaths and
damage in between. `Scan(seen)` is the listing of the directory, in which any entry may
be missing; `overlooked` remembers the records that the present holder of the lock was
not given. The refinement mapping is `records <- Readable`: the record files, without
those that are damaged, since nobody can read a damaged one. A damaged file is renamed
away by whoever meets it, which changes nothing in the contract's state.

### Launch

`pc[r]` is the next await of `launch` or of the task, `request[r]` what it was asked
for. The session store is used through its contract, the provider-state store is the one
on files, whose file name contains a *cleaned* provider name (`Stem`), and checkpoints
are in memory. How the loop returns is left open. `Faults` says which stores may fail. A
host may have an operation open on the runs in `Held` when they end: `Finish` may then
be refused, and the task is over (`unfinished`) while the run is live. `DeleteSession`
deletes a record and nothing else; `deleted` remembers for which sessions that happened.
A provider state carries the messages it was left with, so that `ProviderStateFits` can
ask whether it belongs to the conversation it is sent with.

### EventStream and PythonRun

An event is its sequence number: the proof about `RunTable` shows that logs are
numbered without gap. The forwarder reads the log, waits (a notification or 5 ms),
shows an event to the sink, waits for room. The 5 ms poll makes a lost
notification harmless, so notifications are not modelled. In `PythonRun`
the handle belongs to a host in Rust, as in `EventStream`, or to the pump of
Python's `Run`.

### CodexAuth

`secret`, `index` and `legacy` are what the secret store holds, `cached` and
`cachedIndex` what the manager remembers, `job[c]` what a caller is doing. Each call of
the secret store and each use of a cache is a step, since the store's mutexes are never
held across two of them; the migration is under a mutex of its own, a refresh under the
lock of its account, a sign-in, a sign-out and a look at the status under none. A grant
is one answer of the token endpoint, and a token is the number of the grant it came
with, so that `spent` can say which refresh tokens the endpoint has replaced. A call of
the secret store that fails may have taken effect (`DoneInVain`), as `SecretStore`
allows. Five variables remember what the properties make exceptions for: `dropped`
(refresh tokens whose replacement was lost on the way or not stored to the end), `torn`
(accounts whose last change was cut off by an error or the end of the process), `apart`
(nobody was in the credential store while another signed in or out or migrated, or while
a refresh with a late answer brought back an account that had been signed out),
`abandoned` (an attempt to sign in was dropped) and `astray` (a write of the index
failed and took effect, and the index has not been written since). The ID token and the
metadata, the third and the fourth secret, are folded into the other two; the clock is
left out, so that a token may or may not be due whenever it is looked at; `seed_account`
is what a sign-in does once it has its tokens.

### SecretStore, KeyringStore, EncryptedVault

`SecretStore` is what `CodexAuth` relies on: a call takes effect at one moment,
and one that fails may have taken effect or not. `KeyringStore` does the same
calls with one step per entry of the keyring: `entry` is the key itself, a secret
or a manifest; `chunk` the numbered entries of a generation. Processes share the
keyring, any call of it may fail, one may be done and reported as failed, a
process may end between two, and somebody may overwrite a chunk. Hashes do not
collide, so that the hash of a secret is the secret. `ImplementsSecretStore` maps
the keyring to the contract: what is stored is what a `get` would now put together
and whose hash agrees.

`EncryptedVault` keeps inodes apart from names, since two threads write through
one temporary name, and a file that is renamed is still the one that is open.
Memory is changed under the mutex; the vault is written after it is released.

### TurnEngine and HttpRetry

`TurnEngine` is one call of `next_turn`: `phase` is the await it is in, and the
server, the deadline of an attempt, the sleep and the coordinator that drops the
call are the other actors. What a body says is two facts here: whether it showed
the sink anything, and whether it ended in a turn, an error or an error that may be
tried again. The checks of DeepSeek images are operators over the references of a
request. `HttpRetry` is the other loop, `send_http`, which the other users of the
HTTP helpers have: replay policies, statuses, kinds of failures, `Retry-After`, and a
clock in ticks.

### StreamDecoder

A body is a sequence of units in which the line ends, the two bytes of a character and
the fields are told apart, and what is in a payload matters only for whether it is an
error, terminal, or no JSON; a value may have white space around it. A chunk is any next
part of it; after any chunk the stream may end or break. `CutsDoNotMatter` compares what
the assembler was handed with the events of the whole body, by a reference that knows no
chunks.

### TurnParts, ChatTurn, ResponsesTurn

The server holds an answer and tells it in a style: in pieces or cumulative texts,
calls by index or by id, with their identity once or each time, in deltas or
snapshots or both, with sequence numbers, ids or neither, with events that arrive
again. The assembler is the code's, and what it makes of the events is compared with
the answer. An honest answer is one whose style is consistent; the styles are those
of the vendors that the repository has families for. The finish reason
`content_filter` stands for every one that the code does not name.

### FamilyFilters

A text comes in pieces that end inside tags; `pending` is what a filter holds back.
`WholeSplit` is the reference: the text as a whole, cut at its tags. `Undecided` is an
answer of Qwen that may yet become a summary: the bare opening tag, or its beginning.

### TurnHistory

`session` pairs the messages with `told`, the list of all that was ever said, in
order. Each run takes a provider, merges the prompt, asks, and appends turns, results
and continuations as the coordinator does; the body is the code's, in either
protocol. The invariants compare the body with `told`; `dropped` are the thoughts of
turns that were nothing but a summary. The last message of such a turn is the prompt
to go on, which tells the summary.

### ContextPruning

`Prune` is `prune_preserving_tool_pairs`; its loops, which walk to the nearest
message of a kind, are sets with the one place at which they stop. A host says
something, takes a turn with calls and results, or prunes, any number of times.

## 3. What is checked

All runs finish in less than five minutes. Runs marked ✗ are expected to end in
a counterexample: they state what a doc says and show that the code does
otherwise (section 5).

| Run | Instance | Shows |
|---|---|---|
| `operation_store` | two operations, three waiters, hosts; 220,000 states | one answer, told to its waiter; final; wake-ups |
| `run_table` | a run and its child, two callers; 640,000 states | one terminal event that agrees with the state; hooks once; whole trees |
| `coordinator` | four menus (below); 322,000 states | approved, announced, paid, within limits; once; nothing left open; cancellation ends the task; the run reaches an end |
| `coordinator_twice` ✗ | the same | executed twice |
| `json_store` | two clients, two sessions on files; 360,000 states | implements the contract; the index; every call returns |
| `launch` | two runs, three requests, failing stores, a deletion, a refused finish, a restart; 139,000 states | what is stored agrees with how the run ended; provider state is own and fits; every run with a handle ends |
| `launch_abandoned` ✗ | the same | a registered run that never ends |
| `python_run` | channel of one place, queue of two, six events, a Rust or a Python host; 10,600 states | in order, once, complete; both results; no forwarder left; readers finish |
| `python_run_result` ✗ | the same | `result()` never completes without a reader |
| `codex_auth` | two accounts; either one with legacy secrets and two callers at a time, or both signed in and three callers that refresh and sign out; callers are symmetric; 695,000 states | no replaced refresh token is sent again; caches agree with the store; no lock or flag is left behind |
| `stores` | sessions, pruned histories, a keyring and a vault, each on its own; 1,230,000 states, names and processes symmetric | no lost update, nothing deleted comes back; calls stay with results; secrets are whole; the keyring implements the contract |
| `provider` | the seven parts of a turn, each on its own; 389,000 states | answers arrive whole; no turn from a failure; work is asked for once; the history is told; calls end |

Three runs join what shares no state, with a variable that says whose behaviour this is
(`part`, `menu`), so that each part is checked on all of its behaviours and on none that
mixes them. In `coordinator` the menu is what providers, tools and hosts may do:
`asking` has two rounds of turns with two calls that need approval, one after the other
or side by side; `ending` every way a call can go and the ends of a turn, deadlines, and
an operation of a host; `twice` a turn that names an invocation twice; `long` runs with
one limit disabled or both, whose provider continues and calls again and again.

Some properties of these runs are conjunctions, whose parts are named and commented
in their modules:

| Property | Parts |
|---|---|
| `ExecutionsAreCovered` | `ExecutesWithApproval`, `ExecutionsAnnouncedAndPaid`, `LimitsAreKept` |
| `NothingStaysOpen` | `NothingLeftBehind`, `StateSaysWhoIsAwaited`, `TaskLeavesNothingOpen` |
| `StoredAsItEnded` | `CompletedIsPersisted`, `CheckpointTellsTheEnd` |
| `ProviderStateFits` | `OpaqueStateIsOwn`, `StateHasItsMessages` |
| `ProgramSeesTheRun` | `YieldsTheLog`, `FutureTellsTheEnd` |
| `WaitsForTheRunEnd` | `ResultReturnsAtLast`, `ForwarderEnds`, `ReadersFinish` |
| `SecretsStayWhole` | keyring: `EntryIsWhole`, `NoPieceIsLeft`, `EntriesFit`; vault: `AcceptedSurvives`, `VaultStaysWhole` |
| `AnswersArriveWhole` | `CutsDoNotMatter`; `TextIsWhatWasSent`; `TurnIsTheAnswer`, `HonestIsBelieved`; `NoTagIsShown`, `SinkHasTheTurn`, `MarksDivide`, `OnlySummariesGoOn` |
| `NoTurnFromAFailure` | `NoTurnFromATruncation`; `OnlyWholeCallsRun`, `TurnSaysSomething`; `NoTurnFromAFailure` of `ResponsesTurn` |
| `WorkIsAskedOnce` | `OneAttemptIsSeen`, `HostedWorkOnce`, `RequestsBounded`, `OnlyAcceptedIsSent`; `StatefulOnce`, `ServerWaitIsKept`, `WorkBounded` |
| `HistoryIsTold` | `CallsAreAnswered`, `SaidOnceInOrder`, `NothingIsForgotten`, `SystemIsReplaced` |
| `CallsEnd` | `Ends` of `TurnEngine` and of `HttpRetry` |

The type invariants stand in their modules for the reader, and that of `RunTable` is
proved (`TableTypes`); the runs list the properties that say more.

### Bounds

Two operations and three waiters show every race of the store, since operations
only meet through the run and the `Notify`; two callers and a parent with a
child show every interleaving of two multi-step calls. A turn has up to two
calls, which is what it takes for calls to meet; there are five operation
identifiers, so that a fresh one is always there. `MaxEvents` bounds streamed
deltas (Coordinator) and logs (streams). Limits are three rounds and three
invocations, two of one and none of the other, or none; with `U32Max` = 5, rounds and
invocations that have no limit pass the number where the others stop, and reach the
one where they saturate. Two clients are enough to save between
another's load and its save; `MaxRevision` 2 lets a save meet both an absent and
a present record (1 on files, where the steps are many). Two runs are what it
takes for one to meet the session or the state of another; one of them (`Held`) has an
operation of the host. The channel and the
queue of 128 places are scaled down to one and two so that six events fill them
more than once. In `CodexAuth`, two calls of any kind and then a refresh show what the two
left behind, and three callers let two refreshes cross a sign-out; the grants are
the first ones and two more, so that a token is replaced and its replacement is
replaced; one fault (`MaxFaults`) shows every single failure at every step.

`stores`: entries of two units and up to two chunks with characters of one and two units
make a secret fit, be cut on the edge of a wide character, or be refused; three
generations let a process replace what another is replacing. Two faults of the vault let
a failed write be followed by a failed recovery. Histories of up to five turns are
pruned to nothing, to less than one call with its results, and to more. `provider`:
three attempts are the code's own bound; texts repeat their letters, since a reconciler
can only be wrong where an end of one text is the beginning of another; streams hold
every kind of line end, comment, field and broken character next to every chunk border;
two calls with interleaved arguments, by index, by id, and with one identity; up to
three items of different kinds with one event that arrives again; texts of up to three
tags, beginnings of tags and letters; two runs and up to five statements pass a session
between six pairs of protocol and family. Servers give waits below and above the minute.

The theorems below do not depend on any of these bounds.

### Fairness

* `OperationStore`: a task that was notified is polled again. Hosts owe nothing.
* `Coordinator`: `CodeFairness` is that threads inside a call go on, that the
  executor polls the task, and that a cancelled provider turn or tool execution
  returns, which the code ensures by `select`ing on the token.
  `EnvironmentFairness` (turns and tools end, hosts answer) is a premise of
  `RunEnds` alone, which is false without it. So is `ProviderComesToAnEnd`: the
  provider of an unlimited run asks for a last round at some time, since nothing in
  the code would stop it (section 5, 23). A run with any limit ends without it.
* `JsonSessionStore`: workers go on; strong fairness on `Lock`, because the
  system's file lock serves those who wait though others take it in between.
  That is an assumption about the system, and so is the release of the locks of
  a dead process.
* `Launch`: `launch` and its task go on. That the loop returns is `RunEnds`.
* `EventStream`, `PythonRun`: forwarder, pump and a started read go on; nothing
  makes a program read.
* `TurnEngine`: what is polled goes on (`Run`), the deadline of an attempt and a sleep
  pass. Servers and networks owe nothing: it is the deadline that ends a silent body.
* `HttpRetry`: the same for its steps, a sleep and the clock; a request is answered
  or fails, which the timeouts of the HTTP client ensure, and so is the bearer.
* `CodexAuth` and `MCStores`: none; their properties are about safety.

`CHECK_DEADLOCK FALSE` stands where everything may be over: all runs have
ended, or nobody will act again.

## 4. What is proved

TLAPS checks these for any sets of runs, operations, waiters, callers, clients
and sessions, any capacity and any bound.

* `CoordinatorProofs`. Of the operation store: the inductive invariant joins the types
  to: an accepted answer is the one on the record, it is the only one, a waiter that
  returned was told it (`WaitersAreToldTheAnswer`), and a run in `terminalRuns` has
  nothing pending or approved. The record's part is needed because what a waiter is told
  depends on the state it finds, not on the answer. Of the run table: the invariant
  extends the store's by what every caller that is between its two locks has established
  (that is why table and store may differ, and for how long), by the shape of logs, and
  by who has taken which hook. `TreesAreCancelled` needs what `cancel_tree` has seen so
  far: every run of its snapshot it has passed is over or cancelled, whoever ended it.
  Of the task of a run: `CoordInv` extends the table's invariant by the control of the
  loop and its slots (which places go together: calls side by side are at most one ahead
  of the others), by what a slot at its place knows of its operation (asked, answered,
  committing, and that nobody else has taken it), by how log, budget and ledger count
  executions, by the state of the run, and by who answers for an operation that is open.
  From it follow approval, announcement and limits (`EveryExecutionIsCovered`; of limits
  those that are not disabled), what a round and a task leave behind
  (`NothingIsLeftOpen`), and that an invocation executes at most once
  (`EachInvocationExecutesOnce`). The last has a hypothesis, `NoTwins`: no turn whose
  calls run side by side names an invocation twice. The code does not ensure it, and
  without it the theorem is false (section 5, 1, run `coordinator_twice`).
* `LaunchProofs`. The copy a run works on is a beginning of what is stored under the
  revision it was loaded with, by which compare-and-swap makes a completed run part of
  its session for good (`WhatIsStoredIsTheEnd`) and no save rewrites the messages of
  another run (`NoRunIsOverwritten`), both as long as nobody deletes the session. A
  provider-state file is read together with the name of who wrote it, which is why two
  providers with one file name never get each other's state, in whichever life of a
  session (`StateIsTheProvidersOwn`).
* `StoresProofs`, conversations. A copy with the revision that is stored contains all that
  is stored, in a session that nobody deletes, which makes compare-and-swap lose
  nothing (`CompareAndSwapLosesNothing`, `AcceptedSavesStay`). In any session a
  copy of revision 0 is empty but for what its client adds
  (`DeletedStaysDeleted`). What pruning keeps of the rest of a history is an end of
  it, so that only its first message could lose what it follows, and the walks end
  at one that is no result (`PairsAlwaysStay`, for any history, any limit and any
  number of prunings). How much is kept needs to know where results can be:
  `RecentInv` says that those without a call follow the stable prefix and nothing
  else, and that any other has its call at most `MaxResults` before it with only
  results between. So the walk back from the place the count says ends at a call
  that is near, and the walk forward passes orphans only (`PruningKeepsTheRecent`).
* `JsonSessionStoreProofs`. Whoever works holds the lock, and between check and write
  the file has the revision that was checked; each step then maps to a step of the
  contract or to a stutter (`FileStoreImplementsContract`), and the index is derived
  (`IndexIsDerived`) from all records but the `overlooked` ones. The safety part of the
  refinement is all there is: the contract has no fairness.
* `EventStreamProofs`. The log is cut, in order, into what the host was given,
  what is in the channel, what waits for room and what is in the batch; only its
  last event can be terminal, and the forwarder stops there. The queue of the Python
  run goes on where the program is, up to what the pump was given or the end mark,
  so that `events()` yields the log from its start (`ProgramsSeeTheRun`); and the
  pump uses the stream as a host in Rust may (`PumpIsAHost`: each step of `PythonRun`
  is a step of `EventStream` or a stutter).
* `CodexAuthProofs`. `LockInv` joins the types to the places of each operation (what a
  caller at a point does, which of the three locks it holds there and which account it
  is about): no account lock, no migration mutex and, unless an attempt was dropped, no
  sign-in flag outlives its holder (`NothingIsLeftLocked`). `GrantInv`: there is a map
  from grants to accounts by which every token that is stored, cached or in the hands of
  a call belongs to the account it is there for, so that no token is kept for two
  (`TokensStayWithTheirAccount`). `ApartInv`, while `apart`: what a call in the store
  has written, read or deleted so far is still there; no call has a token in its hands
  that was replaced; a token that is stored and was replaced is replaced by the refresh
  that holds the account's lock and is still storing its answer; and the cached index is
  the stored one but for a call that has just written it and is alone, and while the
  index is `astray`. The owner map is what makes two refreshes with one token refreshes
  of one account, which its lock keeps apart. From these follow `CachesTellTheStore` and
  `SpentTokensAreNotSent`.
* `StoresProofs`, secrets. First what `Split` does to a secret of any length: no chunk has
  more units than fit, and none is empty. `Units` and `Split` are recursive functions of
  a position, so this is an induction; it is done from the least number that lacks a
  property (`LeastNumber`), for a set of numbers instead of a predicate, which the
  provers can instantiate. `KeyringInv` has four parts. `ShapeInv`: the types and what
  a call at a place knows. `DrawnOnce`: a generation that is being written is not under
  the key and belongs to one call; one that is being removed is not under the key, unless
  it was `harmed`. `ChunkInv`: which chunks a manifest under the key, and a call on its
  way, has there. `NoLitter`, while not `littered`: every chunk belongs to the manifest
  under the key or to the one call that will remove it. From these follow
  `KeyringEntryIsWhole`, `KeyringNoPieceIsLeft` and `KeyringEntriesFit`; and each step
  maps to a step of `SecretStore` or to a stutter (`KeyringImplementsSecretStore`): a
  `get` takes effect when it reads the manifest, a `set` when it writes it, a `delete`
  when it erases it, and a hash that agrees is what lets a `get` return.
  Then the vault, for any threads, secrets, passwords and failures. `VaultInv` speaks
  of histories in which no two calls overlapped so far, since the temporary name is
  shared and the promise fails when they do (section 5, 13). In these one call at
  most is under way (`OneCall`), and its place tells what is in memory, in the
  temporary file and in the vault (`CallInv`): it writes what is in memory now, to a
  file that is not the vault, and is only done when that has become the vault. The
  vault is whole and opens with the key in memory (`FileInv`), and what was reported is
  in it, and in memory too unless that is locked (`KeptInv`): without the part about
  memory a later change, which writes all of memory, could lose it. So a failure, or
  the end of the process, at any point leaves the vault of before or of after
  (`VaultKeepsWhatItAccepted`, `VaultIsWhole`). Assumed: finitely many threads.
* Side by side. In `Stores` and `Provider` one part moves at a time and the others keep
  the state they began with, so that a step of the whole is a step or a stutter of each
  part. `StoredSecretsAreWhole`, `StoresHaveASecretStore` and `StoresKeepConversations`
  carry the theorems of the parts over to `StoresSpec`, `RepetitionsAreSafe` and
  `FailuresMakeNoTurn` those of a provider to `ProviderSpec`, under the assumptions of
  all parts.
* `ProviderProofs`, repetitions. `TurnInv` counts, for every place where a call of
  `next_turn` may wait, what it may have cost: requests per bearer, bearers per attempt,
  attempts so far (`SentInv`); once the server may have worked on what it hosts, the
  call is never again where a request is sent (`HostedInv`); the sink has seen the
  present attempt or none, and one that was seen is not followed by another (`SeenInv`);
  and what left `start` was accepted as it is now, with or without tools
  (`AcceptedInv`). The bound on requests is a product, which the prover needs in steps
  of one attempt. `HttpInv` does the same for the tries of one request, with the clock:
  a sleep ends when the server wants to be asked again, or later (`ClockInv`). The four
  parts of `WorkIsAskedOnce` about the call and the three about a request are theorems
  of their own, and `RepetitionsAreSafe` states the property as a whole; the assumptions
  are that requests are records of their kind (`CallsAssumption`) and that waits are
  numbers (`TickAssumption`).
* `ProviderProofs`, answers: `FailuresMakeNoTurn`, the property `NoTurnFromAFailure`,
  for any bodies, any cuts of them, any answers of any length and any number of calls.
  The code repeats an operation over the bytes of a chunk, the characters of a block,
  the events of a buffer, the items of a response and the calls of a message; all of
  these are folds, and a fold is defined by a recursion over sets of positions.
  `Folding` shows once, for any operation, that it takes the elements one after the
  other (`FoldSteps`), so that what each step keeps the whole keeps (`FoldKeeps`); the
  induction is over sets of numbers, as with secrets: `Counting` is a hypothesis of both
  theorems, which `ProviderProofs` discharges with `NaturalsCount` for each operation
  that the models fold. `ResponsesInv`: only a terminal event tells the assembler how
  the answer ended, and the logged events, which may be sent again, are those of this
  server. `ChatInv` says where each call of the server is. Told by its place or in a
  message (`ByPlace`), its slot has what has been sent of it so far. Told whole but
  without a place, each call makes a slot of its own (`OneEach`), or one slot has the
  arguments of two (`RunTogether`), which is why no such answer is a turn: they are no
  JSON object, and never become one. So a turn has each call whole, and says something.
  `DecoderInv` relates text to bytes: `Traced` gives each character in the buffer the
  place of the last byte it was decoded of. Line ends and marks are single bytes and
  nothing is decoded between the characters of an end of an event, so an event that ends
  in the text ends in the body, behind the mark of the terminal event; what is no stream
  is kept whole, and only white space follows the `}` that closes a JSON value. The
  assumptions are that the server is a server: a body has one closing `}`
  (`BodiesAssumption`), arguments are whole objects and no piece of a call could be
  taken for a missing field, a vendor that repeats names is one whose contract replaces
  them, no two calls of a Gemini message have one id (`AnswersAssumption`, section 5,
  22), and the items of a response are of the known kinds (`PlansAssumption`).

Assumptions on constants are the `ASSUME`s of the modules; TLC evaluates them. `Stores`
and `Provider` define those of all their parts (`SecretsAssumption`,
`ProviderAssumption`), which the theorems have as hypotheses, and `MCStores` and
`MCProvider` assume them of their values.

Only model-checked: that the text and the calls of an answer arrive whole, once and in
order (`AnswersArriveWhole`: `StreamDecoder`, `ChatTurn`, `ResponsesTurn`,
`FamilyFilters`), what the next request is told (`HistoryIsTold`: `TurnHistory`), both
of which compare what folds and recursive functions make of a text in two ways, and all
liveness (fairness and `ENABLED` are out of the prover's reach). No module uses a
recursive operator; the induction theorems of the library have a predicate as parameter,
which the provers cannot instantiate, so the inductions of `StoresProofs` and
`ProviderProofs` are for sets.

## 5. Where the code and its documentation disagree

Shown by a run:

1. The ledger is read before and written after the execution: two parallel calls
   with one invocation id both execute (`coordinator_twice`).
2. A store that fails between registration and spawn leaves a run that nobody
   ends (`launch_abandoned`).
3. `Run.result()` of the Python package waits behind the queue of events: a
   program that does not iterate the events of a run with more than 127 of them
   waits for ever (`python_run_result`).

The models have these behaviours too, and the properties make an exception for
them where it matters:

4. `finish` looks at the operations (`run_table.rs:316-323`) before it locks the
   table: an operation that a host registers and begins to commit in between is
   left Committing in a finished run. `StoreFollowsTable` excludes Pending and
   Approved only.
5. The errors of `finish_*` are dropped (`backend.rs:258`, `261`, `292`): with an
   operation of a host pending, the run stays Running for good. `RunEnds`,
   `TaskLeavesNothingOpen` (`HostOps`) and `HandledRunsEnd` (`unfinished`) name this
   exception.
6. `delete` forgets the revision (`state.rs:149`): a run of the first life of a
   session can overwrite the first record of its second life. `NoLostUpdate` is
   about the sessions outside `Removable`, `CompletedIsPersisted` about those that
   nobody has `deleted`.
7. Different provider ids are cleaned to one file name (`json_store.rs:340`): a run
   of one provider renames away or overwrites the state of the other
   (`LoadState`, `SaveState`). `OpaqueStateIsOwn` shows that at least neither is
   ever sent the other's.
8. A child registered after `cancel_tree` took its snapshot (`run_table.rs:394`) is
   not cancelled with the tree; with calls in parallel, the first answer sets the
   run to Running while another operation waits (`coordinator.rs:344`); a sink is
   not served while the channel is full (`backend.rs:522`). Nothing in the
   repository says what should happen there.
9. A sign-in stores its tokens outside the lock of the account (`mod.rs:290`): a
   refresh that reads the secrets while they are written sends the sign-in's
   refresh token, and the sign-in then caches the token that has just been spent.
   A refresh that is under way during a sign-out brings the account back
   (`mod.rs:215`). `NeverSendsSpentToken` and `CacheAndStoreAgree` leave out what was
   not `apart`.
10. The account index is read, changed and written without a lock (`store.rs:148-157`):
    of two accounts that are added at the same time, one is lost. So is the account that
    a late answer brings back after a sign-out (9), when another refresh stores its
    record at the same time: its secrets stay (`store.rs:337-364`) and no sign-out finds
    them. docs/python/auth.md promises that accounts are there after a restart.
11. The status at the end of the first sign-in migrates (`mod.rs:296`), which writes
    the legacy tokens of the account over the new ones. The cache keeps the new ones
    until the process ends. `Agrees` names this case; docs/auth/codex-oauth.md:13
    says that a sign-in persists its credentials.
12. `CodexLoginAttempt` has no `Drop`: an attempt that is neither waited for nor
    cancelled, or whose wait is dropped, leaves `login_in_progress` set
    (`mod.rs:231-261`) and every later sign-in of the process is refused.
    `NothingStaysLocked` names this exception (`abandoned`).
13. The vault is written outside the lock (`encrypted_store.rs:172`): of two threads,
    the one that read memory first may rename last, and both write one temporary file.
    A set that was reported as stored is then not on disk, or the vault is torn, though
    docs/auth/linux-headless.md:53 says that a restart restores accounts. An unlock
    between the change and the write of another thread drops the change.
    `AcceptedIsOnDisk` states the promise; `AcceptedSurvives` and `VaultStaysWhole` leave
    out calls that overlap (`met`).
14. A `delete` of the keyring whose manifest could not be deleted deletes the chunks all
    the same (`keyring_store.rs:335-340`): the secret is there by its manifest and cannot
    be read. `EntryIsWhole` names what is `harmed` so.
15. With `retry_without_tools_on_tool_mode_error`, a request with hosted work that failed
    with a status of the server is sent again without tools (`mod.rs:633`), and the
    fallback refreshes the bearer once more (`mod.rs:516`). docs/api-reliability.md:8 says
    that such failures are not replayed and that there is one refresh per attempt
    (`HostedWorkNeverReplayed`, `OneRefreshPerAttempt`, which fail).
16. The custom provider looks for cumulative texts in any stream (`custom/mod.rs:17`): a
    server that sends pieces loses one that begins with all that was said before, as in
    an answer of repeated letters (`TextIsWholeForAll`).
17. A terminal event whose response has no output is taken for an empty text, which
    contradicts a text that an event has completed (`delta.rs:101`,
    `HonestIsAlwaysBelieved`).
18. What Qwen's filter still holds at the end of a stream is in the turn and never shown
    (`qwen/mod.rs:268`, `343`, `SinkAlwaysHasTheTurn`): an answer that is the opening tag
    of a summary, or its beginning. `SinkHasTheTurn` names exactly these (`Undecided`).
19. Two runs of one session save their provider states in the order in which they get
    there (`backend.rs:233`): the file may end with the state of the earlier turn.
    docs/python/sessions.md:64 makes stale writes conflicts, for session records, and says
    nothing of these files (`StateGoesForward`).
20. A system message said later joins the stable prefix when what is between them is cut
    off (`context.rs:97`); the test at line 129 wants such messages outside of it
    (`PrefixStaysStable`).
21. A server that gives two calls no id, or the id of an earlier one, gives them one key
    (`tool_deltas.rs:167`), and the ledger answers the second with the result of the first.
    A turn may also call any tool that is registered, since `allowed_tools` only limits
    what a provider is shown. Nothing in the repository says otherwise.
22. In a message of Gemini that is not a stream, the second of two calls with one id takes
    the place of the first (`tool_deltas.rs:80-84`), which is then never executed, while in
    a stream their arguments run together. Nothing in the repository says what should
    happen; `AnswerOK` leaves such messages out.
23. With both limits `u32::MAX` a run has no limit of rounds, tools, continuations or time
    (`aifluxon-core/src/run.rs:22-35`, tests `continuation.rs:167`, `budget.rs:142`): a provider that
    asks to go on each time is asked for ever, until somebody cancels. This is meant;
    `LimitsAreKept` and `RunEnds` name it (`IsUnlimited`, `ProviderComesToAnEnd`).
24. The scan for a list or an index drops the directory entries it cannot read
    (`json_store.rs:106-109`): `list` is answered with Ok and lacks records, and a save or
    delete that succeeds leaves an index that lacks them until the next one.
    docs/python/sessions.md:62 calls the index derived from the records.
    `IndexFollowsRecords` and `ListPart` name what was `overlooked`.
25. `delete_session` deletes the record and leaves the provider states of the session
    (`backend.rs:406-412`): a run that makes the session anew is given the opaque state of
    the deleted conversation. `StateHasItsMessages` is about sessions that nobody has
    `deleted`; that the state is one the same provider left for that session holds all
    the same (`OpaqueStateIsOwn`).
26. A write of the account index that fails after it took effect leaves the cached index as
    it was (`store.rs:128-142`), and callers are told of the cached one until the index is
    written again or the process restarts. `Agrees` names this case (`astray`).
27. A turn of Qwen that is nothing but a summary is continued with the prompt alone
    (`continuation.rs:53-55`): over Responses, its reasoning items are never told again.
    `NothingIsForgotten` names these (`dropped`).

The definitions named in 13 and 15 to 20 stand in their modules next to the properties
that hold, and no run lists them.

## 6. Not modelled

Of authentication, PKCE, URLs, the parsing of callbacks and tokens, and a failing
sign-in that is dropped while the browser is told so.
`run_model_tool_loop` and `execute_once`, a simpler loop for hosts and tests; the
contents of messages, prompts, results and errors; the selection of tools; token
budgets, which have no limit in runs started by the facade; that the record of
`create_session` is there before the first run; the `delete` methods
of the provider-state and checkpoint stores, which nothing calls; a caller of
the file store that drops its future while the worker goes on; JSON formats,
cryptography, builders, scripts.

Of the provider turn: a byte order mark; a stream without a content type that begins
with `retry:` and is therefore never taken for one; the case of tags; a chunk of
Gemini that is marked as thought and ends in the beginning of a tag
(`gemini/mod.rs:105-165`); reasoning that a provider sends apart from the text, which
the filters pass on as it is; images and files in messages, signatures and extra
content, hosted tools in bodies; a session that was imported in the items of one
protocol and goes on in the other. Which tools and flags decorate a body is a table
without state.

Of the context: the hash of the prefix, `preserve_opaque_continuation`, and the
registry of skills. The terminal guard is not used by the engine. Whether a tool is
registered and its arguments fit its schema are inputs of `Coordinator`; the schema
validator and the permission scopes are pure functions.

## 7. Plan

1. Proofs: that an answer arrives whole (`AnswersArriveWhole`), first of `StreamDecoder`:
   `Traced` would have to say that each byte has its character, and a reference
   definition of the events of a text would have to be related to `Drain`.
2. Abstract specifications: a run's life (Live, then one outcome) implemented by
   `RunTable`, and an approval (asked, answered once, told) implemented by
   `OperationStore`; both as refinements, checked and proved.
3. The validation of arguments against a reference definition.
