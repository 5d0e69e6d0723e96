# Verification of MewuAI

TLA+ models, TLC runs and TLAPS proofs for the desktop agent in this repository (a Rust/Tauri host with a
TypeScript renderer).  All paths below are relative to the repository; `core/` abbreviates
`crates/mewu-core/src/` and `host/` abbreviates `apps/desktop/src-tauri/src/`.

The project looks at what is hard to test in this program: what a crash leaves behind, what a late answer or a
late acknowledgement changes, what an exit that is given up half-way reopens, what a background thread misses,
and what a component still does after it lost the right to.  Every definition is translated from the source,
at the lines `PROJECT.json` names; numbers and payloads are abstracted to what the properties tell apart,
control is not.

## 1. The system

| Component | State it keeps | Operations and interactions | What is hard | What makes it correct |
|---|---|---|---|---|
| Run journal (`core/journal.rs`, `journal_store.rs`, `journal_types.rs`) | one record per agent run, one receipt per model request and per tool call, checkpoints, provenance of continuations; in SQLite | begin/record a model request, propose, dispatch, answer, refuse or give up a call, commit a local result with its receipt, forget evidence, continue a settled run; reconciled by every snapshot write | crash between dispatch, effect and answer; answers after the run ended; revisions read earlier than used | a receipt never claims more or less than what happened; no call is made twice; the call limit holds; the steps shown to the user agree |
| Snapshot store (`core/store.rs`) | scenes, messages, runs, agents, connections, MCP servers, one payload row with a revision | scene commands, run begin/finish/cancel, connection and server edits, recovery at open | the same change is made in the snapshot and in several side ledgers of one transaction | scenes, live runs and running records agree; changing a server cancels what depends on it; a stale revision is refused |
| WAL maintenance (`core/checkpoint_worker.rs`) | a thread, a channel of one message, two flags, the writer's checkpoint policy | start, notify after each commit, pause, drain, resume | lost wakeups, thread death between check and send, joining a sleeping thread | the log is always looked after by someone; drains return and cover |
| Exit gate (`host/lifecycle.rs`) | phase, reservation, current attempt with reply and MCP ticket, hook preflight | request, hook preflight, begin, announce, acknowledge, advance, settle, drains, relocation request, final shutdown, abort | two requests, timeouts racing replies, failure half-way, new work admitted meanwhile | nothing unsaved, nothing running, nothing left closed, every attempt ends |
| Renderer exit preparation (`apps/desktop/src/exit-preparation.ts`) | the attempt it prepares, the attempts it knows cancelled, its edit lock | prepare, flush drafts, finish, cancel; commands to and events from the host | awaits between its steps; events out of order | unlocked again whenever the exit is off |
| MCP runtime (`host/mcp_runtime.rs`, `mcp_host.rs`) | registry epoch, quiesce ticket, slots, child processes | start process, close session, reap, begin quiesce, resume, drain, final shutdown | waiters that cross a barrier | no process of an older epoch |
| Run task (`host/agent_loop.rs`, `agent_execution.rs`, `journal_runtime.rs`, `run_cancellation.rs`, `main.rs`) | per run: a cancellation channel, an agent grant, the loop's counters | checks before a send, rounds of model turns and calls within 12 rounds/32 calls/a time limit; finish, fail, cancel | completion racing cancellation, revocation while an effect is under way, a write that fails | a live run has a task that will end it; a run that ended or lost its grant sends nothing more; its receipts are true |
| Local tools (`crates/mewu-agent-tools/`, `host/owned_process.rs`) | a queue of file mutations, a worker thread per call, process trees | read, search, edit, shell | a worker outlives the call that started it; others change the same file | no edit overwrites a change it has not seen |
| Session titles (`host/session_title.rs`) | up to four jobs | claim, request, late commit, cancel all, drain | scheduled while draining; committed for another conversation | nothing scheduled behind an exit |
| Storage root (`host/storage_root.rs`, `storage_host.rs`) | a bootstrap ledger (profile, transfers), owner and source markers, the two trees | request, copy, verify, activate, trial, commit, roll back, cancel, abandon | crash at any step of a relocation | exactly one root in force, no data lost, no root revived |
| Long-term memory (`core/memory.rs`, `host/memory_tools.rs`) | entries, revisions, quotas | mutate with source and receipt, forget | effect and receipt in one transaction | a local result is committed with its receipt |
| External memory ledger (`core/external_memory.rs`) | outbox of operations with claims | claim, record, recover | leases across restarts | not used by the program at this commit |
| Context projection (`host/agent_context.rs`, `core/context_store.rs`) | summaries keyed by a prefix hash | cut, summarise, reuse | budgets at their limits | the current message is never cut |
| Hooks (`crates/mewu-hooks`, `host/hooks/`) | rules with revisions, a bounded event queue, pending keys, slots, the jobs map, the generation of the grant | match events, queue, test, execute action by action, cancel, edit rules, change of the grant, before-quit rules, pause, drain, resume, shut down | admission before registration; a rule edited while its job is anywhere; blocking threads that outlive their caller; the worker fills the queue it empties | what was stopped passes no further check; nothing acts behind a drain; the engine comes to rest |
| Control server (`crates/mewu-control`, `host/app_control_host.rs`, `apps/desktop/src/app-control.ts`) | receipts of operations with nonce, lease and grant; the page's pending jobs, its lane and the identifiers it remembers | accept, notify, notify again, claim, execute, report, expire, forget, reload, revoke, exit | lost, repeated and late messages; a reload between any two of them; the grant read before the lock; a page that hangs | an operation runs at most once and its receipt says so; nothing is handed out under an old grant; every request settles |
| Extensions (`crates/mewu-extension`, `host/extension_*.rs`) | packages, workers, leases, grants | install, enable, call, revoke, stop | authority revoked while a call is under way | no effect under a revoked lease |
| Plugins and agents (`host/plugins.rs`, `plugin_host.rs`, `optional_capabilities.rs`) | the enabled plugins with the revisions of their grants | enable, disable, update; then reconcile what holds the old grant | the commit and its consequences are two steps | whoever holds an old grant is stopped |
| Recording, capture, OCR, video, translation, pins, drawing, windows | native resources and job registries | start, cancel, drain | native callbacks | out of scope (section 7) |
| Providers, credentials, updates, UI, SDK, CLI | | | | out of scope (section 7) |

## 2. Modules

| Module | Role |
|---|---|
| `CallLedger` | abstract specification: what a ledger of external calls promises; with the proof that it is honest |
| `DataHome` | abstract specification: what the relocation of the data directory promises |
| `Departure` | abstract specification: what leaving the application promises |
| `RunJournal` | the journal and the part of the store that begins and ends runs; implements `CallLedger` |
| `AgentLoop` | a send, the run's task, the worker thread of its file edits, and those who end it meanwhile; its calls implement `CallLedger` |
| `HookQueue` | the hooks engine: queue, jobs, their actions, rule edits, grant changes and the exit as it sees it |
| `AppControl` | operations that command line and hooks ask of the space: the host's receipts and the page that executes them; its receipts implement `CallLedger` |
| `CheckpointWorker` | the store's maintenance thread |
| `ExitGate` | exit gate, renderer preparation and MCP admission, composed in one module because the code composes them under one mutex; implements `Departure` |
| `StorageRoot` | the storage ledger, the directories and the relocation of the data; implements `DataHome` |
| `<M>Proofs` for each of the last seven | type correctness and the safety theorems of `M` |
| `MC<M>` for each of the last seven | its instances for TLC |

Composition is by the code's own seams.  `AgentLoop` uses the receipts of `RunJournal` reduced to the phase of
each call: `RunJournal` lets the host do anything the Store permits and shows what the receipts then mean,
`AgentLoop` shows what the host does.  `ExitGate` sees the hooks as a preflight that returns and a pause;
`HookQueue` is the engine behind it, with the exit reduced to what it asks of the hooks.  `AppControl` and
`HookQueue` meet in `execute_native`, which is a caller in the one and an action that runs in the other. A
module that held several of these would be beyond TLC at any bound that lets their own hazards happen.

### CallLedger, DataHome and Departure

The three abstract specifications say what the rest of the program may rely on, in a few variables.

- `CallLedger` has one entry per request: what its receipt says, whether somebody may still perform it, and
  how often it was performed.  A request is granted once, performed only under its grant, and called `never`
  only before it is granted; granting and performing may be one step (`AtOnce`).  Three components implement
  it, with one refinement mapping each (`LedgerOf`): the journal's receipts, where performing is a step of the
  world; the calls of a run, where the grant is in the hands of a worker thread or used in the hold of the
  lock that gave it; the receipts of the space, where it is handed to a page.
- `DataHome` has the home of the data set, the directory it may still go back to, what each directory holds
  and which ones were left behind.  A move brings the data whole or not at all; a directory that is not the
  home only gains files; while going back is possible nothing is written at the new home but repairs; a
  directory that was left behind does not return by itself.  `StorageRoot` maps to it with `StageOf`,
  `HomeOf`, `TrialOf` and `DataOf` (control directories, markers and the ledger's tables are invisible);
  `Nowhere` stands for the home of a program that has no valid ledger.
- `Departure` has a stage (open, closing, draining, gone), the kinds of work that are under way and those that
  may not begin, whether something is unsaved and whether a relocation was requested.  What an exit has stopped
  stays stopped until the exit as a whole is given up; the drain begins only with nothing unsaved; the
  application leaves, and a relocation is requested, only when all kinds are barred; giving up lifts every
  bar and withdraws the request.  `ExitGate` maps to it with `DepartureStage` (the gate's phase and
  reservation), `BusyKinds` and `BarredKinds` (runs, titles, MCP processes, the memory registry).  Hooks are
  not among the kinds: a second request that fails in its preflight may resume them while the first exit
  closes; the drain pauses them again, and from there on `GatesRestored` and `HookQueue` speak of them.

### RunJournal

One action is one committed transaction of the `Store`, or one step of the world around it (`Perform`: the
effect of a dispatched request, `Crash`, `Open`).  The host is the most general client: it may call any
operation the Store offers with any lease it still holds, in any order, so what is shown does not depend on
how the agent loop behaves.

- `record[r]` is a row of `agent_run_records` (status, revision, kind, scene, provenance, checkpoint),
  `event[r][i]` the row with sequence number `i` of `agent_run_events`, `scenes[s]` what the snapshot says of
  the scene and its run, `liveSteps` and `toolSteps` the steps the user sees (`Run.steps`,
  `Message.tool_steps`), `server` the registration of one MCP server.
- `held` and `permit` are the host's memory: leases it holds and dispatches it was granted but has not
  performed.  A crash loses both.  `effects` counts what really happened and is visible to nobody.
- `Write` is `journal_transaction`, `EndRuns` is `on_snapshot_change` for runs that end, both with `bump`
  (revision, checkpoint) and `sync_step`, so that no action may forget them.
- `SceneAction`s are the commands of `store.rs` that touch a run; `ReceiptAction`s the operations of
  `journal_store.rs`; `ServerAction`s the four edits of an MCP server.

### AgentLoop

One action is what one holder of the Engine mutex does with it, or one step between two awaits.  What a task
learned under the lock is old when it leaves it; every guard is evaluated where the code evaluates it.

- `catalog`, `edition` and `settling` are the grant of the Agent plugin behind the plugins mutex, which a
  mutation holds from its commit to the end of its reconciliation; `optional` is the Engine's copy.
  `registered` and `granted` are the keys of `engine.runs` and `engine.agent_runs`, `fired` the cancellation
  channels that are ready.  `Authorized` is `authorized_run`, `Active` is `journal.active()`, which asks the
  plugin store first.
- `pc[r]` follows `send_message` (`preflight`), the spawned task (`attach`, `context`) and `agent_loop.rs`
  (`top`, `send`, `answer`, `turn`, `calls`, then `mark`/`local` for a local call and `remote`/`wire` for an
  MCP call), to `closing` (it has a result) or `aborting` (the `select!` chose the cancellation). `kind[r]` is
  the Agent or an extension that was chosen as the agent of the conversation.
- `worker[r]` is the thread of one edit (`files.rs`): it waits for the queue of mutations, loads, stages,
  checks twice whether it may go on, compares with what it loaded and replaces the file.  Dropping the future
  only sets `stopped`, so a worker may outlive its call and its run.
- `Others` are the user's cancellation and change of scene, a change of the plugin (`Commit`, then
  `SettleAny`), the revocation of a lease, and a foreign change of the file.  `WriteFails` lets any write of
  the Store fail, `MaxFailures` times.
- Left out: the exit (`ExitGate` has it), runs started by a plugin or by the annotation of a video, reading,
  searching, shell and memory tools, the `write` tool (it replaces a file without comparing it: `NoLostEdit` is
  about edits), the requests that summarise a long context (the journal does not record them), an attachment
  that outlives the cancellation, local results that are too large or panics, and scene edits that leave the
  run alone.

### HookQueue

- `task[t]` is whoever executes rules: the event worker, `before_quit`, or a test run.  Its `at` follows
  `execute`: a list of rules (`next`), waiting for a permit (`slot`), claiming the row (`claim`), entering the
  jobs map (`insert`), and per action the check, the fence, and the effect (`run`, `fence`, `act` or `emit`).
  A job before `insert` has no flag anyone could raise: it relies on what it compares.
- `queue` and `pending` are the bounded channel and the keys of events that wait or are in hand; `from` is the
  lineage that keeps a rule from triggering itself.
- `Regrant`, `Switch` and `Reconciled` are the three steps of `reconcile`, `Save` and `CancelRule` the two
  under the lock of an edit, `Pause` the first step of `before_quit`, of the reservation and of the drain.
- `act` is everything after the fence has read its flags: the wait for the mutexes of the rule store and, for an
  MCP call, of the Engine, and the effect.  An action in that wait takes effect although the stop has returned.
- `loose` is an action that goes on in a blocking thread after the future that began it was dropped (`GiveUp`,
  the three seconds of `before_quit`).
- `dead` is history: the call that stopped this job has returned.
- A deadline may pass at every step that waits.  The end of a job, the return of its permit and its removal
  from the map are one step.  Left out: prompt hooks, conditions and scripts, key registration, the clock of
  schedules, the length of a cooldown and the depth of a lineage (the set `from` ends every chain first).

### AppControl

- `ops[id]` is the host's receipt of a request (`Inner`): phase, the nonce of this acceptance, the page's
  lease and the grant it was accepted under, how often it was notified, and the outcome as callers see it.
  `lease` and `ready` are the page that registered and confirmed.
- `caller[c]` is a thread of the control server or a call of `execute_native`.  `Call` reads the grant,
  `Enqueue` accepts under the mutex, `Send` notifies without it, `DeliveryFailed` takes it again.
- `job[id]` and `lane` are the page (`createAppControl`): what it knows of a request, from one await to the
  next (`waiting`, `flush`, `claim`, `granted`, `exec`, `over`), the serial lane that urgent requests bypass,
  and the identifiers it remembers (`recent`).
- `events`, `mounts`, `claims` and `reports` are the messages under way, as sets: any order.  A notification
  may be lost or repeated; commands of a page that was reloaded arrive late.
- `Unload` and `Load` are two steps: the old page goes on until the new one replaces it.
- `ran` and `denied` are history: how often an acceptance executed, and which ones a receipt called not sent.
- Left out: listener, frames and sessions of the control server, read-only queries and run streams, what an
  operation does, and what the page compares besides the deadline (each of its checks is a choice), and the
  second admission of operations that belong to a plugin's feature.

### CheckpointWorker

`step` splits `notify()` into its health check and its send; `worker[w]` is a thread with its channel and
flags, `slot` the one the Store owns.  Pausing hands the worker to a drain (`Disconnect`, then `Join`) while
the Store may start another one.  What SQLite copies is an environment choice: `Commit` and `Copy` leave any
part of the log behind; every attempt may find the database busy or fail for good.

### ExitGate

- `phase`, `reserved` and `attempt` are `ExitState`; `task[i]` is the call of `start_shutdown` for request `i`
  and the asynchronous task it spawns, stage by stage; `preflight` and `hooks` are the hook preflight and the
  hook runtime's pause; `memory`, `titles`, `mcp`, `conn`, `engine` and `run` are the background work the exit
  stops.
- `engine` is the Engine mutex where it is held across a check and an effect: `begin_run` reads the gate and
  commits the run under it, a run's end schedules its title under it, and the settlement takes it.  Steps that
  hold it only for their own duration are single actions.
- `renderer`, `dirty`, `events` and `calls` are `ExitPreparation`, the edits not yet saved, and the two
  directions of IPC.  Events and calls are sets: they are delivered in any order.
- The many drains of `start_shutdown_after_hooks` have one shape: cancel, wait up to a limit, abort on
  failure.  The model keeps the title jobs' drain (work that the run's end can add to) and the MCP drain
  (which has its own barrier); `Fail` stands for the failure of any step before the final shutdown.

### StorageRoot

- `ledger`, `profile` and `transfer` are `bootstrap/storage.db`: whether the file is there and valid, the
  profile row, the transfer rows with the entries table (`plan`).  `tree[r]` is what directory `r` holds,
  under numbered names in the order of the sorted inventory: the source markers (`.mewu-migrated-<id>.json`),
  the database, the attachments.  `work[r]` is its control directory (`.mewu-transfer-<id>`) with the owner
  file, the temporaries and the scratch directory; `ident[r]` is the identity of the directory that bears the
  name.
- `pc` says where the process is: `resolve_startup`, a stage of `perform_copy`, the host starting, the host
  up, an exit with its relocation requested, or no process.  One action is one durable effect with the checks
  before it.  That a crash may fall between any two is what the module is about: creating a file and recording
  what it is are two actions (`CreateWork`/`WriteOwner`, `CreateTemp`/`TrackTemp`, `Publish`/`Unlink`,
  `MakeScratch`/`CheckDatabases`, `CreateMarker`/`WriteMarker`), and the creation of the ledger and its first
  transaction are (`Reserve`, `CreateProfile`).
- `GiveUp` collects what the checks of `perform_copy` refuse, in their order; `TargetUnfit` ends as `Failed`,
  `SourceUnfit` as `NeedsRecovery`.  `CopyFails` is every other error of it, at any stage: of the file system
  (a full disk, a missing permission), of a database it looks into, of the ledger.  `resolve_startup` makes it
  `Failed` for good.  An error that cannot be recorded leaves the phase as it was, which is what `Crash` does.
- Contents of a file are two versions; the database also knows `hot` (a rollback journal beside it) and `busy`
  (a run or a file operation under way), which `reject_journals` and `validate_databases` look for.
- While no process runs, others may change a file, empty a directory or replace it by an empty one of the same
  name, or delete the ledger.  The runtime lock keeps a second process out.
- `dataset`, `stale` and `blame` are history variables; no guard reads them.
- Left out: nested directories, capacity, overlap and path checks, the aliases of old asset directories, the
  identity refresh on macOS, changes by others while a process runs, an identity that changes although the
  directory was not replaced, and power loss (what a process wrote stays written, in order).  Errors outside
  `perform_copy` are left out too: those of a start, a request, a cancellation or a commit end the process or
  the operation and leave on disk what a crash at the same place leaves.  A control directory of an earlier
  relocation is an ordinary file to the next inventory; it is left out of `tree`.

## 3. Runs

| Run | Instance | Shows |
|---|---|---|
| `journal_receipts` | one run, 3 receipts, 2 calls per turn, call limit 1, calls of an MCP server and refused ones, 2 registrations of the server, all answers | `JournalValid`, `WithinBudget`, `NoCallUnderOldGrant`, `JournalMonotone`, and that the journal implements `CallLedger` |
| `journal_continue` | a run and its continuation, 2 receipts each | `ContinuationNeverActs`, `TraceAgrees`, `ProvenanceValid`, `RunningAgrees` |
| `checkpoint` | two workers, two commits | `RelaxedOnlyWhenMaintained`, `DrainCovers`; under fairness `Attended`, `DrainReturns` |
| `exit_safety` | two requests, one connection, one title job | `NothingUnsaved`, `QuietOnceDrained`, `LiveIsAdmitted`, `GatesRestored`, and that the exit implements `Departure` |
| `exit_ends` | two requests, no other work | under fairness `ExitConcludes`, `Released` |
| `storage_chain` | 2 relocations, 3 directories, database only, 1 crash or failed copy, 2 changes by others | `PendingAgrees`, `NeverRevived` |
| `storage_copy` | 1 relocation, 3 directories, database and 1 attachment, 2 crashes or failed copies, 1 change by others | `FailureHasCause`, `StartsUnlessStuck`, that relocations implement `DataHome`; under fairness `Settles` |
| `agent_loop` | one send, of the Agent or an extension, 2 rounds, 2 calls, 3 editions of the plugin, one failed write | `ReceiptsTrue`, `Tended`, `QuietAfterLoss`, that the calls implement `CallLedger`; under fairness `RunsEnd` |
| `agent_files` | two sends in one scene, one call each, one foreign change of the file | `NoLostEdit` |
| `hook_queue` | a shortcut, an event and a before-quit rule, one test run, one slot, a queue of one, 2 actions a rule, 2 inputs | `QuietBehindDrain`, `StopsHold`; under fairness `HooksSettle` |
| `control_receipts` | one identifier accepted twice, one client, two grants, two pages, two notifications | `OutcomeTrue`, `ClaimsUnderGrant`, `ReceiptsFinal`, that the receipts implement `CallLedger` |
| `control_calls` | a request in the lane and a hook's request to stop something | under fairness `Settled` |

Each property is about a hazard that `PROJECT.json` lists at its line.  Type correctness is in none of the
runs: it is a theorem of every module.  `NotSentIsTrue`, `AtMostOnce`, `RootHoldsDataset` and
`IntentOnlyAtExit` are theorems that no run repeats: the runs check the refinements, which say more.

`CHECK_DEADLOCK FALSE` in all but the storage runs: a model with all its runs, workers, inputs or requests
used up has nothing left to do, and an application that exited has stopped.  The storage runs check for
deadlock: the program can always be started again, and no stage of a copy may be without an outcome.

### Bounds

- Receipts are independent but for the call limit, the checkpoint and the sequence number: a model request and
  two calls (3 receipts) exercise a turn's first and second call, a checkpoint with a hole, and the limit with
  one call above it.  The code's numbers (64 events, 12 rounds, 32 calls) are constants.
- A continuation reads one source.  A chain of continuations, in which the middle one must not be taken for
  the source, is covered by the theorem `ProvenanceStays`, not by a run.
- One server, whose revision is compared and never computed with; two revisions are the one a run was granted
  and the one after a change.
- `AgentLoop`: two rounds are one that goes on and the last; two calls a turn are one whose failure leaves
  another one behind.  Three editions of the plugin let it be disabled and enabled again under one run.  Runs
  share only the file and the scene, so `agent_files` has two runs and `agent_loop` one.
- `HookQueue`: one slot and three executors make every job wait for another one; a queue of one is full as
  soon as an event waits, also for an event that the worker's own job emits.  One rule of each kind.
  `MaxInputs` bounds outside events, edits, grant changes and exits together: two of them make every pair.
- `AppControl`: two acceptances of one identifier are one and its repetition after the receipt was forgotten;
  two grants and two pages are the old and the new one; a second notification is the repeated one.  Receipts,
  recent identifiers and pending requests are limited to one, so that each limit is met.
- Two workers are a draining one and its successor.  Two commits are one that a wakeup announces and one that
  coalesces with it.
- Two exit requests are an attempt and one that meets, follows or overtakes it; the third would only meet the
  second.  One connection suffices, because the registry treats connections alike and none waits for another
  beyond the slot count.
- Two relocations are one and its successor, which may go on, go back or start from a directory that an
  earlier one left behind; three directories are the two an installation may start in and one of the user's.
  Two crashes are one in a copy and one in the copy that resumes it; a copy that failed counts as one of them,
  and comes alone or after a crash.  The changes by others are one between
  the two, and for the loss of the ledger one more that prepares it.  Two files are one with predecessor and
  successor in the plan: database and attachment, and before them the markers that earlier relocations left.
- `RunSymmetry` is used in two safety runs (`journal_continue`, `agent_files`); runs are interchangeable there
  and no temporal property is checked with it.

### Fairness

- `AgentLoop`: awaits of a task end or its timer fires, a worker's thread runs, and who holds the plugins
  mutex leaves it.  Nobody is obliged to send, to cancel or to change a plugin; a run ends although none does.
- `HookQueue`: those who execute rules go on (each waits at most until a deadline), blocking threads end, the
  exit that was asked for is reserved or refused.  Nothing is assumed of users and events.
- `AppControl`: receipts are looked at after their time (`operation.get`, the polling of `execute_native`, the
  next acceptance), claims are answered, the plugin's change is reconciled, and the page takes up an urgent
  request. Nothing is assumed of what an operation does, of saving edits or of loading a page: a request
  settles even if they hang.
- `CheckpointWorker`: a maintenance thread that can run does, a commit that is being notified finishes, and a
  drain that was handed out is waited for (`CheckpointDrain::wait`, `Store::drop`).  Nobody is obliged to
  commit, pause or resume.
- `ExitGate`: the host's tasks run, their timers fire, events and commands are delivered and a holder of the
  Engine lock leaves it.  One weak fairness condition for all of these suffices, because each request takes
  finitely many steps (`RequestsOnlyGoForward`).  Nothing is assumed of the user, of the renderer's flush, of
  runs, title jobs and processes: an exit ends even if they never do.
- `StorageRoot`: a program that is not running is started again, and a running one goes on
  (`WF_vars(Onward)`): the copy runs at the start on one thread, without waiting for anyone.  Nothing obliges
  an operation to fail (`CopyFails` is not in `Onward`).  Crashes and changes by others are bounded, so they
  come to an end.  Nothing is assumed of the host's user.

## 4. Proofs

Every safety property of every run is proved for all values of the constants, from the assumption each module
names (`ConstantsAssumption`, `StorageAssumption`, `AgentLoopAssumption`, ...): finite sets of runs, any
number of rounds, calls, requests, slots, crashes and changes.  The properties were checked with TLC first.  A
proof module states the invariant as a conjunction of named parts, then says what kinds of steps there are for
each part of the state (a receipt, a job, a task, a directory), shows that each action makes only such steps,
and that each part of the invariant survives them.

`CallLedger` proves `LedgerHonest`: a call that is reported as never sent was not performed and cannot be, and
no call is performed more than once.  The proof is one lemma about a single call (`MoveHonest`), lifted to a
ledger in which any number of calls move at once.  `EntryMove` and `GrantedMove` list the moves between
entries whose parts are known; the refinement proofs cite them instead of the definition.

`RunJournalProofs`:

- `TypeCorrect`.  The invariant is `TypeInv`, type correctness together with `RecordsPlaced` (a recorded run
  belongs to a known scene), which the actions that reach a scene through a record need.
- `JournalImplementsLedger`: `Spec => ImplementsLedger`, with the refinement mapping `LedgerOf` (what the
  phase of a receipt says, whether a grant is outstanding, how often the call happened).  One lemma per move
  of the ledger (`AllowedGrant`, `AllowedAnswer`, ...), one step per action.  It needs no invariant beyond the
  types: everything the ledger must know of a call's past is in the phase of its receipt.  That is the point
  of the design: the journal is honest because each receipt alone is.
- `NeverSentIsTrue` (`NotSentIsTrue`) and `NeverTwice` (`AtMostOnce`) follow from the refinement and
  `LedgerHonest` without another induction.
- `JournalAlwaysValid`, `JournalOnlyGrows`, `ContinuationsNeverAct`, `ProvenanceStays`, `TraceAlwaysAgrees`
  and `RunningAlwaysAgrees` come from `Core`: `TypeInv`; `ReceiptsOK` (a receipt that was not recorded is
  blank, `Blank`; its kind fits its phase, `Shaped`; none is open in a run that ended, `Closed`; a
  continuation's are evidence only, `Evidence`); `RecordsOK` (the checkpoint is the settled prefix, `Covered`;
  what a continuation was built from, `Sourced`); `ScenesPlaced` and `RunningAgrees`.  A record moves in one
  of four ways (`Idle`, `Opened`, `Rewritten`, `Ended`), a receipt of a record in one of four (`Asked`,
  `Proposed`, `Sent`, `Resolved`).
- `BudgetHolds` adds `Thrifty`, about steps: a step charges at most one receipt, within the budget (`Frugal`),
  and makes at most one request of a round (`Single`).  `GrantsInForce` needs `Core` only: an edit of the
  server ends the runs that rely on it in the same transaction.

`AgentLoopProofs`:

- `AlwaysTended` (`Tended`) and `RevocationIsImmediate` (`QuietAfterLoss`) from `Life`: as long as no write
  failed, a run of the Agent that runs is registered and its grant is in force (`Held`), so whoever changes
  the grant has ended it; and what was lost is ended, unregistered or revoked, and stays so (`LostForGood`).
- `EditsSurvive` (`NoLostEdit`) from `Edits`: between loading and replacing a worker holds the queue, so
  nobody but others moved the file (`WorkerHome`, `QueueHeld`, `FileKnown`).
- `ReceiptsAlwaysTrue` (`ReceiptsTrue`) from `Receipts`: the call in hand of a worker or a session is open
  (`InHand`), and a run that may still complete has no other open call (`Known`).
- `CallsImplementLedger`: `Spec => ImplementsLedger`, from `Receipts`.  The grant of a local call is its
  worker, between its start and the replacement of the file; a worker whose run has ended still holds it,
  which is why the receipt of such a call says `unknown` and never `notsent`.  One lemma per kind of step
  (`AllowedSaid`, `AllowedGranted`, `AllowedMade`, `AllowedStill`).
- `RunsOnlyGoForward` (`RunsGoForward`): a step of a run leads to a next round, of which there are
  `MaxRounds`, to a later leg of its round, or on through the calls its turn proposed.  It is the safety half
  of `RunsEnd`, for all constants: a run cannot go in circles, so it ends if its steps are taken.

`HookQueueProofs`: `DrainIsQuiet` and `StopsAlwaysHold`.  The invariant says of every job that was stopped why
its next check refuses it (`Doomed`: its flag, its revision or its generation), wherever it was at that time;
that this stays so rests on `Aged`, what a job knows of rules and grant is never newer than they are.  Behind
the drain the exit is reserved, so no fence opens (`QuietTasks`).  `Moves` is the table of what a step makes of
a task; from it follow three theorems:

- `JobsStayBounded` (`JobsAreBounded`): a job of n actions ends after at most 3n + 4 steps (`Ahead`, bounded by
  `Counted`), and its list of actions only shrinks.
- `ChainsEnd` (`NotItsOwnCause`, `ChainsDeepen`): a rule is not started by an event that has it among its
  ancestors, and an event that an action emits has one more ancestor than the one it comes from.  Rules that
  start each other therefore stop after at most one round, even without the limit of eight that the code adds
  (the model leaves it out).  The theorem is about what an action emits itself, not about changes of the space
  that it asks for over the control server, which come back as events without ancestors.
- `KeysAlwaysAgree` (`KeysAgree`): the set of pending keys is that of the events in the queue and in the
  worker's hand, each there once (`Unburdened`).  It is the safety half of the clause of `HooksSettle` about
  pending keys.

`CheckpointWorkerProofs`: `SomeoneMaintains` and `DrainsCover`.  `Fit` says what a thread's flags mean at each
of its states (one that is over is unhealthy, and has failed or was told to stop and looked after the pause),
`StoreFit` that the policy is relaxed only with a worker in the slot, and what holds of the policy once that
worker is over but not yet replaced.  `DrainsStayShort` (`DrainsAreShort`) is the safety half of `DrainReturns`:
once a thread was told to stop, it and the drain that waits for it have at most ten steps left (`StepsLeft`),
and each of them takes one away; failures only shorten the way.

`ExitGateProofs`: `NothingLeftUnsaved`, `StaysQuiet`, `NoneFromOldEpochs`, `AbortsRestore`,
`IntentsOnlyAtExit`. One invariant of seven parts: types; `Gate` (phase, reservation, ticket and attempt are
those of one task, at its stage); `HooksOwed` (who has to resume the hooks); `Quiet` (what was drained stays
so); `Connected` (a live process is of the current epoch and no barrier stands); `PermanentAtEnd`; `Screen`
(nothing of an attempt that was not announced is under way, an acknowledgement that counts was sent by a
renderer that is locked and saved). `TaskMoves` and `Leads` are the table of the stages a request can take.
From it and `Unanswered` (the reply channel of an attempt is used once) follows `RequestsOnlyGoForward`: a
request goes only to later stages, is answered at most once and only while it waits, and is not touched after
its end. `ExitImplementsDeparture`: `Spec => ImplementsDeparture`, from `DInv`, which adds `Shut` (the memory
registry is stopped exactly while the request that holds the gate is past its stage `draining`, and a
request that got stuck stays quiet). `Mapped` says that the abstract stage and what is barred depend on the
stage of that request alone, so that the steps of all others are invisible or are `Work`; `TaskDeparts` then
goes through the table of stages once more, and `OthersDepart` through the rest of the program.

`StorageRootProofs`, for any number of relocations, directories, files, crashes and changes:

- `LedgerAgrees`, `NothingLost` (`RootHoldsDataset`) and `NoRevival` come from one inductive invariant,
  `IInv`, which is `Core` (what holds of ledger and disk at any time) and `Stages` (what the process relies on
  between two steps). Beyond the three properties and types, `Core` says that the two directories of a pending
  relocation differ and that its target is not one left behind (`PendingFit`), and that what was left behind
  still carries a marker (`StaleMarked`).  `Stages` says that a copy runs only for the relocation the profile
  points at, that a ledger is created only after the markers were looked for, and that the switch comes after
  the marker. That `Activate` may be trusted does not follow from the phases on record but from the two
  comparisons right before it (`SourceAsPlannedButMarked`, `TargetAsPlanned`); the mutant that drops one is
  found by TLC.
- `FailuresHaveCause`, `AlwaysStarts` and `TypeCorrect` need a second induction on top, `JInv`: at each stage,
  while nobody else touched the directories and no crash hit one of the four windows, the disk is exactly what
  the stages so far made of it (`Places`, `Fresh`, `Untouched`, `Intact`), so that none of the checks refuses
  (`NothingUnfit`).  What is left to give up for is an operation that fails (`CopyFails`), which
  `FailureHasCause` names as a cause of its own.
- `RelocationImplementsHome`: `Spec => ImplementsHome`, from `KInv`, which is `JInv` and `Unpublished` (the
  entry a copy is about to publish is not at the target yet: it is published with a hard link, which
  overwrites nothing).  That the switch is a `Move` is `SourceAsPlannedButMarked` and `TargetAsPlanned` again,
  now as the equality of two data sets; that nothing but repairs is written while going back is possible is
  the part of `Places` that says that a host which is up has no relocation pending.
- `CopyIsBounded` (`CopyAdvances`): each step of `perform_copy` that does not end it has a greater `Rank`, and
  no rank exceeds `CopyEnd`, whatever it finds on disk.  `RelocationsGoForward` (`PhasesGoForward`): a
  relocation enters only later phases, and its record is not written again after its end.  The two are the
  safety half of `Settles`.
- `CopyWrites` and `RootWritten` are the lemmas about who may write what; every action is one step under one
  of them.  `Following` picks the least entry that is left (`LeastExists`, `FollowingIsNext`).

`AppControlProofs`:

- `OutcomesTrue` (`OutcomeTrue`) and `ReceiptsOnlyForward` (`ReceiptsFinal`): a receipt moves in one of six
  ways in any step (`TableStep`: unchanged, forgotten, over, notified again, handed out, or a new acceptance),
  a job of the page in one of four (`JobsStep`).  `HistoryOK` says of each acceptance that it executed at most
  once, that what is queued or about to execute has not, and that what was denied never did; `ReportsTrue`
  that a report of success is about something that ran.
- `GrantHolds` (`ClaimsUnderGrant`) from `UnderGrant`: a claim that read the grant of a queued receipt read
  one that is in force, or whose reconciliation is still to come.  An old grant is never given out again,
  which is why the comparison suffices although both sides of it were read before the mutex was taken.
- `ReceiptsImplementLedger`: `Spec => ImplementsLedger`, with one ledger entry per acceptance.  The grant is
  with the job of the page that holds the answer to its claim; a page that is reloaded loses it.
- `JobsOnlyGoForward` (`JobsGoForward`) and `LaneAlwaysMoves` (`LaneKeepsMoving`) from `PageInv`: the lane is
  the requests that wait for their turn, each once, of which only the first may have left its place
  (`LaneOK`); a claim of this page belongs to the one job that waits for its answer (`AsksOK`), a report to the
  one job that ended (`EndsOK`).  They are the safety half of `Settled` on the side of the page.  An identifier
  that the page has forgotten may be taken up again; that it does not execute again is `OutcomesTrue`.

Not proved, only model-checked: the liveness properties (`Attended`, `DrainReturns`, `ExitConcludes`,
`Released`, `Settles`, `RunsEnd`, `HooksSettle`, `Settled`), which are outside the reach of the prover.  The
theorems about going forward, `ChainsEnd` and `KeysAlwaysAgree` state properties that no run repeats; they were
checked with TLC on the instances of the runs, or on ones a little larger, before they were proved.

## 5. What the runs were tried against

`PROJECT.json` lists for each property a mutant: a small change of one definition, of the kind a plausible
mistake in the code would be (`SettleAtEnd_AllNotSent`, `Acknowledges_AnyNonce`, `Leaving_AtOnce`,
`MayInitialize_DespiteMarkers`, `GoesOn_Always`, `MayRun_AnyRevision`, ...).  The mutated definitions stand
next to the real ones in the modules.  Each property is violated by its mutant in the same configuration.

## 6. Observations

Made while reading, without a disagreement with a documented promise:

- `core/journal.rs` accepts 64 events per run when it creates one and 48 tool events when it validates on
  opening; the host's loop stays below both.
- A passive checkpoint that loses the lock to another connection reports `-1` frames, which
  `checkpoint_worker.rs` takes for a permanent failure.  The thread ends and the writer returns to its own
  policy: safe, but maintenance stays off until the next start.
- `hooks/mod.rs` checks the admission of a job before it inserts it; the exit may drain in between. The job's
  actions check again, which is all that `StopsHold` and `QuietBehindDrain` rest on.
- An action of a before-quit rule that was given up may be under way behind the drain if it opens an address
  or a program.  Input is waited for.
- `delivery_failed` of `host/app_control_host.rs` finds the receipt by its identifier, not by its nonce.  It
  could meet a later acceptance of the same identifier only after the first was ended and forgotten, and would
  then end it as not sent before it was handed out, which is still true.
- The same file makes room for a new receipt before it looks whether the renderer is ready, so that a refused
  request may make an older, completed receipt unknown.
- A receipt's age counts from its acceptance or its claim, not from its completion, and an acceptance ends and
  forgets in one pass: a receipt that was claimed and not looked at for ten minutes is ended and forgotten in
  one step, and its caller is told of no outcome.
- A run whose end could not be saved stays running without a task until the user cancels it or the program
  starts again; `Tended` says that this is the only way.
- With hooks enabled a second exit request that fails resumes the hooks although the first one is in progress.
  `GatesRestored` and the drains are unaffected, because `hooks::drain` pauses them again.
- `rollback_startup` and `abandon_failed_migration` are called by tests only.  A relocation that ends `Failed`
  or `NeedsRecovery` therefore makes every start refuse (`migration_needs_recovery`) until the ledger is
  repaired by other means, and the source, intact, is out of reach although it is still the directory in
  force.
- Every error of `perform_copy` is such an end, also one that another attempt might not meet: a full disk, a
  locked file, a busy ledger (`CopyFails`).
- Four windows of `perform_copy` turn a plain crash into such an end: a control directory without its owner
  file, a temporary whose identity is not yet recorded, a scratch directory left behind, a marker that is not
  whole.  `FailureHasCause` shows that there is no fifth: a crash anywhere else is resumed.
- A crash between the reservation of the ledger and its first transaction makes every later start refuse; the
  comment at `host/storage_root.rs:1151` says so.
- `initialize` looks for source markers, not for control directories: if the ledger is lost while the default
  directory is the unfinished target of a relocation from a directory of the user's (and the legacy one is
  empty), a start adopts the partial copy once the database is in it.  `NeverRevived` speaks of directories
  that were left behind only.
- A database deleted while a relocation is pending, before it is planned, is not missed by the copy: the
  relocation succeeds and the start after it refuses (`required_database_missing`).

## 7. Not modelled, and why

- Recording, capture, OCR, speech, pixels, pins, windows: native resources whose behaviour the model would
  have to invent; their job registries repeat the shape of the title jobs.
- Drawing, visual and video annotations, blackboard: payload edits under the snapshot's own transactions, and
  pure functions of the payload.
- Provider protocols, prompts, context projection, parsing, UI: data transformations without concurrent state.
- The external memory ledger's dispatcher: no production code calls it.
- Extension workers, their protocol and the extension store: of the extension runtime only the lease of a run
  is modelled.
- The control server's threads and frames: one session is one caller of `AppControl`.
- Credentials, network policy, updates: calls to the operating system with no state of their own.
- A second process on the same database: the runtime lock and the control endpoint refuse it at the start.
- SDK, CLI, market tools, examples: not part of the running program.

These are most of the repository's lines.  What is modelled is where its promises about effects, data and
endings are kept.

## 8. Plan

Done: `CallLedger`, `DataHome` and `Departure`; `RunJournal`, `CheckpointWorker`, `ExitGate`, `StorageRoot`,
`AgentLoop`, `HookQueue`, `AppControl`, each with its proofs and its refinement where there is one.

Left, in this order:

1. The admission of feature operations in `AppControl`, whose revision is read before the lock is taken.
2. `ExtensionAuthority`: workers, leases and grants of the extension runtime.
3. The claim, request and late commit of a session title.
4. The recording state machine, as far as its own code decides it.
