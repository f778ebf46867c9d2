# A TLA+ model of the PLA runtime

This directory models the stateful core of PLA (Plus Local Agent), the MCP server
under `src/src/`: what it records durably, what it runs in other processes and what it
offers to its client. Every definition is translated from the code; `PROJECT.json`
names the lines each one stands for. Paths below are relative to `src/`.

1. Inventory
2. Modules, state and actions
3. Runs, bounds and fairness
4. Proofs
5. Where the code and its documents part
6. What is not modelled, and the plan

## 1. Inventory

PLA is one Python process (`src/server.py`, MCP over HTTP or stdio) with several helper
processes. Tool calls arrive on one asyncio event loop and interleave where a handler
awaits. Task workers, session threads and pool threads of the helper processes run in
parallel with it.

| Component | State it keeps | Operations | What makes it hard |
|---|---|---|---|
| Action transactions, `transactions/transaction_runtime.py` | SQLite row per transaction: status, revision, steps with state and evidence | create, checkpoint (eight outcomes), finalize (three decisions), recovery at start | optimistic concurrency, legal sequences that end badly, restart |
| Transaction envelope, `transactions/transaction_action_envelope.py` | none of its own: a revision held across an await | invoke a capability in a step, complete an external step | the await between the record of the start and the record of the outcome |
| Task store, `runtime/task_store.py` | SQLite rows and events; one in-memory context per open task | submit, workers, cancel, recovery at start | cancellation against completion, restart with work still running elsewhere |
| Execution Runner, `execution/execution_runner_service.py` | in-memory ledger of requests, pool of four threads | submit, result, cancel, shutdown | lost replies and retries, cancellation against launch, full ledger, crash |
| Runner client and backend, `execution/execution_runner_runtime.py`, `execution_backend.py` | the identity of the Runner it talks to | submit twice at most, poll, fall back | at most once, across two processes |
| MCP client manager, `mcp_runtime/mcp_client_manager.py` | per provider: source, enabled, state, persistent client and its lock | add, remove, enable, discover, call | everything interleaves at awaits; locks are replaced while waited for |
| Capability registry, `capabilities/capability_registry.py` | what is offered | register, enable, remove, search | must agree with the manager |
| External provider runtime, `provider/external_provider_runtime.py` | active manifests, forced on and off | rescan, reload, enable, disable under one lock | probes and calls do not take that lock |
| Process sessions, `runtime/session_runtime.py` | child process, event deque with cursors, two locks | open, write, close_stdin, resize, terminate, read, close | two locks, blocking pipes, two background threads |
| Capability broker and gates, `capabilities/capability_broker.py`, `hooks/gate_hook_runtime.py` | decision rows, event rows, a download folder shared by all | invoke: validate, evaluate gates, emit, dispatch, recover a download | stores that refuse a row, awaits, death between decision and call |
| Observer hooks, `hooks/external_observer_runtime.py` | active manifests, hooks, forced on and off | enable, disable, reload, rescan, add, remove | operations that raise half way |
| Artifacts, `artifacts/artifact_bridge.py` | a directory per artifact, its parents, leases | export, stage, import, revoke, collect | expiry while an invocation runs, collection cut off |
| Commands and routing, `runtime/command_semantics.py`, `capabilities/capability_steering.py`, `execution/execution_backend.py` | none: tables, and one call's way through the backends | classify, steer, accept, run, recover the reply | several tables judge one command; a lost answer and a second run |
| Windows services, `capabilities/windows_action_capabilities.py` | request, status and result file per call | control, status, restart of the broker | three processes and the user's own changes |
| Provider installation, `provider/provider_lifecycle.py` | files, manifest, environment, trash, state file | plan, install, upgrade, uninstall, undo | death or a failed undo between any two moves |
| Installers, `desktop_runtime/component_lock.py` | a lock file, children | run an installer, stop | the child outlives the parent that holds the lock |
| Elevation broker, `host/interactive_elevation_broker.py` | mutex, request and status files | take, elevate, wait, report | death between status writes, processes that outlive their watch |
| Lifecycle broker, `runtime/runtime_lifecycle_broker.py` | request and status files | restart the runtime by a script | whom the script finds listening when it looks |
| Project record, `project/` | state, contract, evidence, evaluations, verdicts | update, evaluate, verify | tests run for minutes between two looks |
| Git tools, `tooling/local_tools.py` | index, `index.lock`, refs | stage, remove, refresh, commit, tag, push | the user's Git runs beside |
| Change sets, `project/changeset_manager.py` | files, staged copies, backups | preview, apply, roll back | an editor writes meanwhile, a rollback fails half way |
| Runner supervisor, `execution/execution_runner_runtime.py` | state and key file, a mutex | start, stop, status | two processes do it at once |
| Desktop manager, `desktop_runtime/manager.py` | ports, roots, grants, children | start, stop, configure, connect, grant | children that survive each other or the manager |
| Browser runtime, `browser/browser_runtime.py` | state file, ready file, the MCP and keeper processes, a port | start, stop, status | several processes call it without a common lock; deaths between any two steps |
| Event store, tunnel, local file tools, bundled providers | see `PROJECT.json` | | |

How they interact: a tool call of the client reaches the capability broker, which
asks the gates, calls an internal executor or the client manager, and publishes events
to the observers. The envelope wraps that call in two checkpoints of the transaction
store. A task's worker calls the same executors; `run_process` goes through
`run_oneshot` to the Runner over a named pipe, and `cancel` reaches the same Runner from
another thread. The provider runtime drives the manager, the manager drives the registry,
and the broker refuses what the registry does not offer.

What makes each modelled component correct:

* transactions: a revision guards every change; a final transaction is final and quiet;
  a commit means that everything succeeded or was skipped; a restart keeps only what it can verify.
* envelope: an effect is recorded before it happens, happens at most once, and an
  external effect is closed by its own verifier only.
* tasks and Runner: a command that is not repeatable runs at most once; a task
  ends, unless the database refuses its last record or the Runner falls silent for good; a terminal
  record is final; a cancelled child does not run on; no result is lost.
* providers: what the registry offers is callable; a disable holds against everything late.
* sessions: no event is lost unannounced; the log has the interactions in order and the exit once.
* invocations: what acted was allowed and recorded as allowed; the events of one invocation tell
  one story; a recovered download is handed over once, none that lay there
  before is, and no PDF without an end mark; disabled observers hear nothing;
  what a living artifact was made from is still there.
* commands: a command is run a second time only if that changes nothing, or if it is said; the
  reply is the same whether it was read at once or recovered.
* brokers: a request is begun at most once, ends at most once, and is told completed only
  when what it asked for was seen.
* files of the host: after any death a manifest names what is there, and what the user changed
  before the job looked is kept; a Git call stages, commits and drops nothing it was not asked to; a change is applied
  or undone, and its answer says which; a promotion rests on the revision that was tested.

## 2. Modules, state and actions

`TransactionPlan` is the abstract specification: a plan of steps of three kinds, each
settled at most once, and a decision taken at most once. `Settle` and `Close` are its
actions.

`TransactionStore` is the store. `status`, `revision`, `state` and `evidence` are the row's
columns (the JSON of the steps split into their state and what their evidence says:
nothing, plain, or a completion contract); `restarts` bounds restarts. `Start`,
`ExternalPending`, `Succeed`, `ExternalVerify`, `Verify`, `RollBack`, `Skip` and `Fail` are
the branches of `checkpoint`, each with the checks that precede it and `WriteStep` for the
update; `Commit`, `CloseRolledBack` and `Abort` those of `finalize`; `Restart` is
`_ensure` with `_recover_interrupted_steps`. Its refinement mapping to the plan takes the
settled states as outcomes and the terminal statuses as decisions.

`TransactionEnvelope` composes the store with tool calls. `call` holds for each call its
stage, step and the revision it remembers; `effects` counts the dispatches of each step
and `owed` the steps that came back with a contract (both are history, no code reads
them). `StartInvoke`, `Dispatch` and `Finish` are the parts of
`invoke_capability_in_transaction` around its await, `CompleteExternal` and `FinishVerify`
those of the completion, `ClientCheckpoint` and `ClientFinalize` the direct tools.
`RestartServer` loses every call.

`ExecutionRunner` is the Runner process: the ledger in insertion order, the stage and the
answer of each request's future, which results were collected, which cancellations were
asked, which children live. Its server loop handles one message at a time, so
`HandleSubmit`, `HandleResult` and `HandleCancel` are single steps with the reply as a
parameter; `Begin`, `Launch` and `Exit` are a pool thread; `RunnerCrash`, `RunnerShutdown`
and `RunnerStart` the process. `RunnerMute` is a Runner that runs on and answers nothing any more (`mute`):
the client's `recv_bytes` has no timeout, so whoever asks it then waits until that process is gone.

`TaskExecution` composes the Runner with the task store. `row` is the status column,
`announced` the tasks with an `execution_started` event, `context` the in-memory owner; `pc` is where a
worker is, `bound` the Runner instance its client captured, `canceller` the task whose `cancel` holds the
store lock. A worker goes through `TakeJob`, `Check`,
`Announce`, `FindRunner`, `SubmitToRunner` (which may lose the reply, and tries twice),
`AskResult` and `Poll`, `Fallback`, `Finish` and `Leave`. A poll is two steps, the request and the answer:
between them the worker waits without a limit, and `PollDeadline` and `RecoveryEnds` look at the
clock only where no request is out. `RequestLost` is a request that fails although the Runner is there, `RunnerChanged`
one that ends with its Runner. `Cancel` takes the store lock, and keeps it while it asks the Runner
(`CancelDeliver`, `CancelLost`); `Signal` is what it does then. `Restart` recovers, and `TakeRecovery`, `AskRecovered`,
`RecoveryPoll`, `FinishRecovery` are the recovery worker. The database may refuse any write. `Closing` is what the
code makes of that at the end of a task: the exception handler writes once more, and if that is refused too, the error is
swallowed and `Leave` drops the context of an open row. `unwritten` (history) names these tasks.

`ProviderRuntime` is one provider: the manager's entries (`enabled`, `health`, `client`,
`registration`), its registry entry, the runtime's selection (`active`, `forcedOn`,
`forcedOff`) and the manifest on disk. A task is a tool call, a probe or the operation
under the runtime lock; `task` says at which await it is. `registration` numbers the calls
of `add_provider`, each of which makes a transport and a lock: `queue[r]` is the FIFO queue
of the lock of registration r, which a task may hold after the provider has another one.
`Call` and `Discover` start a request, `Locked`, `Connected`, `Failed`, `Succeeded` and
`Abandoned` are its awaits and outcomes, `DropClient` and `RecordFailure` the failure handler
with its own await. `Rescan`, `Reload`, `Enable` and `Disable` run to their first await
and `Closed` on from there. `vetoed` is history: a disable took effect and no enable since.

`ProcessSession` is one session: its status, the event deque with `cursor` and
`dropped_through_cursor`, both locks, the child as an echo over two bounded pipes, the
reader and watcher threads and a polling client. `Interact` takes the interaction lock,
`Record` logs the interaction, `BeginWrite`/`Write`, `CloseStdin`, `Terminate` and `Close`
are the bodies, `Waited` and `EndByExit` the wait for the child, `Result` the event that is
appended after the lock was given back.

`CapabilityPath` is `CapabilityBroker.invoke`. `running` is the invocation whose synchronous
code holds the event loop; `stage` is its place. `BeginInvoke` validates, `EvaluateGate` hears a
gate and records its decision (the gate may raise, the store may fail), `Denied` and
`BeforeInvoke` end the evaluation, `Dispatch` runs to the await, `Perform` is the provider,
`Succeed`, `ProviderFails` and `Cancel` resume, `Poll`, `Deadline` and `Restored` are the recovery of a
browser download from the shared folder, where `Stable` is what `_browser_download_looks_complete` can see: a file
grows from `partial` to `whole`, a PDF may pass through `marked` (unfinished, with an `%%EOF` in its tail), any file may rest
for two polls before it is whole, and `truncated` (history) notes what was handed over unfinished. `EmitTerminal` is the last event and `PathCrash` the
death of the process. Every event may be refused by its store and the code goes on.

`ObserverRegistry` is the external observer runtime: an operation is one step because it holds its lock on
the event loop, and it may raise at the observer named by `torn`, where what it did so far stays.

`ArtifactStore` is the bridge: `dir` is the life of an artifact's directory, `parentsOf` what its
metadata names, `importing` and `collecting` an import or a collection under way, which a crash
cuts off. Time passes by `Expire`.

`CommandRouting` follows one command line through its whole way: `GitMeaning` and its
neighbours are the classification, `RuleMatches` the steering rules, `Repeatable` the list of what
may be run again, `AfterCandidate` and `RunHere` the backends (default, production,
candidate, canary, shadow) with their fallback, `Recovered` the reply rebuilt after a restart.
A command is a record of what the tables look at, and all of them are initial states.

`WindowsService` joins the client's call, the broker, the elevated worker and the user, each a
process with its own steps, and the broker's restart by the same client.

`BrokerRequest` is the second abstract specification: what a request left for a broker of the
desktop promises. `ElevationBroker`, `RuntimeRestart` and `WindowsService` each show, under a
mapping of their request and status files, that they implement it (`LaunchRequest`, `RestartRequest`,
`ServiceRequest`).

`ProviderInstall` has a step for each replace, move or removal of the lifecycle manager:
`job.pc` is the next one, `FailInstall` and `FailUninstall` start the undo, `JobDies` leaves the disk as it is (`torn`).
Hashes are compared in one step (`StartJob`, `LookAgain`, the first half of `UndoManifest` and `UndoAssets`) and the files touched in later
ones. The user edits the manifest and the assets at any time, during a job too; `late` (history) names what was edited since
the job looked at it.

`InstallerOwnership` is the lock of the two parents of installers; a parent that dies frees it.

`ElevationBroker` has brokers that take a launch, ask for elevation, write `running`, wait and
report, over the mutex and the two files of a request; `entries` is the uninstall registry,
which processes change when they end or, by a helper, later.

`RuntimeRestart` has the runtime that asks, the broker, its script and the spawned processes;
`listening` is who has the port.

`ProjectRecord` has one action per operation under the workspace lock; a verifier looks
(`StartVerify`), tests without the lock, looks again and writes its verdict (`FinishVerify`), then
promotes (`Promote`).

`GitRepository` has a step for each look and each write of a call between which the user's
`Edit`, `UserAdds` and `UserCommits` fall. `gitCall` carries what the caller saw. A file is read three times, each in a
step of its own: `Prepare` compares its hash, `Build` has git write its blob, `Install` compares the hash again. An `Edit` may bring
earlier bytes back; `touched` (history) says which files were edited between which of these looks.

`ChangeSet` has the steps of `apply_changeset`: read, stage with a backup, check, replace, record, and the
rollback with a check and a restore per file; `OutsideEdit` is an editor.

`RunnerSupervisor` has two processes in `start`, `stop` or `status` and the Runners they spawn, over the state
file, the key file and the Runner's mutex.

`DesktopManager` has a step per wait of a management request, the children, a killed manager whose
children run on, the Runtime's own edits of the registry, and the Skill Library that reads its grants when
enabled.

`BrowserRuntime` has two processes in `start_browser_runtime` or `stop_browser_runtime`, the MCPs and keepers they
spawn, and the two files. `browserFile` is the start that `runtime.json` names; `browserCall` keeps what the call
last read or left there (`seen`). A start goes from `LooksFirst` through `SpawnMcp`, `WaitPort`, `SpawnKeeper`,
`WriteState` and `WaitKeeper` to `VerifyReady`, or through the four `Clean` steps of its exception handler; the stop of a
degraded runtime is part of it. A process counts as alive while the call that spawned it holds its
handle (`HandlesHeld`), because Windows then still tells its creation time. `spared` notes that
taskkill failed in a cleanup.

`MCCapabilityPath`, `MCHostOperations` and `MCChildProcesses` check several of these in one run. Their components share no
variable and no action, so a product would only interleave what does not meet: `focus` names the
component that runs and the others stand still.

Each module of proofs (section 4) EXTENDS the components it is about: `TransactionProofs`, `TaskExecutionProofs`,
`ProviderRuntimeProofs`, `ChildProcessProofs`, `CapabilityPathProofs`, `CapabilitySupportProofs`, `HostOperationsProofs`,
`DesktopLifecycleProofs`.

Operators whose comment begins with "Mutant:" are not used by any specification. Each is a
plausible mistake in the definition that follows, kept to show that a property notices it.

## 3. Runs, bounds and fairness

| Run | Configuration | States | Question |
|---|---|---|---|
| transaction_envelope | `MCTransactionEnvelope` | 644,231 | revisions, final states, recovery, refinement of the plan; one dispatch, write-ahead, the gate |
| task_execution | `MCTaskExecution` | 1.1 million | at most once, cancellation, ownership, finality, ledger |
| task_liveness | `MCTaskLiveness` | 542 thousand | every accepted task ends |
| provider_runtime | `MCProviderRuntime` | 3.1 million | what is offered is callable, a disable holds |
| child_processes | `MCChildProcesses` | 609,895 | sessions: cursors, order, exit; browser runtime: what it may lose, what a stop has ended |
| capability_path | `MCCapabilityPath` | 760,646 | gates, events, downloads, observers, provenance, routing, service outcomes |
| host_operations | `MCHostOperations` | 814,856 | installation, launches, restart, promotion, Git, change sets, Runner files, desktop children |
| gate_bypassed, cancelled_completes, rescan_recovers, disable_releases, write_returns | | | section 5 |

What the properties of the last two passing runs say together is stated once per component, as a
conjunction of named parts where it has several: `DownloadsAreDelivered`, `HooksObey`,
`ProvenanceIsKept`, `RoutingIsSound`, `OutcomesAreReached`; `InstallationIsWhole`, `LaunchesAreHonest`,
`RestartHappensOnce`, `PromotionIsEarned`, `GitIsExact`, `ChangeIsUndoable`, `RunnerIsKnown`, `WindowIsObeyed`.
`RunnerKeepsItsWord` is the Runner's (cancelled children and unread results), `BrowserIsOwned` the browser runtime's.
`OwnedInstallersExclude`, `ActedWasAllowed` and `EventsTellOneStory` stand alone. The type
invariants are one conjunction per run.

Bounds, and why they are enough:

* Store and envelope: an action with its rollback step, and a check; two calls beside the direct client.
  Recovery and `StatusAfterSuccess` depend on whether some other step is unsettled, which an action and a check
  show both ways. Two calls are what it takes to meet at one await or one step; the direct client is
  the third actor. `MaxRevision` = 0 leaves the client's repetition of `external_pending` out;
  the envelope's own one is always there. `MaxRestarts` = 1 suffices because a restart leaves no running
  step without a contract.
* Tasks: two, one repeatable and one not, on one worker, one Runner thread and a ledger of
  one record, so that waiting, pruning and refusal for capacity occur; two Runner
  instances, so that identities change (one in `task_liveness`: a Runner that is gone for good is where a task
  has least help); one restart. Deadlines may pass whenever they are looked at.
* Providers: two manifests of which one has a persistent session, two tasks beside the
  operation, three registrations: a task can hold a lock two registrations old.
  Both tasks may do the same things, so they are symmetric.
* Sessions: a deque of three events and reads of two, with three interactions that log two
  events each, output and exit; the deque overflows before the client's first read
  and between reads. The pipes hold one unit; a write is two (340 thousand states).
* Browser (270 thousand): two callers, as the browser role and the runtime are, and two starts that spawn: what one MCP does to
  the next needs two.

* Invocations (470 thousand states alone): two, so that two recoveries meet in the folder, and two gates, so
  that one may allow and the other deny. The kinds of capability are enumerated.
* Observers (798): two ids with a limit of one; three manifest versions, of which one
  starts by itself, one must be enabled and one is not installed.
* Artifacts (17 thousand): three, the shortest chain whose middle can vanish; two invocations with one
  output each.
* Commands (9 thousand): every class of command the tables tell apart, under every entry and
  backend; one call at a time, because calls share nothing there.
* Services (87 thousand): one call, two brokers, so that a restart meets an old heartbeat, and one
  change by others.
* Installation (12 thousand): two versions, enough for an upgrade, a downgrade and a plan that is stale.
* Installers (34): the two parents there are, one orphan. The bound on orphans limits how often a
  parent dies with an installer running.
* Launches (13 thousand): two brokers and two launches, so that one is taken over or queued
  behind another.
* Restarts (2,554): two requests and three runtimes: the one that asked, its successor and one nobody asked for.
* Project (15 thousand): two verifiers, four revisions (create, freeze, promote, reopen), two contracts, two pieces of
  evidence, one evaluation.
* Git (445 thousand): two files, which are alike; two edits, so that one can be undone between the looks of a call; three
  commits: one of the user may come between the look and the write of a call.
* Change sets (1,633): three files, so that a failure has one file before and one after it, and two foreign edits.
* Supervisors (34 thousand): two processes and two Runners.
* Desktop (243 thousand): one root, two choices of ports.

Deadlock is not checked: a transaction that is closed, tasks that are done, a session that
is over and the bounds themselves end a behaviour rightly. That nothing waits for ever
where it should not is stated as liveness instead.

Fairness is used in `task_liveness` and in `write_returns`. In `TaskExecution` the threads of the store's pool are
strongly fair where they need no answer (`Work`): they run, deadlines pass, and a thread that wants the store lock gets it
in the end although `cancel` takes it in between. A worker or a `cancel` that waits for an answer goes on when the Runner
answers or is gone (weak fairness of `Exchange` and `CancelDeliver`); with a mute Runner these are not enabled, and nothing makes
that Runner end. Nothing is assumed of the Runner, of clients or of restarts. `EveryTaskEnds` therefore has the premise that
no Runner stays mute for ever, and the exception of a task whose last record the database refused; without either one
it would not hold. In `ProcessSession` the threads and the echoing child are weakly fair; the child need
never exit and nobody needs to call.

## 4. Proofs

TLAPS checks these for every value of the constants that the named assumptions admit. Each
inductive invariant holds in all states of the runs' instances too (TLC, with the configurations of section 3): `EnvInv`,
`TaskInv`, `ProviderInv`, `LockInv`, `SessionInv`, `BrowserInv`, and `CallInv` and `HostInv`, which join those of the
other components. Theorems are stated of a component's own specification
(`PathSpec`, `GitSpec`, ...); the composing MC modules take their steps from these.

`TransactionProofs`, from `PlanAssumption` (every step has a kind; only actions name a
rollback step, and they name one of kind rollback), and for the envelope with any set of calls:

* `TypeCorrect`, `FinalIsQuiet`: `TypeOK /\ NothingRunsAfterFinal` is inductive as it
  stands. `CheckpointWrites` says once what the eight outcomes have in common (one unsettled
  step of an open transaction changes, and what kind of step may get which state), so that
  preservation is shown for one update instead of eight.
* `RevisionMoves`: a change of the transaction raises the revision by exactly one.
* `RecoveryIsExact`: what `RestartResumesOnlyContracts` says; it needs that a final transaction
  has nothing running, because `_ensure` leaves final rows alone.
* `PlanImplemented`: every step maps to `Settle`, to `Close` or to a stutter. A commit maps
  to a commit because its checks are those of the plan; a recovery interrupts the running
  steps together.
* `EnvTypeCorrect`, `DispatchedOnce`, `WriteAhead`. `AtMostOneDispatch` is not inductive: a
  call between `StartInvoke` and `Dispatch` has promised an effect that did not happen
  yet. `EnvInv` adds the claim of each such call: its step is no longer pending, has no
  effect yet, and no second call claims it. A step leaves pending once, which is why a claim
  is exclusive.
* `GateHolds`: the same invariant with `VerdictIsFresh`: at the revision a verifying
  call remembers, its step still has the contract it read, because any change would have
  moved the revision.

`TaskExecutionProofs`, from `TaskAssumption` and `RunnerAssumption`. `TaskInv` is the Runner's
`RunnerInv`, the rows' `RowInv` and, for each task that may not be repeated, `StartedOnce`.

* `TaskTypeCorrect`: the ledger stays finite and ordered, the pool bounded.
* `CommandStartedOnce`: that a command was launched once is not inductive, because a client submits a
  second time. `StartedOnce` says where the record of the first attempt is then: not launched
  yet, launched and never to be launched again, or gone with the Runner that held it. The client that
  submits again to the Runner it is bound to has not collected that record, so it is still in the ledger and is found.
* `OpenTaskOwned`, `TerminalStays`: by `RowFits`, which ties the place of a worker to its row (`Placed`): from the check to
  the last update the row is running, a worker that leaves has a final row or one of `unwritten`, a task without a worker has none that is
  open but those, and every other open row has a context. So the only task that is open and owned by nobody is one whose last
  record was refused, and a restart closes or recovers it.
* `RunnerWord`: by `LedgerOK` (a live child belongs to a running record that nobody asked to cancel).

`ProviderRuntimeProofs`, from `ProviderAssumption`:

* `OfferedIsCallable`: `AvailableIsReady` is inductive: each await of a task changes what is
  offered at most as a successful discovery does (`TaskOffersNoMore`).
* `DisableHolds`: `VetoHolds` is not, because a rescan enables what is not in
  `_forced_disabled`. `ProviderInv` adds `VetoIsForced`: the provider stays there while a veto lasts,
  and is there already while the disabling operation closes the session. Neither needs the lock queues, so they hold
  even where a task waits at the lock of an older registration.
* `ProviderTypesHold`: a task stands in the queue of the lock it names and in no other. `LockInv` adds that it stands there
  once, that a task outside the part under the lock names none (so it never joins a second queue), and that a
  re-registration still has its number when the session has been closed. The lemma `LeavesQueue` says what
  leaving a queue removes: one place, which is the task's only one.

`ChildProcessProofs`, sessions from `SessionAssumption` (every capacity is at least one), the browser from
`BrowserAssumption`:

* `SessionTypeCorrect`, `NothingLostUnannounced`: `LogOK` is inductive: the deque holds the last
  events without a gap, and `dropped_through_cursor` is the cursor before its first.
  `AppendShifts` says once what an append does to a deque that is full or not.
* `InteractionsOrdered`: the property is not inductive, because a caller gets its number and
  logs it in two critical sections. `NumbersAhead` adds that the number of a caller between
  them is above every number in the log, and `CallOK` that only one caller is there: that is
  what the interaction lock is for.
* `OneExit`: `ExitOK` says more than the property: which step of a caller stands between the status it set and the
  event. A session that is `closed` without an exit event has a close under way (`CloseUnderWay`), and any step of the caller that closes
  keeps it so or logs the exit (`CloseGoesOn`).
* `BrowserOwned`: a call relies on what it read steps before. `BrowserInv` says what stays true of that: starts are numbered as
  they come (`StartsNumbered`), a start that no file names yet is known only to the call that spawned it (`KnownToOne`), and the
  processes a call has found dead or killed stay dead (`CallKnowsDead`). `OneServes` is the port.

`CapabilityPathProofs`, from `PathAssumption`:

* `PathTypeCorrect`, `GatesFailClosed`: `GatesOK` says of an invocation among its gates that whoever was heard and did not refuse has left an
  allowing row and no denying one, so that what reaches the provider is covered by rows of every gate.
* `OneStory`: by `StoryOK`: the log of an invocation on its way holds nothing of it but the `before_invoke` its
  `causation` points to, if the store took that.
* `DownloadsDelivered`: by `FilesOK`: a file that became an artifact is gone from the folder and does not come back, a recovery
  knows what lay complete in the folder when it was dispatched, and what it takes as stable it has seen with its end mark if it is a
  PDF. That a PDF with a mark is whole is not claimed, for the code cannot see it.

`CapabilitySupportProofs`, from `ObserverAssumption`, `ArtifactAssumption` (finite sets of ids), `ServiceAssumption`:

* `ObserversObey`: `ObserverInv`; `ReplaceKeeps` serves all six operations, because each ends in a change
  of registrations that may be cut off at any observer.
* `ProvenanceKept`: the property speaks of the transitive ancestry, which the collector computes by walking. `ArtifactInv` says instead that
  some set exists that holds what lives and what an import under way will name, is closed under
  parents and is not being collected (`Keeps`); `AncestryCloses` and `AncestryLeast` connect it with the walk, by an induction
  over the natural numbers stated of a set (`SetInduction`).
* `RoutingSound`: a case analysis over commands and backends; `RunsKnown` counts what was started at each stage of the call.
* `OutcomesReached`: `ServiceInv` knows of each call what its files say of its worker (`CallKnown`), which call the broker is
  about (`BrokerWorks`) and that the pids grow (`BrokersFollow`). With it every step is one of `BrokerRequest` or a
  stutter (`ServiceStepImplements`).
* `CallTypesCorrect`: the composition `MCCapabilityPath` keeps all of these invariants, for each of its
  steps is one of a component and a stutter of the others.

`HostOperationsProofs`, from the assumptions of its components (positive bounds):

* `InstallersExclude`: an owned installer runs only while its parent holds the lock (`OwnershipInv`).
* `ChangeUndoable`: `ChangeInv` ties the step of a call to what has a backup, what was replaced and what was restored.
* `GitExact`: `GitInv`, with `GitCallOK`: a file that is not as named any more was touched since the first look, and a blob of other bytes than
  named means that it was touched before the blob was written. If the last look finds the file as named all the same, it was
  touched after the blob too: that is the exception of `StagedIsExpected`, and the theorem says there is no other. A commit is one on
  the head that was seen, or none.
* `RunnerKnown`: `SupervisorInv`: Runners that have the mutex are one, starts under way are for
  different Runners (`StartsApart`), and what a call noted is of the Runner it is about (`CallKnows`).
* `PromotionEarned`: `RecordInv`: from `checking` to `promoting` a verification holds an evaluation that passed, and an evaluation never changes
  (`PassesWithEvidence`, `VerificationOK`); a verified state has the verdict that promoted it.

`DesktopLifecycleProofs`, likewise:

* `WindowObeyed`: `ManagerInv`: as long as no edit of the Runtime is unseen, the grants and the proposal fit the registry.
* `RestartOnce`: a process that lost the port never has it again, because numbers grow (`Past`). So a request of a process that is
  past can complete no second time (`OneRestart`); refinement of `BrokerRequest` by `RestartStepImplements`.
* `LaunchesHonest`: the working broker has the mutex and knows its launch (`BrokerKnows`), and the status file says of a process
  only what happened (`LaunchKnown`); refinement of `BrokerRequest` by `LaunchStepImplements`.
* `InstallationWhole`: `InstallInv` says for every step of a job which files are where: an owned file is in place or in the trash
  (`OwnedKept`), the trash came out of the recorded version (`TrashKnown`), how far an installation, a removal
  or its undo is (`InstallKnown`, `RemovalKnown`), that a version no record owns has no files once its job has undone them
  (`UnownedGone`), and that a file about to be touched is as the job saw it or in `late` (`LateKnown`).
* `HostTypesCorrect`: the composition `MCHostOperations` keeps the invariants of its nine components. The number of spawned
  Runtimes needs a count: a script spawns one at most, so there are no more of them than scripts that have got that far (`Spent`).

Every invariant and every action property of the passing runs is stated by one of these theorems, and all four
refinements (`TransactionPlan` by the store, `BrokerRequest` by its three implementations) are among them. TLC alone checks
`EveryTaskEnds`, because fairness and ENABLED are outside what the prover handles, and finds the five refutations of section 5.

## 5. Where the code and its documents part

Each of these is a run that TLC refutes; `PROJECT.json` quotes the text.

* `GateNotBypassed`: a capability returns a completion contract while a checkpoint of another
  step has moved the revision. `external_pending` is refused as stale, the contract is
  nowhere, and a plain `succeeded` closes the step.
* `CancelledNeverCompletes`: the recovery worker writes `completed` over a cancellation that was
  persisted and signalled after its last look.
* `RescanRecovers`: of two concurrent calls one fails and hides the provider, the other
  succeeds and marks it ready. Ready providers are left alone by a rescan, so it stays hidden.
* `DisableReleases`: a call waiting for the session lock behind a disable opens a new
  persistent client on the disabled provider.
* `WriteReturns`: a write that fills the child's pipes holds the lock the reader thread needs.
  The counterexample is fair: nothing but an exit of the child ends it.

Not runs, for want of room or because the document is loose, but reached by the models:

* `docs/architecture.md:242-244` says that a start changes "all old queued/running rows to
  `failed`"; `_ensure` lets announced production tasks run on and recovers their results
  (`tests/test_production_task_recovery.py`). `TaskExecution` follows the code.
* `desktop_runtime/component_lock.py` wants one installer at a time. An installer outlives its
  parent and the parent's lock does not: another one may start (`InstallerOwnership`,
  `orphanInstallers`).
* `docs/v1_overview.md:333` wants a push of the exact expected HEAD. `git_push` checks it, and
  the refspec then names the branch, which the user may have moved (`Push`).
* The end of an index operation unlinks whatever `index.lock` is there, the user's own too,
  after the rename gave its own away (`FinishIndex`).
* A task whose last record the database refuses twice stays open with nobody to own it: the worker swallows the
  error and drops the context (`runtime/task_store.py:330-339`). `get` calls that "restart recovery required", and
  `cancel_task` cannot reach it (`unwritten`).
* A Runner that accepts a request and never answers holds the worker for ever, and, if it is a cancellation it does not
  answer, the store lock and with it every task: `recv_bytes` has no timeout (`execution/runner_transport.py:72`), deadlines are
  looked at between requests (`runtime/task_store.py:242`), and `cancel` forwards under the lock (`:441`).
* `close` shows `closed` before it waits for the child, twice five seconds at most, and logs the exit after that
  (`runtime/session_runtime.py:950`, `:970`): a poller that stops at `closed` may not have seen the exit.
* An unfinished PDF with an `%%EOF` in its last 8192 bytes, or another file that rests for two polls, is handed over as a
  recovered download (`capabilities/capability_broker.py:147-164`).
* A stage compares the hash of a file, lets git read it, and compares the hash again: bytes that were there only
  in between are staged (`tooling/local_tools.py:1682`, `:1739`, `:1767`).
* A file edited after an installation, an undo or an uninstallation has looked at it is overwritten, trashed or deleted with the
  edit (`provider/provider_lifecycle.py:361`, `:365`, `:402` and `:418`, `:445`).
* An edit that an editor makes between the last check of a file and `os.replace` is lost in a change set
  (`changeset_manager.py:147`).
* `browser/browser_runtime.py:3-8` says that PLA owns one MCP server and one keeper with a session on it.
  Of two starts at once, the MCP of one takes the port and the keeper of the other connects to it: ready
  is told with an MCP that has no port and ends when it tries. The other one is an unmanaged process to
  every later call. `BrowserIsOwned` names the cases in which a process is lost: the caller dies, taskkill
  fails, or a call touches a file that another process changed since it read it.
* Two processes that start a Runner at once write the key file one after the other; the first Runner
  keeps its mutex and can be reached no more (`RunnerSupervisor`, `keyOf`).
* `restart_elevation_broker` looks whether the broker is busy and stops it later: a call queued
  between is cut off (`WindowsService`).
* A request whose broker died stays `running`; one whose status file was never written stays
  `external_pending`. Nothing ends them, so `BrokerRequest` promises no end.
* A job that dies between the manifest and the state file leaves a provider that can be neither
  installed nor uninstalled (`torn`).

## 6. What is not modelled, and the plan

Left out for good: manifest validation, scores of the routing search, path checks; operating-system
and network I/O (ConPTY, process trees, downloads, the browser, the desktop shell); read-only views;
bundled providers that translate one call to one application (Office, WinApp, LaTeX). The models take what they need
of them as constants or as a choice of outcomes.

Left out within modelled components: retention of task events, long polling; backoff times and
the content of tool lists; opening, pruning and resizing of sessions; verification and
chunked reading of artifacts; the permission files of user programs; framing of the Runner's pipe.
The Runner's child is killed atomically.

The columns `cancel_requested` and `started_at` of a task are left out: the store decides by the first only whether it writes another
event of the request, and a recovery looks at neither.

Hazards seen that no property covers: polling of the Runner that gives up while the command is
still queued (`execution_runner_runtime.py:494`); the watcher that records the exit code before it is known
(`session_runtime.py:802`), output after the exit event (`:305`); `rolled_back` that looks at rollback steps only (`transaction_runtime.py:621`); a discovery
result older than a change of the manifest (`mcp_client_manager.py:374`, `external_provider_runtime.py:485`).

Plan, in order:

1. Proofs: what the abstract modules promise by themselves (`TransactionPlan`: a decision is final and a commit has no
   failed check; `BrokerRequest`: begun before it ends, ended once), so that the refinements carry it over; that the queue of a
   provider's lock is served in order; that a session's polling client that is told of no gap has seen every event.
   `EveryTaskEnds` stays with TLC.
2. Opening and pruning of sessions beside `ProcessSession`; tool lists in `ProviderRuntime`; retention of task events.
