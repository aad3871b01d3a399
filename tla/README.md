# A verification project for AHRB

AHRB (the Agent Harness Readiness Benchmark, crate `harness-bench`, binary `ahrb`) runs a coding-agent
harness against a scripted model and measures what it does. Its own correctness is what makes its reports
worth reading: a fake model that advances its script twice, a cleanup that kills a stranger's process or
says that a survivor is dead, a report that is lost or saved twice would each falsify a benchmark without
failing a test.

This directory holds TLA+ models of the parts of AHRB where that can happen through concurrency, failure or
crashes, the TLC configurations that check them on small instances, and TLAPS proofs of the most important
properties for every instance. Paths in this document are those of the repository; line numbers are in
`PROJECT.json`, which maps every definition of a model to the code it stands for.

To repeat the checks: `tlc -config MCEngineRace.cfg MCFakeModelEngine` (and so on for every `.cfg`, each
with the module of its group), and `tlapm FakeModelEngineProofs.tla` (and the five other `*Proofs` modules).

- [1. The system](#1-the-system): the parts of AHRB, their state, operations and hazards
- [2. The models](#2-the-models): which module models which part, and how
- [3. What is checked](#3-what-is-checked): the runs, their bounds, fairness, disagreements found
- [4. What is proved](#4-what-is-proved): theorems, assumptions, inductive invariants
- [5. What is left out](#5-what-is-left-out)
- [6. Plan](#6-plan): what is modelled and proved next, and in which order

## 1. The system

One run of `ahrb run` is one operating-system process with a multi-threaded tokio runtime. `main` parses the
command line, prepares an output directory and a private *run root* under `/tmp`, and calls one of four
pillars: matrix (`runner::run`), economy (`run_economy`), fidelity (`run_fidelity`) or storage
(`run_storage`). A pillar launches rows and trials one after another. A trial starts a *fake model engine*
with a workflow, starts the harness under test through a *driver*, submits a prompt and collects the
harness's events until a terminal one; the harness talks to the fake model over HTTP while a *sampler*
follows its process tree. When all rows are done, the pillar cleans up every process it owns, evaluates the
evidence, writes the report and appends a line to a history shared by all runs of the machine.

```
 main ──> runner (rows, trials, deadline) ──> driver ──> harness under test (any program)
   │         │      │          │                 │              │
   │         │      │          │ barriers, gate  │ spawns       │ HTTP
   │         │      │          v                 v              v
   │         │      │       workflow <──── fake model engine <──┘
   │         │      v                          (one task per request)
   │         │   sampler ── registers ──> owned-process registry <── watchdog, panic hook
   │         v                                   │ TERM, KILL
   └──> persist_report ──> report.json, results/index.jsonl (shared with other runs)
```

### 1.1 Components

| Component | State | Operations | What makes it hard |
|---|---|---|---|
| Workflow state machine (`workflow.rs`) | how far each actor's script has advanced; the hash each checkpoint was accepted with | `recognize`, `accept`, `response_for_checkpoint` | each operation locks anew; its callers act between two of them |
| Barriers (`workflow.rs`) | actors that reached each barrier, released barriers, a `Notify` | `arrive`, `is_ready`, `wait_until_ready`, `release`, `wait_for_release` | the condition and the wakeup are separate; the runner's deadline races the last arrival |
| Fake model engine (`fake_model.rs`) | attempt counters, request records, routes that have been sent a context error, the storage gate | `handle_observed`, `mark_request_accepted`, `mark_response_status` | a task per request, eight separate critical sections in each, dropped at any await when its client leaves |
| Fake model servers (`fake_model.rs`) | listeners, mailbox files, paced bodies | accept, serve, pace, shut down | early disconnects, half-written mailbox files |
| Owned processes (`process/mod.rs`) | groups with their leaders, observed identities | register, track, adopt, retire, clean up | PIDs are given out again; cleanup runs on other threads than registration; programs fork, change groups, ignore TERM |
| Tree accounting (`process/mod.rs`) | per-identity counters and retirement of CPU, disk | `observe`, `commit` | identities vanish and come back |
| Process inspection (`process/linux.rs`, `process/macos.rs`) | none | read `/proc`, libproc | races with exit, platform dependent |
| End of a run and saved results (`runner.rs`, `results.rs`, `report.rs`, `main.rs`) | report files, run root and its guard, the shared index | `run*`, `persist_report`, `append_index`, `RunRootGuard`, `main` | every write can fail, the process can be killed anywhere, several processes share the index |
| Row scheduling (`runner.rs`) | sessions, events and errors of rows, held once by `run_inner` and once by `RunProgress` | `run_inner`, `collect_terminals`, one collector for each set of derived rows, `write_interrupted_report` | long sequences of awaits, all of them cancellable; a row's failure is to stay its own; two books that must agree |
| Row timing ledger (`row_timing.rs`) | sessions pending for each row, start and end | `submitted`, `observed`, `complete`, `apply` | rows that share a session, rows that go on in another driver, late answers, rows that end without one |
| Drivers (`driver.rs`) | children, reader tasks, sessions, managed daemons | commands and invocations: start, wait, time out, stop; sockets and events | dropped futures, pipes held by descendants, group IDs after a wait |
| Mock harness (`mock_harness.rs`) | journal, hook claims, checkpoint tokens and fixture files on disk; an index of them in memory; workers and their tool tasks | submit, queue, resume, cancel, close, release; turns, hooks, tool calls; death and restart | controls act while a worker waits; death between a record and its effect; what was done must not be done again |
| Storage pillar (`runner/storage*`, `storage/*`) | inventories, checkpoints, lifecycle of a growing session | settle, measure, delete, resume | a tree that changes while it is read |
| Matrix waves, certification (`wave*.rs`, …) | none beyond a call | collect and evaluate one row | wide, not deep |
| Sampler, offline guard | samples; a packet filter | sample, arm, disarm | operating-system I/O |
| Evaluation, comparison, reports (`evaluate.rs`, `diff.rs`, …) | none | pure functions of evidence | arithmetic, formatting |
| Command line, manifests, events | none | parse, validate | formats |

### 1.2 How they interact

- **Engine and workflow.** A request task of the engine locks the machine to *recognise* its marker,
  unlocks, and locks it again to *accept* it. If the response names a barrier the task registers its actor
  and waits; the runner waits for all actors, measures, and releases the barrier.
- **Engine and storage collector.** With the storage context gate enabled, a scripted context-length error
  stops at the gate, tells the collector with one `Notify` permit, and waits for the other; the collector
  settles an inventory of the harness's files in between.
- **Drivers, samplers and the registry.** Whoever spawns a child registers it, whoever samples a tree tracks
  its members, whoever has waited for a child retires it. The registry is a global behind a mutex. The end
  of `main`, the signal watchdog and the panic hook clone it, signal what the clone names in two passes, and
  settle the registry from what is left.
- **A driver's call and its child.** A call spawns a child that leads a group of its own, registers it, and
  waits for it and, if its output is captured, for the end of its pipes, which descendants may hold. A
  timeout, a cancellation or the drop of the call ends the wait; `stop_managed_child` takes the group from
  TERM to KILL and sweeps it.
- **Inside the mock harness.** The RPC loop handles one request at a time. A submit appends its acceptance
  and starts a worker; the worker asks the model, spawns a task per tool call, and takes queued turns. All
  of them share the session under one mutex and the journal through it; a new daemon rebuilds the session
  from the journal.
- **Runs with each other.** Every run has files of its own except `results/index.jsonl`, which all append to
  under an exclusive `flock`.
- **Run root, report and history.** The private run root holds raw evidence until the report has been
  persisted; then the guard removes it. `main` turns the outcome into an exit status.

### 1.3 What should hold, and where it could break

The hazards, each at its line and with the properties that cover it, are listed under `hazards` in
`PROJECT.json`; the list is also the work list of this project, for some have no property yet. The questions
they come to:

- *Fake model.* Whatever the harness sends, repeats, contradicts or abandons: each actor gets its script
  once and in order, nothing passes a barrier early, nothing waits for ever at a released one, evidence of
  requests is neither rewritten nor attributed to the wrong attempt, and a scripted fault is not skipped.
- *Owned processes.* However PIDs are reused: no signal to a stranger; no owned process that was known is
  left running or forgotten; what is reported gone is gone.
- *A driver's children.* However leader, descendants, timeouts and dropped calls interleave: a group that is
  signalled by its number is still the child's, what a call leaves behind is known to the final cleanup, and
  every call ends.
- *Mock harness.* Wherever the daemon dies: its memory is never ahead of its journal, an effect is never
  ahead of its record, no hook and no call is run twice, no turn speaks in another's place, and an accepted
  turn ends.
- *Row clocks.* However answers, replacements of drivers and the ends of collections are ordered: a row is
  charged with its own work and no other.
- *Saved results.* Whatever fails and whoever dies: no evidence is deleted before the report is safe, one
  line of history per run with numbers in order, a final report once written stays (it does not, for the
  matrix: 3.4), an exit status never claims more than is on disk, and every run ends.

## 2. The models

| Module | Models | Composes |
|---|---|---|
| `WorkflowMachine` | `WorkflowMachine` of `workflow.rs`: the locked operations as actions, `Workflow::validate` as `Validate`, which is assumed (`WorkflowValid`) | – |
| `BarrierCoordinator` | `BarrierCoordinator` of `workflow.rs` with tokio's `Notify` | extends `WorkflowMachine` |
| `FakeModelEngine` | `handle_observed` and what it calls, the runner's side of barriers, the storage gate and its collector | extends `BarrierCoordinator` |
| `ScriptedReplay` | abstract: what the fake provider promises a benchmark | instantiated by `FakeModelEngine` |
| `OwnedProcesses` | the registry and the cleanup of `process/mod.rs`, against a process table | – |
| `ManagedChild` | the children that `driver.rs` starts, waits for and stops | extends `OwnedProcesses` |
| `RunPersistence` | the end of a run, from the workload's outcome to the exit status, for several runs | – |
| `ResultsHistory` | abstract: what the history promises | instantiated by `RunPersistence` |
| `RowTiming` | the row clocks of `row_timing.rs` as `run_inner` uses them | – |
| `RowSchedule` | the way of the selected rows through `run_inner`, and the report if it gets to the end, its deadline passes or it fails | – |
| `MockHarness` | a session of the mock harness's daemon: journal, index, hooks, checkpoints, effects, workers, death and restart | – |
| `TurnLedger` | abstract: what a session promises | instantiated by `MockHarness` |
| `MCFakeModelEngine`, `MCOwnedProcesses`, `MCManagedChild`, `MCRunPersistence`, `MCRowTiming`, `MCRowSchedule`, `MCMockHarness` | the small instances for TLC | extend the module they are named for |
| `FakeModelEngineProofs`, `OwnedProcessesProofs`, `RunPersistenceProofs`, `RowTimingProofs`, `RowScheduleProofs`, `MockHarnessProofs` | theorems and their proofs | extend the module they are named for |
| `MockTurnsProofs` | more theorems about `MockHarness`: its turns and its ledger | extends `MockHarnessProofs` |
| `ManagedChildProofs` | theorems and their proofs | extends `ManagedChild` and `OwnedProcessesProofs`, whose invariant it keeps |

The groups share no state and are checked one by one: the engine runs inside a trial, the registry and the
driver's children span the process, the row clocks and the row schedule belong to the task that runs the
rows and touch in no guard (a clock decides nothing, and the schedule gives no clock its time), persistence
begins when all of these have done their work, and the mock harness is a program of its own on the other
side of a driver.

A definition whose comment begins with *Mutant* is not part of a model: it is a plausible mistake in the
definition that follows it, and for every property that a passing run checks `PROJECT.json` names a mutant
that makes TLC find the property violated.

### 2.1 The fake model engine

`nextByActor` and `seen` are the two maps of `MachineState`; `reached` and `released` those of
`BarrierState`. `notified[t]` is the state of the `Notified` future that task `t` has created: tokio's
`notify_waiters` wakes every future that exists at the call, whether or not it has been polled, so creating
a future sets it to `FALSE` and an announcement sets all to `TRUE`.

Each request is a task whose `pc` names the next critical section of `handle_observed`:

```
 count ─> record ─> recognize ─┬─> accept ─> mark ─┬─> arrive ─> announce ─> listen ─> check ⇄ await
                               │       ^           │                                     │
                               │       │           └────────────> respond <──────────────┘
                               ├─> route ─┬─> (accept)              │
                               │          └─> recover ──────────┐   ├─> gated ─> fault ─┐
                               └─> aside ───────────────────────┴───┴───────────────────┴─> stamp ─> answered
```

A step ends where the code releases a lock or awaits; within a step the code holds one lock or touches no
shared state. `Disconnect` is hyper dropping the handler of a client that has gone: possible at every state
in which the task has a lock or a `Notify` to await. The task's captured input and what it has learnt
(attempt number, verdict, fault to send) are in `req[r]`.

A request's body is reduced to its marker (actor and checkpoint), its canonical hash and one of three sizes:
exactly the size a context-length checkpoint demands, within the window, or neither. `Strangers` stand for
markers of no actor or of another scenario, which `recognize` treats alike. The two answers to a request
that is not primary (a classified side channel, or unknown) differ in their body and are one action.

`runner[b]` is the collector that waits at barrier `b` for its actors under a timeout and then releases it;
a collector that gave up may still call `release` while it cleans up, and `release` refuses unless the
barrier is ready. `collector` is the storage pillar's: it selects between the end of the turn
(`CollectorLeaves`, also its timeout) and the gate's first permit, settles the inventory, and releases the
gate whether settling failed or not.

`ScriptedReplay` knows no requests: `Give` hands an actor its next response, `Open` opens a barrier whose
actors have all been given the response that names it, `Send` sends a response already given unless its
barrier is closed. The refinement maps `given` to `nextByActor`, `open` to `released`, and `sent` to the
responses of the requests that have been answered as primary.

### 2.2 Owned processes

`procs` is the kernel's process table: for each PID `Free` or a process with its start time (`born`, drawn
from a global count, so that start times are unique), process group, whether AHRB is its parent, whether it
descends from AHRB, and its state. `Start` gives out any PID which neither a process nor a group has.
Programs fork into their parent's group or a new one, exit at any time, ignore TERM as they like, and
strangers start and exit beside them.

An *identity* is a PID and a start time (`ProcIdentity`). `groups` and `observed` are the fields of
`OwnedRegistry`. `Register`, `Adopt`, `Track`, `Retire` are the functions that update it under its lock;
`toRegister` and `toRetire` hold the children whose task is between `spawn` and `register_child`, or between
`wait` and `retire_process`: in between anything may happen.

One cleanup runs at a time (`CLEANUP_LOCK`) but the rest of AHRB goes on beside it. `CleanupStart` clones
the registry and records `seen`, the live owned identities, before the first signal. Each of the two passes
enumerates group after group, then the observed identities, and signals one identity at a time; between any
two of these steps processes may exit and their PIDs be given out again. Then it reaps leaders and polls
until nothing is left or its time is over, records `survivors`, and settles the registry. `CleanupFails` is
an operating-system error, returned from wherever it occurred.

`signal_identity` reads the start time and calls `kill` with no other call of AHRB in between. The model
takes the two as one step, as it does the reading of one group's members: the remaining window is inside the
kernel interface and cannot be closed by the code.

### 2.3 The end of a run

Every run is a process with a `pc` of its own. The matrix, a pillar (economy, fidelity) and the storage
pillar differ in where they go when something fails:

```
 new ─> inner ─┬─> persist ─> [mirror] ─> flock ─> read ─> write ─> sync ─> cleanup ─> end
 (root)        ├─> provisional ─> finalize ─> persist …          (pillar)
               └─> diagnose ─> persist …  abort or deadline      (matrix)
                            └> provisional … failure             (pillar)
```

- `inner` is the whole workload; it ends, fails, or is dropped by the deadline. What it does after its last
  await, `persist_report` included, the deadline cannot interrupt, so `DeadlinePasses` is enabled at `inner`
  only.
- `WriteBundle` is `write_bundle`: `report.json` is renamed into place before the rest of the bundle is
  written, so the call can fail with the report replaced or not.
- `mirror` is the second copy in `results/`, for a run with an explicit `--output`.
- `flock`, `read`, `write`, `sync` are `append_index`: wait for the lock, read the index and count its lines
  (a last line without newline is refused), `write_all`, `sync_data`. A write may leave all, a part or
  nothing of a line. Every path gives the lock up, death included.
- `PersistFails` is where an error of any of these goes. In the matrix's first attempt it is an error of the
  workload, so the run continues as an abort with a report of its own; a pillar has no second report;
  everything else returns through the guard's `Drop`.
- `GuardCleanup` is `RunRootGuard::cleanup`, disarmed until `confirm_persisted`.
- `Die` is a kill at any step, the watchdog's `_exit` included. `exit` is the status: `suite` for what
  `main` computes from the results, `two` for an error, `dead`.

A report is reduced to its kind: provisional, final, failure, abort, deadline. `NewRoot` and everything
after it belong to a run that has passed its preflight checks.

`ResultsHistory` has a sequence of numbered lines and a flag that closes it for good once torn; the
refinement forgets which kind of report a line was made from.

### 2.4 The row clocks

`RowTiming` is `row_timing.rs` as `run_inner` uses it: `bounds` and `clocks` are the ledger's two maps,
`scope` is the task-local context (the rows of the collection that is running). `Submit` and `Observe` are
what a driver calls when a prompt goes out and when events come back; `Rebind` is the recovery of the main
driver, which moves its clocks, `Replace` that of a collection, which does not and relies on `observed`'s
fallback; `Finish` is a timeout, `EndTopLevel` the driver's shutdown with the `complete` calls after it.
`Reading` and `Label` are what `apply` would report at any moment.

The model also keeps what the ledger cannot know: which sessions have not been answered (`due`) and when the
last answer for each row was received (`heard`). Time is a clock that may tick between any two steps. Two
sessions have two names and two drivers two addresses, also one after another. A session's `seen` set is
left out, for it only matters while the session is pending, and the first terminal ends that.

### 2.5 A driver's children

`ManagedChild` adds to `OwnedProcesses` the calls that start a child and wait for it. A *job* is one call: a
*command* (`run_owned_output`, `wait_owned_output`: the output is captured through pipes, under a timeout)
or an *invocation* (`PerInvocationDriver`: the output goes to files, `attach` polls it with `try_wait`).
`job[t]` has where the call is, the child's PID and start time, and what it knows: whether it was waited for
(`child.id()` is `None` from then on) and whether `stop_managed_child` has signalled the group.

```
 new ─> register ─> wait ─┬─────────────────────────────────────────> retire ─> done
                          ├─ TERM ─> grace ─┬─> (KILL) killed ─┬─> sweep ─┘
                          │                 └──────────────────┘
                          ├─ KILL ─> expired (invocation) ─────────> retire
                          └─ waited for, pipe still held (command) ─> stopped     any ─> dropped
```

- The processes are those of `OwnedProcesses`: `Launch` is its `Spawn`, `RegisterChild` its `Register`,
  `RetireChild` its `Retire`, and programs fork, exit and ignore TERM as there. `pipes[t]` adds who holds a
  command's output: a forked process inherits it or closes it, and `EndOfFile` waits for the last holder to
  go.
- `SignalGroup` is `kill(-pid, …)`. Unlike the registry's signals it is preceded by no comparison of start
  times: that the number still means the child's group is what `NoForeignSignal` and its proof are about
  here.
- `CommandExits` and `CommandCompletes` are the two halves of one `try_join`: the child's status, then the
  pipes. `TimesOutAfterExit` is a timeout between them; `stop_managed_child` finds no PID and returns.
- `Abandon` is an error or the drop of the call's future: `kill_on_drop` kills the leader, tokio's orphan
  queue (`RuntimeReaps`) collects it, and nothing is retired.

No cleanup runs meanwhile (`cl` stays `"idle"`): it is `OwnedProcesses` that has the two side by side. The
second `retire_process` of `cancel` and `force_stop_session` finds nothing left to do and is not an action.

### 2.6 The mock harness

`journal` is the sequence of complete records of the file, `torn` says that it ends in an incomplete one,
and `garbled` that a record was appended to that. `files`, `claims`, `reached` and `tokens` are the other
things on disk: which call's content a fixture file has, the claim files of hooks, the files that say that a
checkpoint was reached and released. `session` is `SessionState`; `fiber[Rpc]` is the RPC loop while it runs
an acceptance hook, `fiber[w]` a worker, `task[w][c]` the tokio task of a call. `fired` counts how often
each hook's program was run, which no file tells.

What happens between two acquisitions of the harness's mutex is one action: append and index update are one,
as in the code, and a control may act before the next. `Die` can happen in any state, `DieInCommit` between
the durable result of a call and its file. `Recovered` and `Reconciled` are what `open_with_readiness` reads
back.

A record's `turn` says whose work appended it. The program does not write it: it is in the model to say
which turn a late answer belongs to. Records that nothing reads back (telemetry, lifecycle, checkpoints) are
left out.

`TurnLedger` is what a client may rely on: `Accept` a turn once, `Commit` an effect of the open turn once,
`End`. The refinement reads the accepted turns, the open one and the effects out of the journal alone, so
that death, restart and reconciliation are stuttering. An effect is a result with its place in the journal:
a second result of the same call would be a second effect.

**The client.** `Patient` is an assumption about who submits: a client that has cancelled or queued
something, or that has hooks configured, waits until the session's worker is at rest. Nothing in the harness
enforces it, and without it the code does otherwise: with `"resubmit"` among `Faults` TLC finds the first of
the differences of 3.4 that have no run. The others, which the assumption covers: a completion hook that
fails after the next turn was submitted appends its failure to that turn; a submit while a worker is about
to take a queued turn puts two workers on one session. Seen while modelling, and possible with any client:
queued turns are in memory only and are lost with the daemon; `session.queue` on a session at rest starts no
worker, so that the turn waits for the next one (`docs/SPEC.md` row 33 does not say which); an acceptance
hook that fails leaves a turn active without a worker until it is cancelled or the daemon restarted; a
closed session is open again after a restart, for `session.close` writes no record.

### 2.7 The row schedule

`step` is where `run_inner_timed` is: the resource rows, the launch of the top-level rows, the rows with
something of their own before the collection, `collect_terminals` (with its expiry), the kill and recovery
or else the shutdown of the driver, the derived collections, the evaluation. `launched`, `completed` and
`rowErrors` are the fields of `RunProgress`, `errors` is `row_errors` of `run_inner`, `failed` and `complete`
are `errors` and `complete` of `collect_terminals`; `pass` holds the sessions that its loop has still to
attach before it counts. `open`, `pre` and `held` are the rows in `sessions`, `precollected_events` and the
two `*_pre_events`. `begun` is a history variable: the rows for which anything was started.

What lies between two awaits is one action, and an action's outcomes are those of the call it waits for: in
time, `AhrbError::Timeout` (the row's own error), or any other error, which is `Abort`. `Deadline` is
`tokio::time::timeout` around `run_inner`, possible wherever it awaits (`Waiting`). Rows and collections are
taken in any order, which contains the order of the code. Cancelling the sessions of a failed row has no
result that anything looks at and is part of the step that fails it.

The kinds of row are constants: which rows have how many sessions, are collected ahead, get a control
operation, are cancelled at their launch, are to outlive a kill, and which are measured together; some
collections need the capability of one of their rows (`Leader`), some treat every error as the rows' own
(`Lenient`). An evaluation is `FinalOutcome`: whether a row has an error, a capability, and evidence; whether
the evidence passes is left out.

The report that ends a run here is what `RunPersistence` starts from: `Finish`, `Deadline` and `Abort` are
its `WorkloadEnds`, `DeadlinePasses` and `WorkloadFails`.

## 3. What is checked

Nine runs must pass and three show that the code does something else than its own documentation says. State
counts are distinct states.

| Run | Instance | Properties | Result |
|---|---|---|---|
| `engine_race` | 3 requests (symmetric), 2 actors, 1 barrier, a second checkpoint, 2 hashes | `TypeOK`, `SeenIsScriptPrefix`, `HeldUntilReleased`, `OneAdvancePerCheckpoint`, `ReplaySpec` | holds, 1.2 million |
| `engine_faults` | 2 requests, 1 actor with a barrier, a context fault behind the storage gate, a second checkpoint with a fixed hash, a stranger; 1 request may be abandoned | `AttemptsAreUnique`, `NoRecoveryBeforeFault`, `ScriptOnlyAdvances`, `ReleasedWaitersLeave`, `ReadyBarrierIsReleased`, `GateLetsOneThrough` | holds, 306 thousand |
| `process_cleanup` | 3 PIDs, 2 births | `TypeOK`, `NoForeignSignal`, `RegistryMeansOwn`, `KillReachesObserved`, `SurvivorsStayObserved`, `ObservedProcessesDie` | holds, 162 thousand |
| `managed_calls` | a command and an invocation, 3 PIDs, 3 births | `NoForeignSignal`, `RetiredGroupsAreSettled`, `EveryCallEnds` | holds, 309 thousand |
| `persist_mixed` | a matrix run with the default output, a pillar, a storage run with `--keep-run-root` | `TypeOK`, `RootOutlivesEvidence`, `SuiteCodeIsRecorded`, `OneLinePerRun`, `HistorySpec`, `EveryRunEnds` | holds, 592 thousand |
| `row_timing` | a recovering row, a collection of two rows with two clients; 2 + 3 drivers, 3 ticks, 2 submissions each | `TypeOK`, `FinishedRowsStandStill`, `LabelFollowsAnswers`, `OnlyOwnWorkMovesAClock` | holds, 1.3 million |
| `mock_crash` | 1 worker, 2 turns of a call each on one file, one held before its effect, one after; failing hooks, close, a queue of 1, 1 death | `IndexMatchesJournal`, `EffectsFollowJournal`, `HookFiresOnce` | holds, 907 thousand |
| `mock_turns` | 2 workers, 2 turns, one with two calls in a frame, one of them held; a queue of 1, 1 death | `OnlyTheOpenTurnSpeaks`, `LedgerSpec`, `AcceptedTurnEnds` | holds, 556 thousand |
| `schedule_mixed` | 10 rows: one of two sessions, one of each other kind, one without capability; a resource row, 3 collections | `OnlyMiscountsLoseRows`, `FinalReportIsFounded`, `DeadlineReportIsRight`, `EveryRunReports` | holds, 1.3 million |
| `managed_sweep` | as `managed_calls` | `StoppedLeavesNoOne` | **violated** |
| `mock_torn` | 1 worker, a death that cuts a record short | `JournalStaysReadable` | **violated** |
| `schedule_miscount` | a row of two sessions and a row of one | `CollectionDecidesEveryRow` | **violated** |

### 3.1 What the properties say

The type invariants that no run lists (`ManagedTypeOK`, and `TypeOK` of `MockHarness` and `RowSchedule`) and
`ErrorsReachTheLedger` are theorems (section 4).

**Fake model.** `SeenIsScriptPrefix`: the two maps of the machine never disagree, whatever happens between
`recognize` and `accept`. `OneAdvancePerCheckpoint`: of all requests that race for a checkpoint one advances
the script, and those treated as its retries carry its hash. `HeldUntilReleased`: no answer passes an
unreleased barrier, no barrier is released early, and no actor is counted at a barrier before the machine
gave it the checkpoint. `ReplaySpec`: all of this seen from outside is the scripted replay.
`ScriptOnlyAdvances`: a step gives each actor at most one response and rebinds no hash. `AttemptsAreUnique`:
no two records of a marker share an attempt number although counting and pushing are two critical sections,
so the status of a response lands on the right record. `NoRecoveryBeforeFault`: a context fault is answered
normally only after the same route has been sent its error. `ReleasedWaitersLeave`,
`ReadyBarrierIsReleased`: no wakeup is lost, in either direction.
`GateLetsOneThrough`: the context error held at the gate leaves, unless the turn was over before the
collector saw it, or a client went away (which may take the only permit with it).

**Owned processes.** `NoForeignSignal`: only descendants of AHRB are ever signalled. `RegistryMeansOwn`: no
identity that the registry, a snapshot, the signal queue or the survivors hold ever comes to mean a
stranger. `KillReachesObserved`: after the passes nothing the snapshot observed runs, wherever it moved
meanwhile. `SurvivorsStayObserved`: a cleanup does not forget what it could not kill.
`ObservedProcessesDie`: and it does come to this.

**A driver's children.** `NoForeignSignal` again, now for signals that go to a group by number.
`RetiredGroupsAreSettled`: a call that retired its child leaves in the child's group only processes the
final cleanup will find, and none at all if it had to stop the child. `EveryCallEnds`: whoever ignores TERM
or keeps a pipe open. `StoppedLeavesNoOne` is the comment on the sweep in `stop_managed_child`, taken at its
word for every call that was stopped: it fails.

**Saved results.** `RootOutlivesEvidence`: the run root is removed only when the report is on disk and, for
a saved run, in the history. `SuiteCodeIsRecorded`: an exit status about results is only given for a final
report that is on disk, with a line made from it. `HistorySpec`: several processes that append, fail and die
make one append-only, consecutively numbered history. `OneLinePerRun`: a pillar or a storage run
has one line; the matrix may have two (3.4). `EveryRunEnds`: also when others die with the index locked, or
leave it torn.

**Mock harness.** `IndexMatchesJournal`: at every moment a daemon that dies loses nothing it has acted on,
for its memory is what the next one reads back. `EffectsFollowJournal`: a fixture file never has content
that is not durably recorded, and after a restart it has that of the newest record of its path, even if two
calls write one file. `HookFiresOnce`: a hook's program runs once for a turn, also when the daemon died
between the claim and the record. `OnlyTheOpenTurnSpeaks`: no late reply, result or terminal of a turn lands
after its terminal or in another turn. `LedgerSpec`: no call has two effects and none outside the open turn,
across resumes and repeated submits. `AcceptedTurnEnds`: through deaths too. `JournalStaysReadable` is the
promise about torn tails; it fails.

**Row clocks.** `FinishedRowsStandStill`: the time of a finished row does not include rows that run after
it. `LabelFollowsAnswers`: a row counts as terminal exactly when all of its submissions were answered,
whichever driver the last answer came through, and its time ends there. `OnlyOwnWorkMovesAClock`: polling a
terminal again, a recovery, or another row never moves a clock that has stopped. Rows that `complete` has
closed are exempt from the second (3.4).

**Row schedule.** `ErrorsReachTheLedger`: at every await the second book has the errors of the first, and of
its collector. `CollectionDecidesEveryRow`: a timeout is the row's own, every other row is decided; it fails,
and `OnlyMiscountsLoseRows` says for which reason only. `FinalReportIsFounded`: a late answer does not turn a
timeout into a measurement, and no row is judged by some of its sessions. `DeadlineReportIsRight`: what the
interrupted report says of rows on the main driver was so (of other rows it need not be, 3.4).
`EveryRunReports`: sessions that never end do not keep a run from ending.

### 3.2 Bounds, and why they are enough

- *Requests.* Three can be first, identical and contradicting at one checkpoint at a time, or two at a
  barrier and one retry of either: the races of `engine_race` need no more, for a fourth request is in the
  same position as one of the three. `engine_faults` needs a request that meets the fault and one that
  retries it, before, at or after the gate.
- *Workflow.* One barrier of two actors is the smallest at which one arrives and the other does not; the
  second checkpoint makes "next" and "already seen" differ, its fixed hash makes `accept` refuse. The proofs
  of section 4 are about every workflow.
- `MaxDrops = 1` abandoned request of two, so that another can be its retry.
- *PIDs and births.* Two births on three PIDs are a child and its descendant, or either and a stranger, at
  once or one after another on the same PID or in the same group, which is what the checks of
  `signal_identity` and `verified_group_members` are for; the safety properties of this run are proved for
  any number of PIDs and births (section 4), so that the run needs no more than liveness does.
  `managed_calls` has three births: two children and a descendant or stranger. `MaxBirths` also bounds
  `births`.
- `Recycle = FALSE`: between the `wait` that frees a child's PID and `retire_process`, which runs on the
  same task with no await between, the kernel gives that PID to no one else. This is an assumption about the
  kernel's allocation of PIDs (it goes round), not something the code enforces; with `Recycle = TRUE`
  `retire_process` may take a stranger's group for a remainder of its own. The constant makes the assumption
  explicit and the proofs carry it.
- *Jobs.* The two kinds of call side by side; two of one kind differ in nothing but their child.
- *Turns.* Two turns are what it takes for one to speak in the other's place, two calls on one path what it
  takes for a restart to choose the wrong content; each frame's calls are tasks of their own. One death
  suffices: a second one meets a journal like the first one left. `MaxStarts`, `MaxQueued` and `Ceiling` are
  the bounds, the last of them the code's own. Hooks, checkpoints and close are in `mock_crash`, two workers
  and liveness in `mock_turns`; the theorems of section 4 have all of them at once and no bound.
- *Runs.* One run of each kind side by side has every pair of kinds at every step of `append_index`.
  Counters need no bound: a run appends at most twice.

- *Row clocks.* Two clients answer in either order before or after the collection ends, each through a
  driver that was replaced, both through the same, or one by one; three drivers allow two replacements. The
  second submission reopens a row's clock. `MaxTime = 3` tells a start, an answer, a later answer and the
  end of the row apart.

- *Rows.* The rows share no state but the collector's count and the ledger, so that one row of each kind has
  every interplay: a row of two sessions beside rows of one for the count, two rows in a collection for
  errors that are shared. Two recovering rows differ from one only in `held # {}`, which the theorems of
  section 4 leave open.

Deadlock checking is off for the row schedule (a run that has reported is over), for the engine (a harness
may send nothing more), for processes and a driver's calls (nothing needs to start), for the row clocks (a
row may stop at any step) and for the mock harness (a client may send nothing more, and a daemon whose
journal cannot be read is not started); in `RunPersistence` the end of all runs is the explicit step `Done`,
so that any other standstill is an error.

### 3.3 Fairness

- `FakeModelEngine.FairSpec`: weak fairness for each request task, each barrier's collector, and the storage
  collector at its gate. A tokio task that has been woken is polled; a lock that is free is obtained.
  Nothing obliges a harness to send or to leave, a deadline to fire, or a turn to end.
- `OwnedProcesses.FairSpec`: weak fairness for the cleanup, which is a bounded loop on a thread, and for the
  exit of a process that KILL has been delivered to. No program has to exit by itself, and neither
  `CleanupStart` nor `CleanupFails` has to happen.
- `ManagedChild.ManagedFairSpec`: weak fairness for each call's own steps (tasks are polled, timers fire),
  for the stop of a command (its timeout; an invocation is stopped by `attach`'s own deadline, which is
  among its steps), and for the exit of a process that KILL has reached. No program exits by itself, no call
  is dropped, no invocation cancelled.
- `MockHarness.FairSpec`: weak fairness for workers, hooks and tool tasks (tokio polls what is ready, a hook
  and a model request have time-outs). The rest is the client's part, and assumed: a daemon that died is
  started again and its pending turn resumed, which is what the crash-recovery rows do, and a checkpoint
  that was reached is released. No death, cancel, close, submit or queue has to happen.
- `RowSchedule.FairSpec`: weak fairness for `run_inner` as a whole, each of whose calls has a time-out of its
  own, and for the clock that `collect_terminals` reads in every pass. No session has to terminalize, and
  neither the deadline of the run nor an error is needed.
- `RunPersistence.FairSpec`: weak fairness for the steps of each living process. The deadline of a run
  stands behind the step that ends its workload. `LockFails` is outside: were `flock` obliged to fail now
  and then, nothing would be shown about waiting for it. `Die` and whether a write fails are free choices.

### 3.4 Where the code differs from its documentation

The three violated runs are recorded under `findings` in `PROJECT.json`, each with the line it quotes.

1. `managed_sweep`: when a command's leader has exited while a descendant in its group still holds the pipe,
   `child.wait()` has returned and `child.id()` is `None` by the time the timeout fires:
   `stop_managed_child` returns without TERM, KILL or `retire_process`, and the descendant runs on.
2. `mock_torn`: a new daemon ignores the torn tail its predecessor left, and appends behind it. Its first
   record becomes part of the broken line: lost at the next start, and once more records follow, the reason
   why no start succeeds.
3. `schedule_miscount`: `collect_terminals` ends when the sessions done and the sessions of failed rows add
   up to all. A session that was done before its row failed is in both. If the sum comes out right too early,
   rows that are still running are dropped without an error; if it steps over the right number, the
   collector waits out the turn timeout for nobody. It takes a row with several sessions
   (`SingleSessionsAreDecided`).

More differences were met while modelling and have no run of their own:

- `mock_harness.rs:3122`: a cancelled turn's worker waits for its model reply and stops on the flags of the
  session; `accept_turn` resets them for the next turn, so the late reply is appended to that.
- `runner.rs:5947`: a failure to mirror or to append to the index makes the matrix replace its final report
  by an abort report. If the line had been written and only `sync_data` failed (`results.rs:684`), the abort
  report appends a second one; `OneLinePerRun` therefore leaves the matrix out.
- `runner.rs:5962`: a derived collection that has returned is noted nowhere in `RunProgress`, so a later
  deadline reports its rows as `ERROR: deadline`, "not launched", although they were measured. For the same
  reason a resource row is "not launched" while it is measured; and rows 59, 61, 62, 66, 68 and 70, which
  have sessions on the main driver as well as a collection, count as terminalized after `collect_terminals`
  though their trials have not begun.
- With row 51 unsupported, row 73 is not measured although it is selected and supported; and an error of a
  shared collection is given to all of its selected rows, unsupported ones included.
- `fake_model.rs:1288`: `mark_request_accepted` marks the newest record under its key. If two identical
  requests have both been recorded before the first is marked, the newest is marked twice and the other
  stays `accepted = false` although the machine accepted it. (`mark_response_status` matches by attempt.)
- `process/mod.rs:1781`: once the leader of a group has gone and no member of it was observed, nobody
  vouches for the group. A member that outlives TERM is then neither killed nor listed among the survivors,
  and the teardown evidence reports it as reaped while it runs.
- `process/mod.rs:1763`: when a cleanup settles it overwrites what was registered or tracked since it cloned
  the registry.
- `row_timing.rs:78`: `Ledger::complete` closes rows 35, 37 and 40 when there is a verdict on their
  recovery, a failed one included, so that a row that was never answered is reported as
  `submit-to-terminal`.

## 4. What is proved

All theorems hold for every value of the constants that satisfies the modules' named assumptions. TLC
evaluates those assumptions in every run.

| Theorem | States | Assumes |
|---|---|---|
| `FakeModelEngineProofs!TypeCorrect` | `Spec => []TypeOK` | `SentinelsAssumption`, `WorkflowValid`, `EngineAssumption` |
| `SeenIsPrefix`, `BarriersHold`, `OnlyAdvances` | `SeenIsScriptPrefix`, `HeldUntilReleased`, `ScriptOnlyAdvances` | the same |
| `OneAdvance`, `FaultComesFirst`, `AttemptsDiffer` | `OneAdvancePerCheckpoint`, `NoRecoveryBeforeFault`, `AttemptsAreUnique` | the same |
| `ImplementsReplay` | `Spec => ReplaySpec`: the engine implements the scripted replay | the same |
| `OwnedProcessesProofs!TypeCorrect`, `KillReaches`, `SurvivorsStay` | `TypeOK`, `KillReachesObserved`, `SurvivorsStayObserved` | `ProcessAssumption` |
| `SignalsStayHome`, `RegistryStaysOwn` | `NoForeignSignal`, `RegistryMeansOwn` | also `~Recycle` |
| `ManagedChildProofs!CallsAreTyped`, `CallsStayHome`, `RetiredAreSettled` | `ManagedTypeOK`, `NoForeignSignal`, `RetiredGroupsAreSettled` of `ManagedSpec` | also `ManagedAssumption` |
| `RunPersistenceProofs!TypeCorrect`, `EvidenceOutlives`, `ExitIsRecorded`, `OneLineEach` | `TypeOK`, `RootOutlivesEvidence`, `SuiteCodeIsRecorded`, `OneLinePerRun` | `PersistenceAssumption` |
| `ImplementsHistory` | `Spec => HistorySpec` | the same |
| `RowTimingProofs!TypeCorrect`, `FinishedStandStill`, `LabelsFollowAnswers`, `OnlyOwnWorkMoves` | `TypeOK`, `FinishedRowsStandStill`, `LabelFollowsAnswers`, `OnlyOwnWorkMovesAClock` | `TimingAssumption` |
| `MockHarnessProofs!TypeCorrect`, `HooksFireOnce`, `IndexIsTheJournal`, `EffectsAreTheJournals` | `TypeOK`, `HookFiresOnce`, `IndexMatchesJournal`, `EffectsFollowJournal` | `HarnessAssumption` |
| `MockTurnsProofs!OnlyTheOpenTurnIsHeard`, `JournalImplementsLedger` | `OnlyTheOpenTurnSpeaks`; `Spec => LedgerSpec`: the journal implements the ledger | also that `"resubmit" \notin Faults`: the client is `Patient` |
| `RowScheduleProofs!TypeCorrect`, `LedgerHasErrors`, `LossIsMiscount`, `FinalReportFounded`, `DeadlineIsRight` | `TypeOK`, `ErrorsReachTheLedger`, `OnlyMiscountsLoseRows`, `FinalReportIsFounded`, `DeadlineReportIsRight` | `ScheduleAssumption` |
| `SingleSessionsAreDecided` | `CollectionDecidesEveryRow` | also that every row has one session |

**Engine.** Neither `HeldUntilReleased` nor the refinement is inductive: both depend on what a task has
learnt in an earlier critical section still being true. `IInv` adds exactly this. `TaskKnows`: a task past
`accept` speaks for an actor whose machine has seen its checkpoint with its hash, a task at a barrier has
one, a recovering task has a faulted route. `FaultedIsBehindBarrier`: a route becomes faulted only behind
its barrier, so that a recovery, which does not wait at the barrier again, does not pass it early.
`ReleaseIsReady`: the check that `release` makes still holds when it inserts. These are stable because
`seen`, `reached`, `released` and `faulted` only grow (`OnlyGrow`, `KnowledgeStays`), and only one task
moves in a step (`OneTaskMoves`, `MoverKnows`). The refinement then has a case for each action that changes
`nextByActor`, `released` or the set of answered requests, and every other step stutters.
`OneAdvance` and `FaultComesFirst` are inductive on top of `IInv`: the mover's verdict is `accept`'s
(`VerdictOfMover`), and nobody else can have advanced at a key that the machine has not seen
(`WinnerIsFirst`). `AttemptsDiffer` needs `AttemptInv`, because a task takes its number in one critical
section and pushes its record in another: a number between the two is no record's and no other task's.

**Processes.** Two invariants. `KillInv` (types, every named identity was born by now, the sweep over
observed identities comes last, what the KILL pass has passed over no longer runs) needs only that start
times are not reused. `OwnInv` is about ownership: every group is wholly AHRB's or wholly not
(`GroupsPure`), children lead their own groups and a PID between `spawn` and `register` or between `wait`
and `retire` is still theirs, registered leaders were AHRB's, and every name means AHRB's own
(`NamesMeanOwn`). `GroupsPure` is what makes signalling a whole group sound and what
`verified_group_members` relies on; it is preserved because a group ID is not given out while anyone is in
the group, and it is the step through `retire_process` that needs `~Recycle`. `SurvivorsStay` has an
invariant of its own, `PollListsObserved`: what the poll listed is all of the snapshot that is still there,
because an identity that is gone never comes back.

**A driver's children.** `MInv` is `OwnInv` and `JobInv`. The latter says what the number of a call's child
means while the call has it: before the wait the child itself is there, dead or alive, and leads the group;
after it the PID is in `toRetire`, where `OwnInv` keeps it from strangers (`HolderOK`). Two calls never hold
one PID (`HoldersOK`) nor one child (`ChildrenDiffer`, by start times), so that one call's wait takes no
child from another. Every step of a call is a step of `OwnedProcesses`, and then `OwnStep` applies, or a
step that only kills (`KillsOnly`), and then `KillsKeepOwn`. What `OwnedProcesses` has and this module
leaves out, a cleanup at the same time, is thereby covered on the side of the registry: `OwnInv` allows it.
`RetiredAreSettled` adds `Settled`: from its registration on, a call's group is registered under a leader no
younger than its child (`GroupRegistered`; an older leader's entry may still be there), so that
`retire_process` looks at all the members; and once a stopped group was swept nobody in it runs
(`NoneRuns`), since only a running member could fork into it and its number is kept from new processes until
the child is retired. Afterwards the members of the ended call only become fewer (`LeftShrinks`).

**Persistence.** `Inv` adds to the types, for each run, `Progress` (what has been written by the time a run
is at a given step: past `WriteBundle` its report is on disk, at `sync` its line is in the index, once
confirmed both; the root is removed only if confirmed) and `Locking` (between `flock` and unlock it holds
the lock, so the number it computed is still the next one when it writes). The types are proved in three
parts (`ControlOK`, `DiskOK`, `IndexOK`), one lemma for each phase of a run. A step changes the files of one
run only and the index grows at its end only (`StepIsLocal`, `LinesStay`), which carries every other run's
facts over. `OneLineEach` adds `NoLineYet`: a run that may still write its line has none. Outside the matrix
no run comes back to a step before its write (`EarlyComesFirst`); the matrix does, from a provisional report
to its final one, and therefore the property leaves it out.

**Row clocks.** `Inv` has three parts besides the types. `OneClock`: a session has at most one clock, under
whichever driver, and it counts for the session's rows; so the fallback of `observed` finds one candidate or
none (`KeysAreRight`). `ClocksFollowDue`: a session's clock runs exactly while it is unanswered, unless
`complete` retired it. `RowsAtRest`: when none of a row's clocks runs it has an end, the last answer's.
`TimingAssumption` says that a session works for one row or one collection and that the rows that `complete`
may close are in no collection; `run_inner` guarantees both by the rows it passes to `with_rows` and `rows`.
Without it `complete` could retire the clock of another row and leave that row with no end.

**Mock harness.** `Typed` adds to the types that a newest mark and a newest write to a path exist
(`MarksOK`, `WritesOK`), which `Pending` and `Reconciled` choose. Every step is one of eight kinds (`Moves`:
nothing of interest, a terminal, an acceptance, a response, a hook's record, a commit, a death, a start),
and each invariant is shown for the kinds instead of the thirty actions. `HooksFireOnce` needs that a hook
that ran has its claim file (`ClaimsCount`). `IndexIsTheJournal` needs `IndexOK`: besides the property, that
any pending turn in memory is the journal's unless its terminal is there; that an active session has one is
among the types (`SessionOK`). `EffectsAreTheJournals` is inductive as it stands, given that results are
never taken out of the journal; the work is in the start, which redoes the write that a death has cut off.

The turns need an invariant about all workers of a session and the tasks they leave behind, `Orderly`.
`OneAtWork`: of the workers and the RPC loop all but one are at rest. `AgentsFit`: that one serves the turn
that the journal has open, or its turn has ended and it is leaving, with or without a queued turn to take.
`TasksFit`: a tool task under way belongs to the frame its worker waits for, or it will find the session
cancelled or closed before it commits anything (`Halting`); and a task that has still to commit without
knowing a result is one whose call has none. `ControlFits`: nothing is pending after a cancel or a close, and
whoever cancelled a session that is not closed has ended its turn. `DownIsEmpty`: a death takes every agent
and task with it, so that a start begins with an orderly session. It is preserved on top of `TInv` and
`IndexOK`; the case for each action uses that only one agent can act in it. From it follows `StepSays`: a step
appends at most one record, and that record is `InTurn`, of the turn that was open when it was written. Then
both theorems are about the journal only. `OpenAtStays` and `OpenAtLast` say that the turn open at a place is
not changed by what is appended later, and is `Pending` at the end; a result is a `Commit` of the open turn
because the journal has none for its call, an acceptance an `Accept` because `submit` looks for the turn
first. The client has to be `Patient`: an accepted turn resets the flags that keep the tasks of a cancelled
one silent, and with `"resubmit"` among the `Faults` TLC finds both properties violated (2.6).

**Row schedule.** `CollectInv` adds to the types what the collector works on. `Fixed`: until the collection
begins nothing is collected, and from then on the sessions it expects stay the same and everything it has
counted is among them. `Expiring`: rows that the expiry has passed are decided. The count is then an argument
about cardinalities (`CountedIsDecided`): two disjoint subsets of the expected sessions with as many members
as those are all of them; `~Miscounted` is what makes them disjoint. With one session per row
`~Miscounted` is itself invariant, because a row fails only while its session is outstanding (`SingleInv`).
`FinalInv` carries this to the report: every row to be launched is open or an error (`Launching`), and the
collector's errors are handed over when it returns (`Handed`). `DeadlineIsRight` has `Books` besides: at
every await, what `RunProgress` has noted of a plain row is what its sessions have done. It holds at every
await and not only at the last because `DeadlineReportIsRight` is about a run cut off anywhere.

Every safety property and every refinement that a passing run checks is thereby a theorem. Only
model-checked are the liveness properties, since fairness and `ENABLED` are beyond the prover:
`ReleasedWaitersLeave`, `ReadyBarrierIsReleased`, `GateLetsOneThrough`, `ObservedProcessesDie`, `EveryCallEnds`,
`EveryRunEnds`, `AcceptedTurnEnds` and `EveryRunReports`.

## 5. What is left out

- *Data.* Prompts, response bodies, dialects, report contents, formatting, token arithmetic: a request is
  marker, hash and size; a report is its kind. Canonical hashing is taken to be a function of the request.
- *Of the engine:* parsing and rendering of dialects, paced and trickled bodies, listeners on TCP, Unix and
  pre-connected sockets, the file mailbox, the offline provider audit.
- *Of the registry:* `signal_registered_tree`, the rounds of `teardown_owned_processes` with profile locks,
  and the handlers' own code; the model has their common core, the cleanup, and lets it start at any moment.
  Profile-owned processes enter through `Track`.
- *Of a driver:* sockets, HTTP and standard-input transports, readiness of managed daemons, the sessions a
  driver keeps, the translation of events; of its children, the loop in which a failed control command
  cancels what it had started, managed daemons' own start and stop, and the end of `StdinRpc`, which are
  `stop_managed_child` again.
- *Of the mock harness:* close-delete, agents and steering, attach and its event stream, context compaction
  and the retry loop of a model request (a request succeeds, fails or errs), the per-invocation commands,
  the exit-code and stall knobs, budget and permission trials. `native_shell` runs its effect before the
  durable result, unlike every other tool; the calls of the model are the others. A `write` or `fsync` that
  fails in a daemon that lives on is left out: the in-memory index and the file may differ from then on.
- *Of the row schedule:* what a collector does inside (drivers and trials of its own, their waits and kills),
  whether evidence passes, the samples, and the runs of the other pillars, which have one collector each.
- *Tree accounting* (`TreeCpuTracker`, `TreeDiskTracker`): a failed observation fails the whole row in every
  caller, so that no state of a tracker outlives an error; what remains is sequential arithmetic over
  counters of the kernel.
- *Of the end of a run:* two `--no-save` runs that share one output directory, what `main` prints about an
  error, the contents of `prepare`'s directories.
- *Whole components:* everything in 1.1 that section 2 does not name, with the reason under `components` in
  `PROJECT.json`. Process inspection, the sampler and the offline guard are operating-system I/O;
  evaluation, comparison, waves and certification are pure functions of evidence, where a test with inputs
  and outputs is the better tool; the command line and manifests are parsing.

## 6. Plan

In order of what a wrong answer would cost a benchmark, and of what a test could not find:

1. **Done:** the fake model with its abstract replay; the owned processes; the end of a run with its
   abstract history; their invariants, refinements and theorems.
2. **Done:** `RowTiming`, with its safety properties proved. To do: drivers that share an address and
   sessions that share a name, as far as the harnesses allow it, and an abstract stopwatch per row that it
   implements.
3. **Done:** `ManagedChild`, composed with `OwnedProcesses`, and its three theorems. To
   do: managed daemons, whose launcher leaves a group to `Adopt`.
4. **Done:** `MockHarness` with its journal, crashes and resumes, the abstract `TurnLedger`, six theorems.
   To do: close-delete, agents, and the per-invocation commands, which share the journal across processes
   under a profile lock.
5. **`Teardown`** (`process/mod.rs`): the rounds of `teardown_owned_processes` and `signal_registered_tree`,
   extending `OwnedProcesses`: a second round after a failed one, escaped groups, profile locks.
6. **Done:** `RowSchedule` with six theorems. To do: its end as the `inner` step of `RunPersistence`, by a
   refinement; the inside of the collectors that kill what they measure.
7. **`Mailbox`** and **`PacedBody`** (`fake_model.rs`): files that are written, renamed and read by two
   processes; a body whose client leaves.
8. **`StorageSettle`** (`storage/accounting.rs`, `runner/storage/*`): an inventory of a tree that changes
   while it is read, stable after two equal readings; then the delete, crash and resume rows.
