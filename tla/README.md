# Formal model of `when-reasoning-pays-off`

TLA+ modules, TLC runs and TLAPS proofs for the stateful parts of the
repository. Source paths are written `src/...`, with `src/` the root of the
repository. `B/` abbreviates `src/batch-runner/batch_runner/`.

- `tlc -config X.cfg M.tla` checks a run: `X` is the run's name in section 4, `M`
  the `MC` module of what it checks; `PROJECT.json` lists both.
- `tlapm M_proofs.tla` checks the proofs of section 6.

## 1. Inventory

The repository is a measurement and capacity-planning toolbox. Most of its
files are data (benchmark records, published pages) or offline arithmetic over
them. State that several actors change, or that outlives a process, is in the
following parts.

| Component | Source | State | Operations | What makes it hard |
|---|---|---|---|---|
| PTU admission controller | `B/ptu/admission_controller.py` | per call: attempt, waits | `call`: send, classify a 429, sleep, retry, fall back, give up | five exits, zero and oversized waits, jitter |
| Cooldown coordinator | `B/ptu/cooldown_coordinator.py` | per call: pending offset, claimed flag | wraps the controller's throttle observer and sleep; claims a slot per 429, releases it in `finally` | calls of many threads interleave around one backend; every exit must release |
| In-memory backend | `B/ptu/cooldown_backends.py:60-118` | slot per worker under a lock | `claim_slot`, `release_slot`, `active_worker_count` | slots are reused; the active count is read under a second acquisition |
| Key-value backend | `B/ptu/cooldown_backends.py:120-217` | a counter and one key per worker in a shared store, with TTLs | five client calls per claim | expiry, crash or client error between any two calls |
| Workspace lock | `B/experiment/locking.py` | a lock file and its owner's metadata | `exclusive_run_lock`, `diagnose_lock`, `remove_proven_stale_lock` | processes die anywhere; paths are checked and used in separate system calls |
| Workspace doctor | `B/experiment/doctor.py`, `locking.py:472-514` | none of its own | diagnose, remove a stale lock, delete left-over staging | runs against live operations and half-deleted trees |
| Sample runner | `B/experiment/runner.py` | output tree: markers, staging, `runs/`, `latest.json` | `run_ledger`, `retry_failed_run` | crash between any two changes of the tree; retries of runs made from an input that may be edited |
| Benchmark runner | `src/scripts/run_benchmark.py` | ledger, semaphore, index of existing records; append-only files | `_run_async`, `_execute_cell`, `_live_call`, tool loop | concurrent cells share the ledger; crash and resume; two launches share a directory |
| Judge runner | `src/scripts/run_judge.py` | semaphore, index of existing verdicts; one file per verdict | scores records | as above on a smaller scale: no ledger, and a verdict cut off by a crash counts as done |
| Sweep: a probe's cell | `src/scripts/measure_max_output_tokens_sweep.py` (`_run_cell`) | a task per call, semaphore, early-stop event, committed spend | wake, take a permit, call, record; open the ramp; aggregate | answers in any order; four caps; tasks created before the first 429 |
| Sweep: the search | same (`_run_calibration_async`) | phase, grid position, bracket, retry, budget | probe a rate on the largest cell, then on the control; escalate, bisect | gates that make a probe worthless; the budget may end anywhere |
| Sweep: the adaptive stage | same and `src/scripts/task019_v25_adaptive.py` | onset observations of each role, its own budget and wall time | expand, bracket, admit on paired or replicated evidence | reads the probes of the search again, under other gates |
| Spillover policies | `src/scripts/simulate_spillover.py` | a state each, reactive and proactive | decide from the previous observation | pure, but meant for a loop that calls them once per request |
| Spillover measurement | `src/scripts/measure_dual_spillover.py` | the policies' states, follow-up counter, budget, counts of 429s | route, call, re-issue after a 429, halt | forced requests interleave with the policy's own decisions |
| Replay simulator | `B/ptu/replay_simulator.py` | leaky bucket, in-flight completions | leak, drain, admit or refuse each arrival | order of drain, leak and admission at equal times |
| Report bundle | `B/reporting.py` | bundle directory, staging, backup, lock file, recovery markers | `analyze` publishes; `report` re-renders by a swap; both recover what an interruption left | exceptions and kills between any two changes; the user edits the bundle |
| Experiment plan | `B/experiment/plan.py` | one file | publish atomically under the workspace lock | as the lock |
| Everything else | see `PROJECT.json` | none, or one process over files | validation, arithmetic, redaction, plots, checks | tested directly; nothing to interleave |

How they interact:

- A worker thread calls `CooldownCoordinator.call`, which runs the controller's
  retry loop with the coordinator's throttle observer and sleep in place of the
  caller's; both reach the backend, which all workers share. The backend is
  either the in-memory one or the key-value one.
- `sample run`, `sample retry` and `sample doctor --repair-stale-lock` are
  separate processes that meet in the file system only: the lock file, then the
  output tree.
- Launches of `run_benchmark.py` meet in the `runs/` directory of a benchmark.
  The judge and the analysis read what they wrote.
- The search awaits one probe at a time and sees a probe only through its
  aggregated report; the total-budget event is set between probes. The adaptive
  stage runs after the search, on the search's probes and its own.
- The spillover measurement imports the simulator's policies and calls them once
  per request; its two deployments know nothing of each other.
- `analyze` and `report` processes meet in the bundle's directory and its lock.

What makes each correct: slots are exclusive, kept through a call and given
back, and spread equal waits as far as the jitter lets them; the lock excludes
and a live one is removed by nobody, which the code keeps short of one race; `latest.json` only ever points to a complete run, and staging of a
live run is left alone; a budget is overshot by no more than the requests in
flight, an exit code of 0 is true, and a resume pays for nothing twice; a
selected rate rests on what was measured at that rate, on both cells, and no
rate is skipped; a deployment that throttled is left alone for as long as the
parameters say; a published report is whole at its path or in a backup that is
put back, and is changed by nobody but its owner.

## 2. Plan

In the order of importance. Done:

1. `SlotRegistry` (abstract) and `CooldownCoordination` (controller, coordinator
   and in-memory backend together), shown to implement it; proofs.
2. `KeyValueCooldown`, the same protocol over a store that forgets; proofs.
3. `ExclusiveLock` (abstract) and `WorkspaceLock`, one action per system call,
   shown to implement it; proofs.
4. `SampleRuns`, the output tree under a lock that is used as `ExclusiveLock`
   allows; proofs.
5. `BenchmarkRunner`; proofs.
6. `PublishedBundle` (abstract) and `ReportBundle`, shown to implement it; proofs.
7. `ProbeContract` (abstract) and `ProbeCell`, shown to implement it, so that
   the search needs only `ProbeResults`; `CalibrationSearch`, and
   `AdaptiveSearch` on top of it; proofs of all three.
8. `SpilloverPolicies` and `DualSpillover`; proofs.

Left, in this order:

9. An abstract directory of records that `BenchmarkRunner` implements, and an
   abstract workspace (publish a complete run, move the pointer to it) for
   `SampleRuns`.
10. The replay simulator. Its utilisation is a reflected sum (cost of what was
    admitted, minus refunds and leak, held at zero), so the interesting claim is
    that the predicted retry-after suffices; ties of drain, leak and arrival at
    one instant decide it.
11. One controller shared by several threads, instead of one per worker: the
    coordinator swaps the controller's observer and sleep around a call
    (`cooldown_coordinator.py:153`), so concurrent calls can see each other's.
12. The judge runner, a smaller loop of the benchmark runner's shape; plan
    publication, which uses the modelled lock.

## 3. Modules and how they correspond to the code

### `SlotRegistry`
What the protocol class `CooldownBackend` promises: a worker of a deployment
holds at most one slot, keeps it until it releases it, and shares it with no
peer. It does not say how a slot is chosen.

### `CooldownCoordination`
One action is one stretch of a worker's thread between two points where another
thread can be seen: the backend's lock, `send`, `sleep`.

| Action | Code |
|---|---|
| `StartCall` | `CooldownCoordinator.call` up to the first send |
| `Respond` | a response that is no 429, or an exception of `send` |
| `ThrottleAboveCeiling`, `ThrottleExhausted`, `ThrottleRetry` | the controller's three answers to a 429, with jitter |
| `Claim` | `claim_slot` under the lock, and the offset of the deterministic strategy |
| `DrawOffset` | the random strategies, which read the active count under a second acquisition |
| `Sleep`, `SkipSleep`, `Wake` | the wrapped sleep, taken only for a positive wait |
| `Finish` | the `finally` clause |

Each worker has its own attempt limit and may have a fallback. Times are whole
milliseconds and none passes in the model: a sleep is its length. The unbounded exponential draw is capped by `MaxExponential`, and no
property speaks of it. Header spellings, observers and event fields are data.
Variables of an iteration are reset when it ends, where Python leaves dead
locals.

### `KeyValueCooldown`
One action per client call (`get`, `expire`, `incr`, `set`, `delete`). The store
is external: keys vanish when their TTL has run out. `Prompt` says whether a
claim fits into one tick of the store's clock; the passing run does not assume
it. `Crash` also stands for a release whose client call raised, which the code
swallows. `MaxCounter` bounds the counter, which the code never decrements.
`current` is a history variable: whether the slot was drawn from the counter's
present life.

### `WorkspaceLock`
One action per system call on the lock file, or probe of the process table.
`lock` is the inode at the path, `content` what the inode holds, `mine` and
`seen` what a process remembers of it. A process is one PID of one host, so that
starting it again after its death is a reuse of that PID; the process start
tokens that tell a reused PID from a live one are left out because the doctor
stops at both answers. There may be any number of doctors, and the file system
may hand out the number of a deleted file as soon as nobody has it open. The
repair log is an append whose failure ends the repair (`RemoveStale`).

`readers`, `checkers` and `overtaken` are history variables. A doctor is
overtaken when the file at the path is replaced between its last look at it and
its unlink, in one of the two ways it cannot notice: after its comparison of
inode numbers, or before it by a file with the same number. Section 4 has the
run in which it then removes a live lock (`LockOvertaken`). What the other
properties and the theorems say holds until that happens.

### `ExclusiveLock`
What the operations under the lock rely on: it is taken while it is free, by one
process; it is given back by that process, which is out of the workspace with
it; a holder that dies leaves it locked until it is cleared. Two models meet in
it. `WorkspaceLock` provides it (`ProvidesLock`): a lock is there when a file is
at the path, its holders are the operations from the creation of the file to its
release or their death, and those that have written its metadata and not yet
turned to the release are inside. `SampleRuns`, whose lock is
a variable, uses it (`UsesLock`): a runner or doctor takes it free, works only
while it holds it, and leaves `Abandoned` behind when it is killed. Each step of
either is a step of the contract or unseen by it, except the unlink of a doctor
that is overtaken: `SampleRuns` describes workspaces in which that does not
happen.

### `SampleRuns`
One action per durable change of the output tree: making a directory, creating
its marker, writing it, each artifact, the rename that publishes a run, the
temporary file and the replace of `latest.json`, each deletion of `rmtree`. The
lock is a variable, since `WorkspaceLock` models how it is kept; `Abandoned` is
a lock whose holder was killed. `Fail` is an exception at any of those points,
`Crash` a SIGKILL, `EditInput` the user. Left out: the cost gate, manifests'
content, wire formats; and the second `_claim_output_root` call inside
`run_ledger`, which repeats the first under the same lock and finds what that
one left. In the code, as here, a retry picks its rows before it takes the lock.

### `BenchmarkRunner`
Launches of one experiment over one `runs/` directory.

| Action | Code |
|---|---|
| `Launch` | `_run_async` up to `gather`: the index of existing records, a fresh ledger |
| `SkipCell`, `RefuseCell`, `DryCell`, `SendFirst` | what a cell does from the semaphore to its first suspension, in one piece since nothing is awaited: ceiling, index, name collision, dry run, request |
| `RateLimited`, `SendAgain`, `CallFails` | the 429 loop of `_live_call` and `_one_responses_call` |
| `ToolCalls` | an iteration of `_live_tool_loop_call`; the request after the last one offers no tools |
| `Answer` | pricing, `budget.record`, the exclusive open and the record |
| `Finish` | `gather` returns; the first exception, else the halt, else 0 |
| `Crash`, `CrashWriting` | the process dies, the latter inside `json.dump` |

A single-shot experiment is a loop of no iterations (`MaxIterations = 0`), since
its one request is like the closing one. `asyncio.Semaphore` is first come,
first served and the coroutines are started in order, so cells are admitted in
order. A cell may be admitted later than the event loop would manage; this only
adds behaviours. Prices are small numbers. The clock gives the second that is
part of a file's name. The index of a launch is read in one step; the files are
independent of each other, so a record a concurrent launch writes during the
scan only counts as written after it. `alone` is a history variable: no other
launch ran during this one. Left out: configuration, dataset, estimate and the
gate on it, tool dispatch, the recorded metadata.

### `ProbeResults`, `ProbeContract`, `ProbeCell`
A probe is one cell of the sweep run at a constant rate. Its caller awaits it
and reads counts from the aggregated records, so `ProbeResults` says which
reports there are: a 429 in the warm-up or in the ramp, how much of the ramp was
measured (nothing, too little for the schedule check, enough), and the cost.
Costs are counted in calls, since the script prices every call alike, a 429
included. `ProbeContract` is the abstract probe: it ends, once, in one of them.

`ProbeCell` is the cell itself, and implements `ProbeContract`:

| Action | Code |
|---|---|
| `Wake` | the timer of a call; a ramp call that wakes after the first 429 leaves, another one takes a permit or queues |
| `Grant` | the semaphore serves its first waiter |
| `Answer` | success, 429 or transport error: a record, the early-stop event, the permit back |
| `OpenRamp` | the warm-up is gathered; the loop of `create_task` with its four checks, in one piece since nothing is awaited in it |
| `Close` | the ramp is gathered; late halt reason, `_aggregate_cell` |

The clock is left out: timers fire in the order of the schedule, answers come in
any order. The total-budget event is only set between probes, so it is a
constant of a probe (`cellStop`). Its state and specification have names of their
own (`cellPhase`, `PInit`, `PSpec`), so that one module can prove about probe and
search.

### `CalibrationSearch`
One step is one awaited probe and all that is decided from it before the next
await. What a probe's records say beyond its report (cache hit of the warm-up,
dispatcher backlog, visible output, pacing) is chosen freely within what the
aggregation can produce; `Classify` is the order of the gates.

| Action | Code |
|---|---|
| `Faults` | `assert_probe_schedule_intended_rate` raises and ends the search |
| `Retries`, `GivesUp` | an ineligible probe is repeated once, then ends it |
| `LargestPasses` | no 429 on the largest cell: the next rate, the next phase, or the upper half of the bracket |
| `LargestHits` | a 429: the control follows at the same rate; only the grid looks at the budget before it |
| `ControlPasses` | contrast: the rate is selected |
| `ControlHits` | both throttled: bracket below, or give up without a lower rate |

Rates are points of a logarithmic scale, where the geometric midpoint is the
middle; rounding to the scale stands for that of floats. `ScaleAssumption` says
that the unit of the scale is so fine that the gap between neighbouring rates
can be halved `MaxDepth` times, as it can in floating point. Configuration, records,
reports and charts are left out, and so is the static sweep of fixed rates. The
run lock is left out too: it is an `flock` on a file that nobody unlinks, which
excludes by itself (its metadata is another matter, see section 4).

### `AdaptiveSearch`
Extends the search by the stage behind it. `Enter` takes over or declines by the
search's outcome and the remaining budget; `Expand` and `Bracket` are one probe
of steps 2 and 3 for the role at hand, `NextRole` moves on; `Evaluate` is C1,
then C2's separation; `Replicate` and `Admit` are C2's two probes and their
verdict. `onsets` holds what passes the stage's own eligibility, of the search's
probes too (`FirstSearch`). An exception of a probe leaves the stage with the
search's outcome, as the code logs and swallows it. `late` may become true at any
probe: the wall time.

### `PublishedBundle`, `ReportBundle`
`PublishedBundle` is what the owner of a directory is promised: it is published
once, replaced by nothing but itself, edited by nobody else. `ReportBundle` has
one action per change of the file system, with the checks that lead to it, so
that an exception (`Fail`) or a SIGKILL (`Crash`) can fall between any two: the
lock file and its marker, `flock`, the admission of the directory, recovery
(drop a staging, restore or drop a backup, unmark), staging with its marker and
artifacts, publication into an empty or absent directory, the swap (`MarkOut`,
`Retire`, `Swap`, `Rollback`, `Unmark`, `DropBackup`) and the `finally` clause.
`EditBundle` is the user, while no writer holds the lock: an edit between the
comparison and the deletion of the backup is lost, which section 4 lists.
Contents are what they were rendered from. `torn` is a history variable: an
interruption fell inside `mkdir` and its marker, or inside `rmtree`.

### `SpilloverPolicies`, `DualSpillover`
`SpilloverPolicies` are the two policy functions, without state of their own;
times are naturals, fractions percentages, and whether a window's p95 is above
its threshold is an input. `DualSpillover` is the measurement that calls them:

| Action | Code |
|---|---|
| `Route` | the policy decides on the previous request's observation; a positive follow-up counter overrides it and is decremented |
| `PrimaryAnswers` | the call, its row, and the two halts at the end of a request |
| `PrimaryThrottled` | a 429: follow-ups are set, the reactive policy is told at once, the request is re-issued on the spillover |
| `SpilloverReturns` | up to two 429s; the row, the counts, the halts |
| `CallRaises`, `Ended` | any other exception; the end |

`lastThrottle`, `lastSlow` and `lockedAt` are history variables. The random draw
against the fraction is a choice where it lies strictly between none and all.
Left out: preflight, schedules in seconds, percentiles, charts, and the
simulator's own loop over one deployment.

## 4. Runs

Passing runs:

| Run | Instance | States | Shows |
|---|---|---|---|
| `CooldownCalls` | 3 workers of one deployment, two deterministic, one uniform; 3, 2 and 2 attempts, one with a fallback; waits of 0, 2 (retried) and 3 (above the ceiling); jitter; slot width 2; fairness | 456 thousand | slots are exclusive, never leak, offsets stay in their window, equal waits end as far apart as jitter allows, the backend implements `SlotRegistry`, and every call ends |
| `KeyValueSlots` | 3 workers, one with a client that lacks `delete`; TTL 2; counter up to 2; expiry, crashes, client errors anywhere | 2.1 million | slots drawn within one life of the counter differ; the store remembers the slot that is held |
| `LockExclusion` | 2 runs on 2 hosts, 2 doctors, 2 inodes that are reused, crashes and restarts anywhere | 1.5 million | until a doctor is overtaken: exclusion, no live lock removed, an unreadable lock fails closed, and the whole is an `ExclusiveLock` |
| `RunsRecovery` | 2 runners, 1 doctor, 3 run IDs, 2 rows, 2 inputs, 2 artifacts, failures and crashes anywhere | 2.1 million | the pointer is sound and moves to the newest run, live staging survives the doctor, failed runs clear theirs, retries call failed rows only, the lock is used as `ExclusiveLock` allows |
| `BenchmarkLaunches` | 2 launches, 3 cells, 2 slots, 2 attempts, a loop of 1 iteration and its closing request, ceiling 1, 2 seconds; dry or live, resuming or not, sequential or overlapping, crashes anywhere | 2.0 million | bounded overshoot, true clean exits, append-only records, no second payment on resume |
| `ProbeCell` | 2 warm-up and 5 ramp calls on 2 permits; the spend cap lets 4 ramp calls through; stop at the first 429; fairness | 2 thousand | what was measured is a prefix of the schedule, and the cell implements `ProbeContract`, its liveness included |
| `Calibration` | 2 rates in each phase, 2 bracket levels, probes of 1 + 5 calls of which the call cap leaves 3 and 2 records are enough, stop threshold 30 | 15 thousand | a selection rests on a throttled largest cell and enough records of the control, brackets and escalations on rates that passed; the budget is overshot by a probe and a warm-up at most |
| `Adaptive` | 1 rate in each phase, 1 bracket level, probes as above, stop threshold 22, budgets of 26 and 16 calls; fairness | 128 thousand | past the stop threshold only warm-ups are paid, the stage keeps its own budget and overrides nothing, both searches end |
| `Spillover` | 7 requests, gaps of 1 and 3, stay of 2, interval 4, window 3, 2 follow-ups, ceiling 11; either policy | 2.2 million | a throttled primary is left alone, the fraction is ramped by windows, the budget is passed by less than a call |
| `BundleRecovery` | 2 writers, 2 reports, 2 artifacts, exceptions and kills anywhere, edits | 123 thousand | leftovers are accepted, success is clean, and every step keeps the bundle (`PublishedBundle`) |

Why the bounds are enough to meet the interesting cases:

- *Cooldown*: a third worker is what makes slot reuse differ from counting
  claims (the mutant `ClaimCount` needs it); a third attempt lets a call claim,
  wake, and claim again while peers leave. Slot width 2 is what the jitter of the
  wait that is slept can take from one sleep and give to another, so neighbouring
  slots can resume together, as they can in the shipped configuration from waits
  of 500 ms on, and slots 0 and 2 cannot.
- *Key-value*: a TTL of 2 lets a key age without expiring; a counter of 2 lets
  two workers hold distinct slots of one life, and a third be refused by the
  bound.
- *Lock*: two doctors can diagnose one stale lock, and one run make a lock
  between them; a second run on another host has an owner that no doctor here may
  judge. Two inodes are a file that is gone but still open and the one that
  replaces it; a deleted file's number comes back with the next one.
- *Runs*: three IDs give a chain of retries, two artifacts a partial staging
  directory, the second input no longer has row `b`.
- *Benchmark*: with two slots and a third cell, the ceiling is crossed with a
  cell in flight and a cell waiting; ceiling 1 is crossed by any request; two
  seconds tell launches with equal file names from others.
- *Probe*: a fifth ramp call is one the cap refuses; with two permits, two calls
  are in flight when the first 429 arrives and two more still sleep, so that
  tasks are skipped behind tasks that were sent.
- *Search*: two rates give a phase a rate with a lower neighbour and one without;
  two bracket levels let a bracket move both ends before it is exhausted; a
  threshold of 30 calls is reached on the grid, in a bracket, at a control and at
  a retry. The call cap cuts every ramp that no 429 ends, yet leaves the records
  that are enough.
- *Adaptive*: one rate per phase already ends in each outcome of the search that
  the stage reacts to; 16 calls are four full probes, so the stage's budget ends
  in each of its steps, and 26 leave it less than that after a long search. The
  least remainder for entry is small enough for the stage to be entered after the
  stop event, which the shipped amounts allow too.
- *Spillover*: a 429, its two follow-ups, a return, a second failure and a second
  return are seven requests; with gaps of 1 the interval outlasts the stay, with
  gaps of 3 the stay the interval; six answered calls of 2 pass the ceiling of 11.
- *Bundle*: two artifacts give a partial staging and a partial deletion; with two
  writers one can wait at the lock, or meet what the other left; two reports tell
  a replacement from a re-rendering.

Deadlock is checked except in `BenchmarkLaunches`, `ProbeCell`, `Calibration` and
`Adaptive`, which really stop: when every launch, the probe, or the search has
ended. The symmetry sets permute workers with equal clients, run IDs
and runners, and launches, which no property tells apart; runs with liveness use
none.

Detailed models are shown to implement abstract ones by `INSTANCE ... WITH`, the
abstract specification being a property of a run: `SlotRegistry`
(`SlotProtocol`), `ExclusiveLock` (`ProvidesLock`, `UsesLock`), `ProbeContract`
(`KeepsContract`) and `PublishedBundle` (`KeepsBundle`). For the bundle the
mapping says what the owner can still get: what is at the path, or else the
backup that the next writer restores.

Violation runs, behaviours of the code that a document excludes:

| Run | Property | What happens |
|---|---|---|
| `BundleBlocked` | `NextInvocationRecovers` | `docs/19-five-minute-provenance-report.md:263` says that the next invocation recovers an abandoned backup or staging directory. A kill between `stage.mkdir()` and its marker (`reporting.py:1629`), or inside `rmtree`, leaves a directory that every later invocation refuses |
| `LockOvertaken` | `LiveLockKept` | `docs/20-five-minute-experiment-run.md:352` says that a live PID is never removed, `locking.py:447` that a live lock never is. A doctor that has read the lock of a run on its way out, after the run has let go of it, finds the PID free, and in the meantime another run has made its lock with the same inode number: the comparison (`locking.py:461-467`) passes, and the unlink by path (`:468`) removes the live lock. Two doctors with one stale lock get there without reuse: the second compares, the first unlinks, a run creates, the second unlinks |

Divergences met on the way that have no run of their own. In each, the code does
the first thing and the quoted text says the second.

*Controller, coordinator, backends*

- A 429 without a positive wait on the last attempt raises `AdmissionExhausted`;
  `docs/10-ptu-admission-controller.md:90` and `:98` say that `max_wait_ms=0`
  with a fallback falls back at once.
- A wait of zero never reaches the wrapped sleep, so the slot offset that
  `docs/11-multi-worker-cooldown.md:42-49` adds to every retry is skipped
  (`admission_controller.py:335`). `CooldownCalls` includes zero waits.
- `docs/11-multi-worker-cooldown.md:51-59` has three workers with equal waits
  resume 100 ms apart, `:159` has no two of twenty resume within 50 ms, and
  `cooldown_coordinator.py:3-6` says that they do not resume at the same instant.
  The wait is jittered by 10 % either way before the offset is added
  (`admission_controller.py:104-113`), so with 100 ms slots neighbours can meet
  from waits of 500 ms on (500 + 50 = 500 - 50 + 100), and with longer waits slots
  further apart can. `SleepsApart` says what is left of the
  distance; `CooldownCalls` has neighbours that meet.
- A sole uniform worker draws an offset of up to one slot width, although the
  module's text says that one worker adds no latency
  (`cooldown_coordinator.py:138`).
- When the key-value counter's TTL runs out under a worker that still holds a
  slot, the next worker draws the same one; `docs/11-multi-worker-cooldown.md:63`
  guarantees pairwise distinct offsets across active workers. Hence
  `DistinctWithinCounter`.
- With a client that lacks `set`, a re-claim draws a new slot, although
  `claim_slot` is documented as idempotent (`cooldown_backends.py:198`).
- The key-value counter is never decremented, so slots grow past the number of
  workers while the counter lives (`cooldown_backends.py:194`), and a crash
  between `incr` and `expire` leaves it without a TTL (`:190`).

*Workspace*

- A live lock can be removed: see `LockOvertaken` above. The other properties of
  the lock, and the theorems, hold until a doctor is overtaken, under any number
  of doctors and with inode numbers reused.
- The input can be edited between a retry's check and its run, so that the child
  calls rows of another input than `docs/20-five-minute-experiment-run.md:329`
  confirms. `OnlyFailedRowsRetried` says what does hold.
- A crash before the marker, or in the middle of `rmtree`, leaves staging that
  the doctor skips and every later run refuses; `CHANGELOG.md:166` promises the
  cleanup of crash-left staging directories (marker-validated ones, strictly).

*Benchmark runner*

- The ceiling is read when a cell gets its slot; a cell in backoff sends its
  retry after another cell crossed it (`run_benchmark.py:1433`), while
  `docs/18-agentic-loop-budget-governance.md:152` has the halt before the next
  call. `OvershootBounded` says by how much.
- The help text of `--skip-existing` says that the directory is scanned before
  each cell is scheduled; it is scanned once per launch
  (`run_benchmark.py:1953-1972`). With overlapping launches, cells are paid for
  twice; `ResumeNeverRefires` is about a launch that is alone.
- The resume index ignores `dry_run`: after a dry run, a live launch with
  `--skip-existing` exits 0 having measured nothing. `CleanExitIsComplete` says
  what the code does give.

*Sweep* (`measure_max_output_tokens_sweep.py`)

- The schedule check looks only at records the probe kept up to its last
  admission (`:8517`), so an early stop or a late dispatcher makes a complete
  schedule look under-generated and ends the search with an exception; the
  docstring of the check (`:1215`) speaks of schedules that under-generated.
- A 429 of the warm-up counts as an onset at the ramp's rate (`:4572`).
- A bracket that the total budget stops is reported as a search without contrast
  (`:8813`).
- Tasks already created are sent after the first 429 of an early-stopping cell.
- A control that a cap of the probe cut short, past the records that are enough,
  is selected on like one that ran its whole ramp.
- The adaptive stage reads the total spent as it was before the stage (`:7645`),
  so that it goes on probing past the total cap. The stop event leaves each of
  those probes its warm-up only; `TotalOvershootBounded` says what that sums to; the outcome for insufficient driver pressure
  in phase B is never reached.
- A contender's `O_TRUNC` (`:1694`) wipes the metadata of the run lock; its
  liveness test uses a PID without a host name.

*Spillover*

- The reactive policy returns after `MinStay - 1` requests on the spillover when
  a late first token sent it there, since the first decision already counts as
  one; `simulate_spillover.py:314` and `benchmarks/04-.../README.md:118` say at
  least `stay_on_spillover_min_requests`. `ReturnsAreSpaced` says what holds.
- The fraction reaches its cap after that many breached windows in total, not
  consecutive ones as `simulate_spillover.py:394` says.
- `measure_dual_spillover.py:2021-2023` says that the policy is still on the
  spillover when the follow-up counter is used up; the forced requests feed it
  and may have ended its stay, and its health check may go to a request that
  never reaches the primary.
- A request that met two 429s on the spillover stays as a row without usage and
  counts as completed.

*Report bundle*

- After a kill between the two renames, `reasoning-payoff report
  report/report.json` cannot read the file it re-renders: the command loads it
  (`cli.py:626`) before the recovery would put it back.
- A lock file cut off before its marker refuses every later invocation.
- What a user edits between the comparison and the deletion of the backup is lost.

*Replay simulator* (read, not modelled)

- `_pair_predicted_observed` (`replay_simulator.py:683-694`) says that unpaired
  events are reported as false positives and false negatives. In validation a
  correctly predicted 429 emits only an `observed_429` event, so a perfect
  prediction has no pairs at all to calibrate on.
- `recover_zero_usage_429_demand` takes the first accepted record of a cell,
  where its docstring (`:468`) says the nearest.

## 5. Fairness

`CooldownCalls` assumes weak fairness of each worker's steps inside a call: a
thread is scheduled, its `send` returns, its sleep ends, and Python's lock is
not held across any of them. Nobody has to start a call, and which of several
possible steps a worker takes (a response, a 429) is left open: retries are
bounded by `MaxAttempts`, so no assumption on the service is needed.

`ProbeCell` assumes weak fairness of every timer, permit, answer and of the two
gathers: the event loop serves them, and the client's own timeout ends every
call. `Adaptive` assumes weak fairness of the whole next-state relation: the two
searches are one coroutine that awaits one probe at a time, and `ProbeCell` shows
that a probe ends. The other specifications are checked for safety only: a
process that is killed, or a lock that fails closed until a human intervenes, is
within what the code promises.

## 6. Proofs

The theorems hold for every value of the constants within the named
assumptions of the modules. Each proof of an invariant has one step per action.

`CooldownCoordination_proofs`
- `TypeCorrect`, `SlotsAreDistinct`, `SlotsAreReleased`, `OffsetsStayInWindow`,
  `ImplementsRegistry` (every step is a step of `SlotRegistry` or a stutter).
- `SleepsAreApart`: of two deterministic sleepers with equal waits the one in the
  higher slot sleeps longer by the distance of the slots less twice the jitter.
  Nothing is assumed about the width or the jitter; where the jitter spans the
  distance, nothing is promised.
- Inductive invariants: `TypeOK` with the retry budget; that a slot is held
  exactly by calls that claimed it and differs from those of all peers; that
  what is slept is the jittered wait plus the offset of the slot still held;
  that offsets lie below the width times the number of peers. The last needs
  that the lowest unused index is at most the number of peers, which is a
  counting lemma (`UsedSlotsBound`, `LowestUnusedIsFree`).
- `CallsRunDown`: each step of a call lowers `MovesLeft`, six for each attempt
  that is left and the rest of the round, and steps of other workers leave it.
  A retry that skips its sleep counts too.

`KeyValueCooldown_proofs`
- `TypeCorrect`, `SlotsDistinctWhileCounterLives`. The invariant adds that
  slots of the counter's present life lie below the counter.
- `CacheAgrees`: the key of a worker that holds a slot, while there is one, says
  that slot.

`WorkspaceLock_proofs`
- `TypeCorrect`, `LockExcludes`, `LiveLockIsKept`, `EmptyLockStays`, for any
  number of runs and doctors and any reuse of inode numbers.
- The invariant, until a doctor is overtaken: a process responsible for a lock
  finds its own file at the path (`OwnerInv`), and there is at most one such
  process (`SoleInv`); what a doctor has read still holds of the file at the path,
  and once it has proven the owner dead nobody is responsible for that file
  (`ReaderInv`); what it has checked is still there (`CheckerInv`). `Unlink` takes
  the file from every other doctor's `readers` and `checkers`; each of them either
  notices, or is overtaken.
- `ImplementsLock`: every system call is a step of `ExclusiveLock` or a stutter
  (`LockStepMaps`), or overtakes a doctor. The invariant tells which: an owner on
  its way out finds its own file and unlinks it, so it gives back its own lock; a
  repair unlinks a file that has no live owner.
`SampleRuns_proofs`
- `TypeCorrect`, `PointerIsSound`, `PointerFollowsRenames`, `LiveStagingStays`,
  `FailuresCleanUp`, `SuccessesStay`; and `WorksUnderLock`, step by step against
  `ExclusiveLock`, for any number of runners and doctors.
- Three invariants: who is where (`PlaceInv`: an operation inside the tree holds
  the lock, and the directory at hand is of the kind its place asks for); the
  state of the staging directory at each place, up to the rename after which the
  run is complete and the newest (`StageInv`); and that runs and retries under
  way call failed rows of a complete parent only (`RunInv`).

`BenchmarkRunner_proofs`
- `TypeCorrect`, and `RecordsStay`: no step removes or replaces a record, since
  a file is opened under a name no record has.
- `OvershootIsBounded`: `total < Ceiling + Concurrency * CellCap`. The
  invariant reserves the price of a whole loop for each cell in flight: the
  ledger plus the reservations stays below that sum. A cell enters below the
  ceiling, and its answer turns its reservation into cost; that what it owes
  fits the reservation is a second invariant over its requests (`OwedInv`).
- `CleanExitsAreComplete`: what each settled cell of a running launch left
  behind (`Evidence`) is a record, or a reason to be skipped that lasts until
  the launch ends; an exit of 0 excludes the halt, so what is left is a record
  or the index, which holds cells with complete records.
- `ResumePaysOnce`: a launch that is alone is the only writer, so whatever its
  index misses lies in cells that no longer wait.

`ReportBundle_proofs`
- `TypeCorrect`, `SuccessLeavesReport`, `LeftoversAreAccepted`, and
  `ImplementsBundle`: every step is a step of `PublishedBundle` or a stutter.
- `BundleInv`: whoever is inside holds the lock (`HolderInv`); what stands at the
  path is empty or whole, and a backup is partial only behind a whole bundle
  (`Shape`); and what the writer at hand has established (`At`). `AttendedInv`,
  for the leftovers, says that unless an interruption fell into a two-call
  window, every directory or marker that is not acceptable has a writer at work
  on it.

`CalibrationSweep_proofs`, of a probe (`ProbeCell`)
- `CellTypeCorrect`, `RampIsMeasuredInOrder`; `ImplementsContract`, the safety
  part of `KeepsContract`; `ProbeOnlyAdvances`: no step takes a call back and
  each takes a call or the probe further.
- `CellInv`: the early-stop event is what the answers say, the ramp exists from
  the end of the warm-up on as far as it was paid for (`Stages`); a call that
  still sleeps has only sleepers behind it, and none is skipped without a 429
  (`InTurn`, which `MeasuredPrefix` needs). That the report is one of `Reports`
  is a counting argument over the calls that were sent (`SentRamp`).

of the search (`CalibrationSearch`)
- `TypeCorrect`, `SelectionIsMeasured`, `NoRateIsSkipped`, `OvershootIsOneProbe`.
- `SearchInv`: every rate behind the search passed, and a control is only probed
  at a rate that throttled the largest cell (`Behind`); the stop event is set
  exactly from the threshold on, and a search under way past it is at a bracket's
  control probe, which is no retry (`Budget`).
- `BracketsStraddle`: the bracket at depth `d` is at least as wide as
  `ScaleAssumption` has it there (`Straddle`), hence two units, and its middle is
  inside.
- `SearchIsBounded`: each probe lowers `ProbesLeft`, four for each rate and each
  bracket level ahead, and those left at the present one.

of the adaptive stage (`AdaptiveSearch`)
- `AdaptiveTypeCorrect`, `TotalOvershootIsWarmUps`, `AdaptiveOvershootIsOneProbe`,
  `SelectionStands`.
- `AdaptiveInv`: observations are of rates below some bound, so that `Min` and
  `Max` of a nonempty set of them exist (least elements by well-foundedness of
  `<`; nothing is assumed about the set's size) and are rates of that set
  (`Observations`); what the search leaves the stage (`Handover`); and what the
  stage has spent (`AdaptiveBook`).
- `StopBook`, for the total: past the threshold the stop event is set, and each
  probe that the stage can still start may add its warm-up to what was spent.
- `SweepIsBounded`: each step of either search lowers `StepsLeft`, as the limits
  of each step count its probes for each role (`CountInv`).

`DualSpillover_proofs`
- `TypeCorrect`, `OvershootIsBounded`, `FollowUpsAreKept`, `ReturnsStaySpaced`,
  `RampStaysGradual`.
- `CounterCovers`: the follow-up counter covers the requests that are left of the
  stay after a 429. `Watched`: while the reactive policy is on, its clock is no
  older than the last failure, and when it is off the interval and the stay have
  passed since, or the failure is the observation not yet decided upon.
  `RampBook`: the fraction against the windows begun.

Only model-checked: `CallsTerminate`, `Terminates` and the liveness part of
`KeepsContract`, which need fairness and `ENABLED`, and the two violations. Of the
first three the proofs have the part that needs neither: that only boundedly many
steps are possible (`CallsRunDown`, `SweepIsBounded`, `ProbeOnlyAdvances`), so
that what is left to TLC is that some step always is. Induction over data is out
of the prover's reach too; no module with theorems needs it.

## 7. Not modelled

`PROJECT.json` lists every component with its status. Not modelled yet, and
planned: replay simulator, judge runner, plan publication (which uses the modelled
lock). Of the partly modelled ones, the sweep's static schedule and run lock, the
simulator's own spillover loop, and the rendering of reports are left out. Not
planned: validation and arithmetic over single documents (ledger, cost, sizing,
contracts), provider adapters (the runner sees a record or an error), command
line, redaction, plots and checks of published files: sequential code without
state that another actor sees.
