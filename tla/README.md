# dvsim in TLA+

DVSim builds and runs hardware simulations: a *flow* expands a configuration
and a test plan into *jobs* (builds, test runs, coverage merges and reports),
a *scheduler* runs the jobs in dependency order on *backends* (the local host,
or a cluster through a *launcher*), and the results are mapped back onto the
test plan and rendered.  This directory holds TLA+ modules for its core logic,
TLC configurations that model-check them on small instances, and proofs of the
main theorems for every instance.  Paths below are relative to the repository;
`S` stands for `src/dvsim`.

1. [Inventory](#1-inventory) of the system
2. [Modules](#2-modules) and how they correspond to the code
3. [Runs](#3-runs): what is checked, on what, and why that is enough
4. [Fairness](#4-fairness)
5. [Proofs](#5-proofs)
6. [What is not modelled](#6-what-is-not-modelled)
7. [Plan](#7-plan)

## 1. Inventory

| component | state it keeps | operations | talks to |
|---|---|---|---|
| **scheduler** `S/scheduler/core.py` | a `JobRecord` per job (status, dependency counters, kill flag, handle), ready heap, running set, per-backend counts, event queue, shutdown signal/event/started flags | `run`, `_schedule_ready_jobs`, `submit_job_completion`, `_mark_job_{ready,running,completed}`, `_update_completed_job_deps`, `_handle_exit_signal`, signal handlers | awaits `submit_many`/`kill_many` of backends, receives their completions as callbacks, tells observers of each status |
| **resource manager** `S/scheduler/resources.py` | usage per resource, capacities from a provider | `can_allocate`, `try_allocate`, `release`, `validate_jobs` | called by the scheduler only |
| **graph construction** `core.py:181-241` | none | `_build_graph`, `_validate_acyclic` | run once, before the loop |
| **backend interface** `S/runtime/backend.py` | callbacks | `_emit_completion`, `_prepare_launch`, `_finish_job`, `LogResults` | scheduler, job specs' `pre_launch`/`post_finish` |
| **local backend** `S/runtime/local.py` | handle per running job: process, kill flag, monitor task | `submit_many`, `_monitor_job`, `_kill_job`, `kill_many`, `close` | operating system processes |
| **legacy adapter** `S/runtime/legacy.py` | poll queue, pending launchers, poller task, handles | `submit_many`, `_poll_loop`, `kill_many`, `close` | a launcher object per job |
| **launchers** `S/launcher/` | process handle, status, timeouts | `launch`, `poll`, `kill`, `_post_finish` | Slurm, NC and LSF commands |
| **fake backend, registry** `S/runtime/{fake,registry}.py` | policy; a table of factories | `submit_many`; look-up | scheduler; runner |
| **observers** `S/scheduler/{status_printer,log_manager}.py` | counters per target and status; symlinks per status | `on_job_status_change` | scheduler |
| **instrumentation** `S/instrumentation/` | start and end times, resource samples, the sampling thread | `on_*` callbacks, `start`, `stop`, `collect` | scheduler, runner |
| **instrumentation reports** `S/instrumentation/report/` | none | a chart from the metrics of a run, each by its own sort, grouping and limits | runtime instrumentation, `dvsim-admin` |
| **runner** `S/scheduler/runner.py` | none | wires the above | CLI |
| **deploy objects** `S/job/{deploy,data}.py` | class-level run directories and reseed state | construction, `is_equivalent_job`, `post_finish` | flow, scheduler |
| **flows** `S/flow/`, `S/sim/flow.py` | configuration, run list, deploy list | expansion of tests, regressions, modes, seeds | deploy objects |
| **modes, tests, regressions** `S/modes.py`, `S/test.py`, `S/regression.py` | option lists | creation, merging | flow |
| **test plan** `S/testplan.py` | testpoints, covergroups, progress | import, `map_test_results`, tags | flow results |
| **results, buckets** `S/{sim_results,msg_bucket,msg_buckets}.py` | buckets of failures | add, sort | flow results |
| **job times** `S/job/time.py` | value and unit | `with_unit`, `normalize` | log parsing |
| **tool plug-ins** `S/sim/tool/` | none | the times that a log gives | backends, launchers |
| **CLI** `S/cli/run.py` | the arguments | `main`: from the arguments to the exit code | flows, scheduler |
| **utilities, reports, dashboards** | - | parsing, rendering, file system | everything |

Where the difficulty is:

* **Scheduler.**  One asyncio task, and callbacks from backends, signal
  handlers and observers at its awaits.  Counters that are adjusted one step at
  a time (`remaining_deps`, `passing_deps`, running counts, resource usage) have
  to agree with statuses through failures, refused submissions, cancellations,
  recursive propagation, completions reported twice and a shutdown at any
  moment.  Correct means: dependency order; each job queued once; nothing
  forgotten at the end; limits and priorities respected; nothing started after
  a shutdown; every run ends.
* **Backends.**  Their promise to the scheduler is that a job with a handle
  completes, once, whatever happens to its process.  It has to survive launch
  errors, busy hosts, timeouts racing with kills and exits, poller failures and
  exceptions in `post_finish`.
* **Observers and instrumentation** reconstruct state from status changes, and
  depend on which changes are possible; the memory is sampled by a thread of its
  own.  The charts are pure functions whose difficulty is in ties and limits.
* **Flow, modes, test plan, times, buckets** are sequential algorithms over data
  that is merged and extended in place; what can go wrong there is in the order
  of those updates, at boundaries (ties, empty lists, a unit too many), and in
  numbers that are computed in several places and have to agree.

`PROJECT.json` lists the hazards line by line with the properties that cover
them.

## 2. Modules

| module | what it is |
|---|---|
| `JobLifecycle` | abstract specification: the life of jobs as observers of status changes see it |
| `JobLifecycleProofs` | its theorems |
| `Scheduler` | `scheduler/core.py` and `scheduler/resources.py`, over any backend |
| `SchedulerProofs` | its theorems, among them that `Scheduler` implements `JobLifecycle` and keeps its side of `BackendContract` |
| `SchedulerLimitsProofs` | theorems about its limits, its accounting and its priorities |
| `BackendContract` | abstract specification: what scheduler and backend owe each other, job by job |
| `LegacyAdapter` | `runtime/legacy.py` with the launchers it polls; implements the contract |
| `LegacyAdapterProofs` | its theorems |
| `LocalBackend` | `runtime/local.py`; implements the contract |
| `LocalBackendProofs` | its theorems |
| `Observers` | status printer and log manager, driven by `JobLifecycle` |
| `ObserversProofs` | its theorems |
| `Instrumentation` | `instrumentation/`: timing, samples and meta data of a run, driven by `JobLifecycle` |
| `InstrumentationProofs` | theorems about its times and its samples |
| `Reports` | `instrumentation/report/`: the charts, as functions of the metrics |
| `SimFlow` | one invocation for simulations: `main()`, `flow/base.py`, `sim/flow.py`, and `build_graph()` |
| `SimFlowProofs` | theorems about its jobs, their results and its exit code |
| `Config` | `flow/hjson.py`, `flow/factory.py`: files and their attributes |
| `Modes` | `modes.py`, `test.py`, `regression.py`: creation and merging |
| `Deploy` | `job/deploy.py`: the job of each class, equivalent builds |
| `JobOutcome` | `job/time.py`, `sim/tool/`, `_finish_job()`, `_check_status()`: status and times from an exit code and a log |
| `Testplan` | `testplan.py`, `sim_results.py`: plans, results, totals, failure buckets |
| `MCScheduler`, `MCLegacyAdapter`, `MCLocalBackend`, `MCObservers`, `MCInstrumentation`, `MCSimFlow` | instances for TLC |

How they fit together.  Two abstract specifications cut the running system into
parts that are checked apart; the flow that produces the jobs and reads their
results is a composition of its own:

    Scheduler  --implements-->  JobLifecycle  <--drives--  Observers, Instrumentation
    Scheduler  --keeps its side of-->  BackendContract
    LegacyAdapter, LocalBackend  --implement-->  BackendContract
    Instrumentation  --extends-->  Reports
    SimFlow  --extends-->  Config, Deploy, Testplan -> JobOutcome, all of them -> Modes

`Scheduler` has no backend of its own: its environment actions (`Accept`,
`Refuse`, `SubmitJobCompletion`, `RepeatJobCompletion`) are the moves that the
contract gives a backend, and `KeepsContract` says so; it is checked and proved of the scheduler and of both
backends.  The two backends have no scheduler of their own: their `sched`
variable is the little that the scheduler does with a job of theirs.  `SimFlow`
runs its jobs one at a time, in any order that their dependencies allow: what the
results of a run depend on is the order of completions, and the interleavings of
the scheduler are those of `Scheduler`.  `JobsWellFormed` is where the two meet:
the jobs that the flow hands over satisfy what `Scheduler` assumes (`JobsFit` and
`GraphIsFit` prove it).

### JobLifecycle

`status[j]` moves SCHEDULED, QUEUED, RUNNING and to one of the terminal
statuses.  A job is queued only when all of its dependencies have ended and
their results allow it (`NeedsAll`, or one pass); it is cancelled only because
its dependencies rule it out or because of a shutdown; nothing is launched once
the scheduler has begun to act on a signal (`closing`).

### Scheduler

State: one variable for each attribute of `Scheduler` and each field of
`JobRecord` that the control flow reads (the comments in the module name them),
plus the "program counter" of the one scheduler task:

| `pc` | in the code | suspended? |
|---|---|---|
| `start` | `run()` up to `_main_loop` | no |
| `select` | `_get_jobs_to_launch()` | no |
| `submit` | `await` of the `submit_many` calls | yes |
| `mark` | handles are recorded, refused jobs requeued | no |
| `wait` | `asyncio.wait` for completions or shutdown | yes |
| `drain` | coalescing sleep in `_drain_completions()` | yes |
| `complete` | `_mark_job_completed` per drained event | no |
| `exit` | `_handle_exit_signal()` | no |
| `killing` | `await` of the `kill_many` calls | yes |
| `done` | the loop was left | - |

asyncio runs one callback at a time, so actions of backends and signal handlers
are enabled only at a suspended `pc`, and in between the model may take several
scheduler steps without letting anybody else in.  That keeps each loop of the
code a loop of the model (one dependent, one popped job, one completion per
step), so that the order in which dependents are visited is free, as it is in
the code (it follows the order of the job specs).

* **Ready heap.** `heap[j]` counts the entries for `j`; `IsTop` is the order of
  `(-priority, id)` entries through the injective `Rank`.  A multiset rather than
  a set, so that a job pushed twice is visible.
* **Recursion.** `_mark_job_completed` and `_update_completed_job_deps` call each
  other: `stack` is the chain of active calls, `untold[j]` the dependents the
  call for `j` has still to visit.  `KillDependent` pushes a call and the caller
  resumes when it is popped.
* **Submission.** `offer[j]` is the backend's view of `j`: asked, refused (no
  handle), live (handle, will complete), ended, repeated.  A completion may
  arrive before `submit_many` returns, and once more after the first one.
* **Completions** go through `queue`, which stands for `_event_queue` and the
  result of the pending `job_completion_task`: when the shutdown branch is taken
  the task with its drained events is kept by the code and looked at in the next
  wait, so they are still to be handled, in order.
* **Shutdown.** The signal handler sets `signal` and schedules the event
  (`call_soon_threadsafe`), so there is a moment at which completions are handled
  with the signal known and the event not yet seen; `HandleExitSignal` has
  precedence over completions in the same wait, as in the code.
* **Resources.** `usage` is allocated at selection, released at completion or
  requeue.  `LimitsAssumption` and `FitsAssumption` are what `validate_jobs`
  establishes with a static provider; resources without a limit are left out
  (they are never refused).
* **Left to assumptions.** `build_graph()` and `validate_acyclic()` run before the
  loop: `JobsAssumption` and `AcyclicAssumption` say what they establish
  (`DeployObjects` of `SimFlow` is what they do).
  Dependency lists are sets: a repeated ID counts twice in `remaining_deps` and
  is also twice in the list of dependents, so the two cancel out.

Not in the model: the text and the messages of statuses, the poll intervals,
`on_kill_signal` callbacks (see `Observers`), the second-signal path that
restores the default handler (the operating system then ends the process).

Operators named `...Early`, `...Again`, `...Losing` and the like, placed before
the definition they vary, are mutants: plausible bugs that each property is
shown to detect.  They are not part of the model.

### BackendContract

One variable, `offer[j]`, with the moves that the docstrings of
`RuntimeBackend` allow each side.  A batch moves as one step, so any number of
jobs may move at once.  A second completion is allowed by the contract, because
the scheduler guards against it (`core.py:315`); that it does not happen is
`CompletedOnce`, stated apart.  `HandlesComplete` is the contract's liveness.

### LegacyAdapter

`submit_many()`, `kill_many()` and one round of the poller contain no `await`
that suspends, so each runs to its end once begun: `turn` says which.  They
are nevertheless cut into one action per job, because a process may exit
between two polls and because an exception may leave any of them half-way, and
what is left behind then (`polling`, `found`, `pending`) is the point.

| in the code | in the model |
|---|---|
| `_poll_queue`, `handles_to_poll` | `pollQueue`, `polling` |
| `_pending_launchers` | `pending` |
| local `completions` | `found` |
| `_poller_task` | `poller` |
| `launcher.process` | `process` |
| `handles` returned | `answer` |

A round takes the first `MaxPolls` handles, appends those that still run, and
emits what it found.  The launcher's part is in the actions that call it:
`PollExited` (success, failure, `post_finish` of base.py), `PollTimesOut`
(nc.py), `PollFails` and `PollAborts` (slurm.py: a missing log file, a poll
without a process).  `OwnStatus` tells the two launchers apart where they
differ: NC's `poll()` returns `self.status` as `_post_finish` left it, Slurm's
the status it had found before.  Each other constant names the jobs to which
one kind of failure may happen, so that a run selects the failures it is about.

### LocalBackend

Each job has a process, a monitor task and up to two `_kill_job` calls at once,
one by its monitor after the timeout and one by `kill_many()`; `monitor[j]` and
`killer[c][j]` are the points of suspension at which they stand.  A process is
`reaped` when its pid is gone and `exited` only when asyncio has set its
`returncode`: in between a signal meets a `ProcessLookupError`, one of the
places where the order matters.  A child that ends after it was listed
(`Vanishing`) raises psutil's `NoSuchProcess`, which is not caught, so that the
killer ends with an exception before the parent is signalled (`raised`):
`AbandonedOnlyAfterSigkill` speaks of the other jobs only, and `kill_many()`, which
gathers its killers without asking for their exceptions, returns at once and leaves the
others to go on.  A process
that cannot be killed (`Stuck`) never ends.  Time is not measured: a timeout may
expire at any moment while its wait lasts.  The log file, the reader tasks and
their cancellation are left out: no status depends on them.

### Observers

The actions are those of `JobLifecycle` followed by the callbacks in the order
in which the runner registers them: `update_status()` of the printer, then the
log manager.  A printer either prints at each change (`everyEvent`) or at a
`Tick`; `lastRow[t]` is the row it printed last.  `Pause` is the kill-signal
callback, `Stop` the end of the run, normal or by an exception.  The links are a
set, and `LinkOutput` follows `mk_symlink()` and `rm_path()`: the latter follows
links, so that it leaves a link to a directory that does not exist (`odirs`).  All
backends make the output directory of a job before it runs, but the fake one never
does (`makesOutput`); directories of earlier runs may be there in any case.  What the
links then show is `LinksFollow`, which allows the dangling links that the code leaves
and no others; that there are such links is the finding of `observers_fake`.

### Instrumentation and Reports

`stage` is how far `run_scheduler()` is: the instrumentations are started, the
scheduler runs, they are stopped and collected, the metrics are written and the
charts made.  The actions of `JobLifecycle` are followed by the callbacks in the
order of registration (`Change`); a signal does not reach the instrumentation
(`Interrupt`), an exception ends the program without output (`Abort`).  The
sampling thread of `compute.py` has three steps, as it reads the memory, counts
the sample for the system and counts it for the running jobs under the lock, and
any change of status may come in between.  Of the samples the number and the peak
of the memory are kept: sums and CPU loads go the same way.

`Reports` has one operator for each chart.  A bar chart is the sequence of what it
shows, in its order; a lane chart has the index of each bar; a concurrency chart
has its events.  The limits of the profiles are constants and are scaled down.
`AdminReport` makes the charts of metrics found on disk, which may be those of any
earlier run, also one without meta data or without times of its own.  The category
of a group of seeds is that of its longest, as in `_get_top_tests_by_category()`.

### SimFlow and the modules below it

`pc` and the stage of each configuration say what `main()` does next:

| action | in the code |
|---|---|
| `ParseArgs` | `parse_args()`, `resolve_max_parallel()`, `set_backend_type()` |
| `MakeCfg` | `make_cfg()`: files, imports, overrides, children |
| `CreateObjects(i)` | `_create_objects()` of one configuration: modes, tests, regressions, testplan |
| `Choose` | `main()`: list, coverage analysis, or `--items` |
| `CreateLists(i)` | `_create_build_and_run_list()` |
| `CreateDeploy(i)`, `CreateCoverage` | `_create_deploy_objects()`, `_cov_unr()`, `_cov_analyze()` |
| `DeployObjects` | `deploy_objects()`, `build_graph()`, `validate_acyclic()` |
| `RunJob(j, log)` | a job runs on its backend and leaves a log, or is killed for its dependencies; its callbacks |
| `LoseJob(j, log)` | a job runs, and an exception keeps its end from the scheduler |
| `GenResults` | `gen_results()` of all configurations and the exit code, or the exception that ends it |

Python ends the program in many places; an operator whose function may do that
returns `Exit`, and `Then` stops what would follow.  Lists of options are
sequences of model values, of which two are kept, those a build uses and those a
run uses; of the scalars of a mode one of each kind that `merge_mode()` tells
apart.  `MergeSubModes` keeps the aliasing of the code: the loop runs over the list
that the first merge extends in place, not over the one that replaces it.  It is a
recursive function of the merges left, each value of which maps the modes, the
mode that is merged and the mode merging began with to the modes afterwards.
Sets of names (`set()` in regressions, patterns of `--items`) have an order of
iteration that is given; the properties do not depend on it.

In `Deploy` a job is the record that `get_job_spec()` makes, with a command that is
its directory and options.  `Equivalent` replaces the name in the command wherever
it occurs, as `str.replace` does.  Random seeds are negative numbers, all
different.  `CovAfter` is what callbacks do to databases: a build deletes the one
its runs write, a run that fails deletes what it wrote.

`JobOutcome` has times as exact fractions of numbered units, so that the
conversions down and up can be compared with the seconds they stand for.  A log is
a sequence of lines, each with the patterns it matches and the times it gives.
`FinishJob` (the backends) and `CheckStatus` (the older launchers) differ where the
code does: the order of failing line, missing pattern and exit code, and the
launcher's list of pass patterns, from which a line takes one.

The callback of a coverage report raises when there is a report from which the coverage
cannot be extracted (`log.report`, `Unreadable`).  What comes of it differs by backend,
and `Polled` and `Completes` say how:

| backend | in the code | outcome |
|---|---|---|
| NC | `_post_finish()` catches it and sets FAILED with a message, and `poll()` returns that (`nc.py:227-230`); the second call of the callback is for a failed job and does nothing | the job fails, exit code 1 |
| Slurm | `_post_finish()` likewise, but `poll()` returns the status found before (`slurm.py:122-126`); the second call, in `_emit_completion()`, raises in the poller | the scheduler is never told |
| local | only `_emit_completion()` calls it (`backend.py:99`), in the monitor of the job | the scheduler is never told |
| fake | the same, in `submit_many()`, where a report of an earlier invocation is there | the program ends, exit code 1 |

A launcher also raises for a tool without a plugin, as it asks the plugin for times
before the `try` (`base.py:340`, `PollRaises`).  Where the scheduler is never told it
waits for ever: the job is in `lost`, and the program has no exit code unless a signal
comes.  The other jobs still end in the model.  In the code the poller of a launcher has
ended for them too, which is a behaviour of the model as well, in which nothing more
happens.  `GenResults` raises for such a tool, before anything is written
(`flow.py:828`): the exit code is 1 although its jobs passed.  LSF and EDACloud are taken
as Slurm.

## 3. Runs

| run | instance | what it shows |
|---|---|---|
| `observers` | diamond of a build, two runs that share a target and a merge that needs one of them; one run has an output directory of before | the printer's counts never drift from the statuses they are adjusted by; the last row of a target is true whatever the interval, paused or not; each job is linked under its status, and once where the backend makes output directories |
| `observers_fake` | the same | **violated**: under the fake backend a job is linked under two statuses |
| `scheduler_flow` | `build1` and `build2`, `run` needs both, `merge` one of `build2` and `run`; one backend, two licenses; pass or fail; a signal at any time; every completion possibly repeated | dependency counters, queue and shutdown are right, nothing is forgotten, nothing is readied after a signal, the inductive invariant holds, the statuses implement `JobLifecycle`, and every run ends |
| `scheduler_limits` | `a`, `b`, `c` and `d`, which depends on `a`; two slots; two backends of which one takes one job at a time; two resources | limits hold, load is accounted, priorities are respected among jobs that fit, limits never keep all ready jobs waiting, and the scheduler keeps its side of the contract |
| `legacy_nc` | three jobs, two polls per round; one on a busy host, one failing its clean-up, one with a timeout; `OwnStatus`; no shutdown | every handle is tracked through cut and appended rounds, every handle completes, and a failed clean-up is reported as a failure |
| `legacy_kill` | three jobs, one poll per round, `kill_many()` at any moment | no process is left that the poller will not come to, none is polled outside of its window, none completes twice, also when `kill_many()` is left half-way by an exception |
| `legacy_errors` | failures of launch, poll, clean-up and kill together | what is answered and reported stays within the contract whatever fails |
| `legacy_race` | two jobs and a shutdown | **violated**: a killed job does not complete |
| `local_flow` | three jobs: `a` with a timeout, a launch error and a process that may never end; `b` on a busy host, with children that vanish and a failing clean-up; `c` interactive, with an exception in its launch and a failing clean-up; `kill_many()` at any moment | killers, monitor and process in any order: a result is never reported for a process that was signalled, a process is let go only after SIGTERM and SIGKILL, every handle completes, `kill_many()` returns, and what is answered and reported stays within the contract whatever fails |
| `instrumentation` | a build and two seeds; times up to 4, two samples, memory of 1 or 2; every set of instrumentations; or metrics of three seeds of one test and one of another, of another tool and block, with every combination of starts and ends up to 4 | times and samples are those of the jobs that ran, in the order of their dependencies and within the run; each chart agrees with the metrics and with the other charts |
| `sim_flow` | eight families of invocations (below) | from the arguments to the exit code: options, cycles, run lists, jobs, coverage, totals, success, times |
| `sim_equivalent` | two build modes, each with an option that is its name | **violated**: the test of one runs on the build of the other |

Bounds.  The graph of `scheduler_flow` is the smallest with the three things the
propagation code distinguishes: several dependents of one job, several
dependencies of one job with a choice of "all" or "one", and a chain along which
a cancellation recurses.  Completions are reported twice at most (the second
takes the early return already; a third would find the same state), and there is
one signal because the handler changes state for the first only.  In
`scheduler_limits` the needs are chosen so that the job of highest priority is
blocked most often, and each of the four reasons for not launching occurs.
Priorities are a permutation, as `(-priority, id)` is.  Three jobs in the legacy
runs give a round that is cut, a handle that waits and one that is appended;
three in `local_flow` have every failure of this backend happen beside every
other; more would add nothing, because its jobs share but a batch and the calls
of `kill_many()`.  Several runs set
`CHECK_DEADLOCK FALSE`: there an exception ends the poller or a monitor, the
clock or the samples reach their bound, or an invocation is over, and the system
really stops.

In `instrumentation`, a build and two runs have the two relations of jobs that
matter: one after another, and at once.  Time goes on only while it is taken and
something runs (nothing else reads it), up to `LastTime`; with four jobs and
times up to 4 there are ties of starts, of ends, and of starts with ends, jobs
within jobs, gaps, and as many jobs at once as there are.  A run takes time:
between the start and the end of a job the clock has moved on (nanoseconds in the
code).  Metrics of earlier runs are for the charts only, so that `Setup` starts
without any; the first three of them, seeds of one test, are ordered by time,
because their names do not matter.  Bars, pieces and the threshold for images are
limited to 2, 2 and 1 instead of 250 (75 by tool, 50 by block), 6 and 1000, so that
every limit is exceeded.

The families of `sim_flow`, each combining a few inputs around one part of the flow:

| family | inputs |
|---|---|
| `modes` | every graph of sub-modes of three build modes, with or without one enabled for all; two run modes and a test declared twice |
| `lists` | three tests and two regressions that overlap or not, asked for by pattern and by name, with reseeds, multipliers of a half, and seeds of the command line, fixed or not |
| `builds` | two builds, equivalent or not, three primary modes, coverage, `--run-only`, the GUI, old databases and seven earlier merges |
| `plans` | testpoints that share tests, have none, or are not mapped; wildcards, tags, plans imported once, twice and by themselves |
| `configs` | imports in both orders, twice and in a cycle; equal, default, different and mistyped values; overrides; two children of one name, with variants, of one flow or two |
| `args` | the other arguments one by one; processors and environment |
| `logs` | nine logs by tool, patterns and backend: times in several units, patterns on one line or two, failures, time-outs, a log that cannot be read; fake, local and dry runs |
| `reports` | a coverage report that is there or not and can be read or not, on the fake, local, NC and Slurm backends, with a tool that has a plugin and one that has none, dry or not |

An invocation is sequential but for the order of its jobs and their logs, which is
free.

Disagreements between the code and its documentation, each a run:

* `legacy_race`: `kill_many()` gets a job that the poller has reported already
  and the scheduler not yet handled; its `kill()` raises and the completions
  found so far are lost (`legacy.py:207-214`).
* `sim_equivalent`: `is_equivalent_job()` replaces one name by the other in the
  whole command (`deploy.py:363`), options included, so that builds which differ
  by the names in their options are merged, although it "Determines if 'item' and
  'self' would behave exactly the same way when deployed" (`deploy.py:353`).

* `observers_fake`: the link of a job under its previous status is removed through
  `rm_path()`, which asks whether the path exists and so follows the link
  (`fs.py:38`).  The fake backend makes no output directory (`fake.py:42-70`): the
  link under RUNNING leads nowhere and stays, next to the one under the final status,
  although the comment says "Delete the previous symlink if it exists"
  (`log_manager.py:63`).

Others, seen by changing the constants of these runs: with a job in
`LaunchErrors` of `legacy_kill`, `PolledInWindow` fails, because its handle is put
in the poll queue although the job was reported KILLED (`legacy.py:173-190`), and
the poll asserts that there is a process; without `NotForeverBusy`,
`RunsToCompletion` fails, because the loop continues at once while nothing runs and
jobs are ready (`core.py:459-464`) and does not look at the shutdown event; with a
`Stuck` job without a timeout, `CompletesHandles` of `LocalBackend` fails,
because the monitor waits without end for a process that the killer has given up
(`local.py:349`); with `OwnStatus = FALSE`
(Slurm) and a job in `Brittle`, `CleanupFailuresReported` fails, because
`poll()` returns the status found before `_post_finish()` changed it, so that
`_emit_completion()` cleans up again and its exception ends the poller; with a job
in `Vanishing` a killer of `LocalBackend` ends before the parent is signalled, which
is why `AbandonedOnlyAfterSigkill` leaves these jobs out; and its
`CompletesHandles` excepts a job in `Brittle` whose monitor has ended, by the
exception of `post_finish()`, and a program that an exception of a launch has
ended.  Found by reading only: the final row of a
target is not "printed immediately" with a print interval
(`status_printer.py:32-33`), the time of its end is recorded
(`status_printer.py:124-127`) and the row printed at the next tick, as `Observers`
has it.

Found by a proof: `_match_items()` collects the hits pattern by pattern
(`sim/flow.py:368-377`), so that a test that two patterns of `--items` match is
twice in the run list.  Its reseed is then multiplied twice, it runs twice as
often, two runs of each index write to one directory, and with a fixed seed they
share a name, of which the scheduler keeps one, although the qualified name
"disambiguates the instance name with other instances of the same class"
(`deploy.py:256-258`).  With such an input `RunsAsRequested` and `JobsWellFormed`
fail; the inputs of `sim_flow` have patterns that do not overlap, and the theorems
say so (`ItemsApart`).  A build mode called like a coverage job would likewise have
its id (`BuildModesFree`).

Found by reading while translating, and kept in the modules as the code has it:

* `_find_patterns()` of `launcher/base.py:274-292` returns the first pattern of a
  line where its documentation says all of them, so that a launcher misses a pass
  pattern on a line with two.  A pattern that is given twice wants two lines there
  (`launcher/base.py:374-377`), and one on the backends (`backend.py:322`).
  `SuccessMeansAllPassed` has both exceptions (`OnOwnLines`); the second came to
  light in its proof.
* A test is never refused for its build mode: `is_sim_mode is True` (`test.py:100`)
  is false for the integers of Hjson.
* `resolve_max_parallel()` takes the larger of 16 and the number of processors less
  one (`cli/run.py:97-156`), so that 16 is the least, not the most.
* `launcher/base.py` never sets `job_runtime_secs`: a launcher's job whose log
  gives no runtime has one of 0 (`Outcome`).
* The cyclic-dependency check of sub-modes (`modes.py:169`) sees only cycles
  through the mode it began with; others end in Python's recursion limit, which
  ends the program too, so that `CyclesNeverAccepted` holds.
* LSF cannot be constructed from a job specification (`lsf.py:176`).
* The callback of a coverage report raises an exception that "must be caught by the
  caller to mark the job as a failure" (`deploy.py:983-984`), which only NC does; the
  local backend and the Slurm launcher end in a scheduler that waits for ever (table
  above).  `SuccessMeansAllPassed` says that it is never taken for success.
* Of a tool without plugin the jobs run and pass on the local backend, and the program
  then ends in `NotImplementedError` without a report (`flow.py:828`).
* The rule that is to end the table of Z01X is compared as a set of characters with a
  line that still has its newline (`z01x.py:34`), so that it never ends the table
  (`Summary`).

## 4. Fairness

* Scheduler: `SchedulerStep` and `SetShutdownEvent` are weakly fair, because the
  event loop runs every ready task and every scheduled callback.  `Answer(j)` and
  `Complete(j)` are weakly fair for each job: `submit_many` returns, and a job
  with a handle completes.  These are the duties of a backend
  (`runtime/backend.py:114-139`), of which the backend runs check the second as
  `CompletesHandles`.  `Accept(j)` is strongly fair (`NotForeverBusy`): a backend is
  busy for a time and then takes the job.  A signal is never required.
* `LegacyAdapter`: whoever has the turn goes on (`Going`); the poller gets a turn
  again and again among the other tasks (strong fairness of `StartRound`, which
  other turns disable); a process exits in the end; the scheduler handles what is
  reported.  No submission, exception or shutdown is required.
* `LocalBackend`: every task that can go on does, every wait with a timeout ends,
  every process ends that is not `Stuck`, and asyncio notices it.
* `Instrumentation` and `SimFlow` have no liveness of their own and no fairness.

## 5. Proofs

The theorems hold for every value of the constants that satisfies the named
assumptions: of `Scheduler` (`JobsAssumption`, `AcyclicAssumption`,
`RankAssumption`, `LimitsAssumption`, `FitsAssumption`, `OutcomesAssumption`), of
`JobLifecycle` (`GraphAssumption`), of `Observers` (`TargetsAssumption`: finitely
many jobs, each with a target, no target empty), of `LocalBackend`
(`LocalAssumption`), of `LegacyAdapter` (`AdapterAssumption`), of
`Instrumentation` (`InstrumentationAssumption`: among others, that `None` is not a
number), of `JobOutcome` (`NoneAssumption`: it is no message and no exit code
either), and of `SimFlow` with the modules below it:

* `LogsAssumption` - a log is a sequence of lines;
* `ArgsAssumption` - the numbers and lists of the command line are numbers and lists,
  as argparse makes them, the divisor of a multiplier and a `--max-parallel`
  positive ones;
* `FilesAssumption` - finitely many files, and where the program iterates over a
  list of dicts (modes, tests, regressions) or of patterns, the file has one;
  otherwise Python raises in a place that is not modelled.  Any attribute may be
  missing, and of the others anything may be said;
* `NamesAssumption` - the order in which a set of names is iterated is an order of
  strings, each once;
* `StaleAssumption` - what earlier invocations left in a coverage database is marked as
  old, so that it can be told from the coverage of a run of this one;
* `NoneIsNoList`, `StringsAssumption` - `None` is not a list; the names of the mode
  that there always is are strings.

| module: theorem | says |
|---|---|
| `SchedulerProofs`: `TypeCorrect` | `Spec => []TypeOK` |
| `InvariantHolds` | `Spec => []IInv` |
| `CountersAreRight` | dependency counters agree with statuses |
| `QueueIsRight` | a queued job is held exactly once |
| `ShutdownIsComplete` | after a shutdown nothing is left to launch, what runs was asked to stop |
| `NoneForgotten` | the loop is left only when every job has ended |
| `SignalStopsReadying` | no job becomes ready after a signal |
| `SchedulerImplementsLifecycle` | `Spec => Lifecycle!Spec` |
| `SchedulerRespectsOrder` | `Spec => []Facts!DependenciesRespected`, from the two modules together |
| `SchedulerKeepsContract` | the scheduler submits a job only while no backend has it |
| `SchedulerLimitsProofs`: `LoadIsAccounted` | running set, counts per backend and usage are the sums they should be |
| `LimitsAreRespected` | no limit on jobs, backends or resources is exceeded |
| `PrioritiesAreRespected` | a job is passed over only if it does not fit |
| `SomethingFits` | limits never keep all ready jobs waiting |
| `JobLifecycleProofs`: `FinalResults` | a result never changes, in the abstract specification |
| `ObserversProofs`: `ObsTypeCorrect`, `CountsCorrect`, `LastRowsCorrect` | the observers' invariants |
| `LinksCorrect` | each job is linked under its status; another link is dangling, and there is none if the backend makes output directories |
| `ObserversOnlyWatch` | `ObsSpec => Spec` of `JobLifecycle` |
| `LocalBackendProofs`: `InvariantHolds` | launched, monitored, killed and reported in order |
| `ResultsAreUntouched` | no result is that of a process that was signalled |
| `SigkillBeforeAbandoning` | a process is let go only after SIGTERM and SIGKILL |
| `LocalBackendKeepsContract`, `LocalBackendReportsOnce` | `Spec => Contract!Spec`, and no job completes twice |
| `LegacyAdapterProofs`: `InvariantHolds` | types, and one place at most for each handle |
| `PollsInWindow` | only launchers with a process are polled, if no launch fails |
| `ProcessesAreWatched` | no process is left to nobody, if no launch and no poll fails |
| `HandlesAreTracked` | each handle has one place until its completion, without failing launches, shutdown and stale statuses |
| `CompletesJobsOnce` | no job completes twice, unless polls fail and a shutdown comes |
| `AdapterKeepsContract` | `Spec => Contract!Spec`, whatever fails |
| `InstrumentationProofs`: `InvariantHolds` | times and samples are in step with the statuses |
| `TimesAreTrue`, `SamplesAreTrue` | the metrics of a run are true |
| `SimFlowProofs`: `GraphIsFit`, `RunNeverStuck` | the scheduler gets a graph as it assumes it, in which something can always run, unless the end of a job is lost |
| `SuccessIsTrue` | the exit code tells what became of the jobs, their callbacks and their tools |
| `JobsAreTheirs` | each job bears the name and variant of its configuration, and has a list of pass patterns |
| `RequestsMet` | the runs are those asked for, in rounds, with indices from 0 and different seeds |
| `JobsFit` | the jobs handed over are complete, in order, in directories of their own, each run after the build of its mode |
| `CoverageIsRight` | merged coverage is that of the runs that passed, and of earlier invocations only with `--run-only` |
| `TimeNormalized` | a normalised time is the same time, in the largest unit that fits |

**Scheduler.**  `DependenciesCounted` is not inductive: whether a decrement is
right depends on which `_update_completed_job_deps` calls are active, and whether
a completion is handled once depends on who may report it.  `IInv` adds what the
code relies on without saying so:

* `CallsActive` - a job with dependents still to tell has ended and has an
  active call; no call is active at an `await`.
* `WaitsForSomething` - a job that left SCHEDULED other than by being killed
  waits for nothing, and one that is SCHEDULED after `run()` started does.
* `RunningMatches` - `_running` is the set of jobs with status RUNNING.
* `PassesConfined` - `blocked` and `launching` are empty outside a pass.
* `OffersFollowLaunches` - only a job the scheduler submitted has a handle or
  completions; this is what makes completions of never-launched jobs impossible.
* `ShutdownOrdered` - signal, event, `_shutdown_started` come in this order and
  what each implies about heap and kill flags.
* `LoopBounded` - what holds at the ends of the loop.

Each step `IInv /\ [Next]_vars => P'` is a lemma per conjunct `P`, one case per
action.  `NoneForgotten` needs the graph: at `done` a SCHEDULED job would wait
for a dependency that has not ended, which would again be SCHEDULED, so the set
of SCHEDULED jobs would be closed under "has a dependency in it", against
`AcyclicAssumption`.  The refinement maps each action to the abstract one it
performs or to a stutter; the interesting case is the decision on a dependent,
where `DependenciesCounted` turns counters into the statuses that
`JobLifecycle!Allowed` speaks of.

**Its limits.**  `LInv` adds to `IInv` that counts per backend and usage are those
of the jobs that run or are being launched, and that a job passed over in a
selection still does not fit (`BlockedStayBlocked`: load only grows during one).
A lemma reduces every step of the scheduler to five things it may do to the load,
of one job at a time: nothing, `Selected`, `MarkedRunning`, `Refused`, `Ended`.  Usage
is a sum over a set, which the community modules define by recursion over a
chosen element.  That it does not depend on the choice, and that adding a job
adds its need, is induction over data; it is done by hand at the head of
`SchedulerLimitsProofs`, where a smallest set among those for which a fact fails stands for the induction
(`SmallestSet`), and is tied to `MapThenSumSet` in `LoadIsSum`.

**Observers.**  `CountMoves` says what one change of status does to the
cardinality of any set of jobs chosen by status, and `EndedCounted` that the
finished jobs of a target are as many as its jobs only if all have ended.
`LastRowsTrue` needs the latter (`DoneTargetsEnded`): that the row of a target
which is not printed any more stays true holds only because none of its jobs can
change.  `LinksInv` adds to `LinksFollow` that the manager's own record agrees
with the statuses, and that under a backend that makes output directories a job that
runs has one, without which its link could not be removed.  `LinksCorrect` is for all
backends: what rests on the directories is only its second half, that no other link is
left.

**Local backend.**  Jobs share nothing but a batch and the calls of
`kill_many()`, so the invariant is one of each job: `LaunchedOnce` (a place in the
batch, a handle, or neither), `MonitoredOnce` (a monitor that has not ended has
reported nothing; one with an exit code killed nothing), `KilledInOrder` (a killer
waits only after the signal it waits for) and `EndedAlone`, of which the last is
what `ResultsUntouched` says, made inductive by the killers that have begun but
not yet signalled.

**Legacy adapter.**  What has to be counted is how often a job is in the poll
queue, in the round that is polled and in what was found; `Times` of a
concatenation, a tail and a cut sequence are lemmas.  The effect of every action
on one job is one of seven (`JobStep`: launched, refused by the host, found,
killed, reported, lost by an exception, or disturbed from outside), and each theorem
is then an argument about these.  The theorems about handles and processes assume
away faults, and exactly those for which TLC shows that the property fails
(section 3): a launch that fails leaves a handle without a process in the queue,
the exception of a poll loses a round, a kill races with a report, and Slurm's
`poll()` returns a status of before the clean-up.  `AdapterKeepsContract`
assumes nothing.

**Instrumentation.**  The invariant follows the statuses: `StageInv` (how far
the run is, and that the report is made when everything has ended), `TimesInv`
(which times a job has, for each status; the start after the ends of what it
depends on) and `SamplesInv`.  For the last, one sample may have been counted for the
system and not yet for the jobs (`Pending`), and a job that began before another
and still runs has at least the samples of the other (`Outlasts`), which is what
makes the comparison of finished jobs inductive.  That at most one of a job and
its dependency gets a sample is `DependenciesRespected` of `JobLifecycle`.  The proofs led to
changes of the module: the first form of `SamplesTrue` was undefined for a job
with one dependency sampled and another not, and overlapping guards of a `CASE`
left to the choice of TLC what Python's order of tests decides; these are
`IF`s now, as in `JobOutcome`, `Reports` and `SimFlow`.

**Simulation flow.**  The theorems are about every input that satisfies the
assumptions above, whatever the files say.  Several invariants rest on each other.

*What is read* (`CfgsKnown`, `JobsAreTheirs`).  Files have no types, so that the proof
gives them some: `AttrsRead` says what an attribute may be after a file was read,
`ConfigRead` after its imports and overrides were merged, `AtStageKnown` what a
configuration has at each stage.  Each function of `Config`, `Modes` and `Deploy` has a
lemma that it keeps these types or ends the program.  For the merging of sub-modes
this is an induction over the merges left, for lists over their length; tests and
modes keep their names and number, and names stay different.  At the end of it each
job bears name and variant of its configuration (`OwnJobs`).

*What is asked for* (`RequestsKnown`, `RequestsMet`).  `Requested` says of the lists what
`RunsAsRequested` says of the runs: a test is in the run list if a pattern or a
regression that is not skipped has it, once, with a reseed of at least 1.  `TaggedWell`
follows the list into tagged runs, `Places` through the sorting by index (a run keeps
its rank among those of its index), `RunsMade` into jobs.  Positions in selected and
concatenated lists are functions (`Picks`, `Blocks`), because the provers cannot
compute with the folds that define these lists.  The proof showed that a test must not
be matched by two patterns (`ItemsApart`; section 3).

*What is handed over* (`JobsMade`, `JobsFit`).  The jobs of a configuration are of three
shapes (`BuildShape`, `RunShape`, `CoverShape`), which tell their ids and directories
apart, and each list of them `Fits` what comes before it: dependencies are earlier, no
id or directory is twice.  `JobsGood` says so of a whole configuration.  Concatenating
lists that share nothing keeps this (`FitsJoined`, `FlattenFits`), and of such a list
`build_graph()` drops nothing (`KeptAll`).  That different configurations share neither
full name nor directory is not checked by the code; it is the hypothesis `ConfigsApart`,
as `ItemsApart` and `BuildModesFree` are hypotheses.  All three hold of every input of
`sim_flow`.

*What is covered* (`CoverageInv`, `CoverageIsRight`). `DatabasesFit` says of the jobs
how they use the databases: one build clears each, before the runs that write to it; all
these runs are of one configuration, and its merge waits for all of them. It is derived
from `CoverGood` of each configuration and `ConfigsApart`, as `JobsFit` is. While the
jobs run, `DatabasesHeld` says that a database lies between the runs that passed and
write to it, and these with what is old, which is gone once the build has ended; and
that a merge that ran keeps what it merged, because nothing writes to its databases
after it. These are bounds and not a value (`Between`), because with `--run-only` there
may or may not be coverage of earlier invocations. Here a fourth hypothesis is needed,
`NamesOrdered`: the model iterates over a set of names by the list `NameOrder`, which
drops a name that is not in it, as no set in Python does. It holds of every input of
`sim_flow` as well.

*What is run.*  `KeptAreFirst` says that `build_graph()` keeps one job of each id
and loses no id, and `SomeWaitForNone` what its peeling establishes: among any
jobs there is one that waits for none of them.  With these `GraphIsFit` derives,
from the guards of `DeployObjects`, what `Scheduler` has as `AcyclicAssumption`
and assumes of the dependencies in `JobsAssumption`.

*What is reported.*  `FinishJobPasses` and `CheckStatusPasses` say when a backend
and an older launcher let a job pass; the second rests on `AllFound` and
`FoundOnce`, about a list of patterns from which each line takes one.
`FlowInv` says that there are no jobs before the graph is built, one of each id
after that, each of a configuration that is reported, and that what is known of a
job that ended is what its log makes of it, or that it was killed for its
dependencies.  At the end every job that did not pass has a message, so that the
buckets of its configuration hold it (`FailureReported`): without the message, or
or for a job of no configuration, the exit code would be 0.  A job that passes has a
report that can be read if it has any (`OutcomePasses`): of the others NC makes
failures (`PolledPasses`), and the end of the rest is lost (`FlowLoses`), so that there
are no results.  The other way round, jobs that all passed have no message, and what is
left that can end the program with 1 is a tool without plugin.  A program that waits
for a lost job has no exit code and is in neither half.

*Folds.*  The loops are folds of the community modules, which are defined by a
recursion over sets of numbers.  `FoldExists` shows once that such a recursion
defines a function, and `Climb` stands for the induction along the loop; both
come from the least of a set of numbers (`Least`).

Each invariant above was model-checked on small instances before it was proved.

Model-checked only:

* liveness (`RunsToCompletion`; `CompletesHandles`, `CleanupFailuresReported` and
  `KillManyReturns` of the backends), which is out of the prover's reach;
* `ChartsFaithful`: the charts are sorts of sequences, and the prover knows nothing of
  `SortSeq` and `SelectSeq`;
* `OptionsComplete` and `CyclesNeverAccepted` of `SimFlow`: what nested folds over lists that
  are extended while they are walked collect from all of a graph of modes is induction
  over that data.  That a merge keeps types, names and numbers is proved, as it is
  needed for `JobsAreTheirs`;
* `EveryRunCounted` and `TimesShown`: sums and maxima over tables that are grouped and sorted
  by name.  `TimeNormalized` is the part of `TimesShown` that is about the conversion.

## 6. What is not modelled

`PROJECT.json` lists each component with its status.  Left out, and why:

* Rendering of reports, dashboards, templates and testplans (`report/`,
  `sim/report.py`, `sim/dashboard.py`, `templates/`, the HTML of `testplan.py`,
  colours and layout of the charts): output of what the modules compute.
* Text: regular expressions over logs (`linting/parser.py`, the patterns of
  `sim/tool/`), wildcard substitution in strings, Hjson, JSON and git helpers.  A
  log line is what is found in it, a file is its attributes.
* The one-shot flows (lint, CDC, RDC, formal, synthesis): one build for each mode,
  then tables from files that tools wrote.
* The parsing of arguments, `--purge`, the preparation of the scratch area.
* `validate_jobs()` (`resources.py:165-203`) raises before the run starts; what it
  establishes is `FitsAssumption`, and the effect of raising is `Abort` of
  `Instrumentation`.
* A dynamic resource provider: none is in the repository.  With the static one
  there is no suspension between the check and the allocation (`resources.py:95`),
  so that they are one step.
* The waiting and running timeouts of NC are one event, `PollTimesOut`.
* The LSF launcher, and the EDACloud launcher, which is not in the repository.

## 7. Plan

Done: all modules of section 2, their runs, and the proofs of section 5.  To come:

1. More proofs about `SimFlow`: the totals of the reports.
2. The wildcards of `utils/wildcards.py` over small alphabets, with the case of a
   value that contains its own wildcard.
3. The two timeouts of NC apart.
