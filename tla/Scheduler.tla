------------------------------ MODULE Scheduler ------------------------------
(***************************************************************************)
(* The scheduler of scheduler/core.py with the resource accounting of      *)
(* scheduler/resources.py, over a backend that does what RuntimeBackend    *)
(* (runtime/backend.py) asks of one.                                       *)
(*                                                                         *)
(* The scheduler is one asyncio task.  `pc` names where it is in the main  *)
(* loop; backends, signal handlers and their callbacks run only where it   *)
(* is suspended, which is where pc is one of Suspended.  Between two       *)
(* suspensions no other code runs, however many steps the model takes:     *)
(*                                                                         *)
(*   start    run(): the jobs without dependencies are made ready          *)
(*   select   _get_jobs_to_launch(): jobs are popped off the heap          *)
(*   submit   awaiting submit_many() of every backend           (suspended)*)
(*   mark     jobs with a handle become running, others are requeued       *)
(*   wait     asyncio.wait() for a completion or a shutdown     (suspended)*)
(*   drain    the coalescing sleep of _drain_completions()      (suspended)*)
(*   complete _mark_job_completed() on each drained completion             *)
(*   exit     _handle_exit_signal(): queued jobs are killed                *)
(*   killing  awaiting the kill_many() tasks                    (suspended)*)
(*   done     the loop was left, run() builds its results                  *)
(***************************************************************************)
EXTENDS Integers, Sequences, FiniteSets, FiniteSetsExt

CONSTANTS
  Jobs,           \* the job IDs
  Deps,           \* Deps[j]: the IDs in j.spec.dependencies
  NeedsAll,       \* NeedsAll[j]: j.spec.needs_all_dependencies_passing
  Rank,           \* Rank[j]: the place of (-priority, ID) among the jobs' keys
  Backends,       \* the backend names
  BackendOf,      \* BackendOf[j]: the backend_key of j
  BackendMax,     \* BackendMax[b]: its max_parallelism, 0 for no limit
  MaxParallelism, \* the scheduler's max_parallelism, 0 for None
  Resources,      \* the resources with a limit
  Limit,          \* Limit[r]: the capacity of a static provider
  Needs,          \* Needs[j][r]: the amount of r in j.spec.resources, or 0
  Outcomes        \* the statuses with which a backend completes a job

ASSUME JobsAssumption ==
  /\ IsFiniteSet(Jobs)
  /\ Deps \in [Jobs -> SUBSET Jobs]
  /\ NeedsAll \in [Jobs -> BOOLEAN]

(* What validate_acyclic() establishes before anything runs.               *)
ASSUME AcyclicAssumption ==
  \A S \in SUBSET Jobs : S # {} => \E j \in S : Deps[j] \cap S = {}

(* Heap entries are pairs of a negated priority and a job ID; the IDs      *)
(* differ, so that the entries are totally ordered.                        *)
ASSUME RankAssumption ==
  /\ Rank \in [Jobs -> Nat]
  /\ \A i, j \in Jobs : Rank[i] = Rank[j] => i = j

ASSUME LimitsAssumption ==
  /\ BackendOf \in [Jobs -> Backends]
  /\ BackendMax \in [Backends -> Nat]
  /\ MaxParallelism \in Nat
  /\ Limit \in [Resources -> Nat]
  /\ Needs \in [Jobs -> [Resources -> Nat]]

ASSUME OutcomesAssumption == Outcomes \subseteq {"PASSED", "FAILED", "KILLED"}

(* What validate_jobs() establishes for a static provider.                 *)
ASSUME FitsAssumption ==
  \A j \in Jobs, r \in Resources : Needs[j][r] <= Limit[r]

VARIABLES
  status,          \* JobRecord.status
  remaining,       \* JobRecord.remaining_deps
  passing,         \* JobRecord.passing_deps
  killRequested,   \* the jobs whose JobRecord.kill_requested is set
  heap,            \* heap[j]: how many entries of _ready_heap are for j
  running,         \* _running
  perBackend,      \* _running_per_backend
  usage,           \* ResourceManager._usage
  signal,          \* _shutdown_signal is not None
  shutdownEvent,   \* _shutdown_event: "unset", "scheduled" to be set, "set"
  shutdownStarted, \* _shutdown_started
  queue,           \* _event_queue, and the result of job_completion_task
  pc,              \* where the scheduler task is
  launching,       \* jobs of to_launch that are not yet running or requeued
  blocked,         \* jobs popped in this pass that cannot be launched
  batch,           \* completions drained and not yet handled
  stack,           \* the jobs whose _update_completed_job_deps() is active
  untold,          \* untold[j]: the dependents it has still to update
  offer            \* offer[j]: what the backend has made of j

heapVars   == <<heap, blocked, launching>>
loadVars   == <<running, perBackend, usage>>
depVars    == <<remaining, passing>>
callVars   == <<stack, untold>>
signalVars == <<signal, shutdownEvent, shutdownStarted>>
vars == <<status, depVars, killRequested, heapVars, loadVars, signalVars,
          queue, pc, batch, callVars, offer>>

Terminal == {"PASSED", "FAILED", "KILLED"}
Status == {"SCHEDULED", "QUEUED", "RUNNING"} \cup Terminal
Suspended == {"submit", "wait", "drain", "killing"}
Places == Suspended \cup {"start", "select", "mark", "complete", "exit", "done"}

(* "asked": submitted and not yet answered; "refused": no handle returned; *)
(* "live": it has a handle and will complete; "ended": it has completed;   *)
(* "repeated": its completion was reported a second time.                  *)
Offer == {"none", "asked", "refused", "live", "ended", "repeated"}
Completion == [job : Jobs, status : Terminal]

Dependents(j) == {d \in Jobs : j \in Deps[d]}
HeapIsEmpty == \A j \in Jobs : heap[j] = 0
(* A mutant of IsTop: heappop() of a list that is not kept in heap order.  *)
IsInHeap(j) == heap[j] > 0

IsTop(j) == heap[j] > 0 /\ \A k \in Jobs : heap[k] > 0 => Rank[j] <= Rank[k]

-----------------------------------------------------------------------------
Init ==
  /\ status = [j \in Jobs |-> "SCHEDULED"]
  /\ remaining = [j \in Jobs |-> Cardinality(Deps[j])]
  /\ passing = [j \in Jobs |-> 0]
  /\ killRequested = {}
  /\ heap = [j \in Jobs |-> 0]
  /\ running = {}
  /\ perBackend = [b \in Backends |-> 0]
  /\ usage = [r \in Resources |-> 0]
  /\ signal = FALSE
  /\ shutdownEvent = "unset"
  /\ shutdownStarted = FALSE
  /\ queue = <<>>
  /\ pc = "start"
  /\ launching = {}
  /\ blocked = {}
  /\ batch = <<>>
  /\ stack = <<>>
  /\ untold = [j \in Jobs |-> {}]
  /\ offer = [j \in Jobs |-> "none"]

-----------------------------------------------------------------------------
(* Bookkeeping shared by the actions below.                                *)

Push(j) == heap' = [heap EXCEPT ![j] = @ + 1]
Pop(j)  == heap' = [heap EXCEPT ![j] = @ - 1]

TryAllocate(j) == usage' = [r \in Resources |-> usage[r] + Needs[j][r]]
Release(j)     == usage' = [r \in Resources |-> usage[r] - Needs[j][r]]

(* _mark_job_ready(j), called only when j is SCHEDULED.                    *)
MarkReady(j) ==
  /\ status[j] = "SCHEDULED"
  /\ status' = [status EXCEPT ![j] = "QUEUED"]
  /\ Push(j)

(* Mutants of MarkCompleted: the dependents of a job that never ran are not *)
(* updated; the resources of a job are not released.                       *)
MarkCompletedQuietly(j, s, left) ==
  /\ status' = [status EXCEPT ![j] = s]
  /\ running' = running \ {j}
  /\ IF j \in running
       THEN /\ perBackend' = [perBackend EXCEPT ![BackendOf[j]] = @ - 1]
            /\ Release(j)
            /\ stack' = <<j>> \o stack
            /\ untold' = [left EXCEPT ![j] = Dependents(j)]
       ELSE untold' = left /\ UNCHANGED <<perBackend, usage, stack>>

MarkCompletedHolding(j, s, left) ==
  /\ status' = [status EXCEPT ![j] = s]
  /\ running' = running \ {j}
  /\ IF j \in running
       THEN perBackend' = [perBackend EXCEPT ![BackendOf[j]] = @ - 1]
       ELSE UNCHANGED perBackend
  /\ stack' = <<j>> \o stack
  /\ untold' = [left EXCEPT ![j] = Dependents(j)]
  /\ UNCHANGED usage

(* _mark_job_completed(j, s) up to its call of _update_completed_job_deps, *)
(* whose loop over the dependents of j is then at the top of the stack.    *)
(* `left` is untold with what the caller has done to it.                   *)
MarkCompleted(j, s, left) ==
  /\ status' = [status EXCEPT ![j] = s]
  /\ running' = running \ {j}
  /\ IF j \in running
       THEN /\ perBackend' = [perBackend EXCEPT ![BackendOf[j]] = @ - 1]
            /\ Release(j)
       ELSE UNCHANGED <<perBackend, usage>>
  /\ stack' = <<j>> \o stack
  /\ untold' = [left EXCEPT ![j] = Dependents(j)]

(* run(): the jobs that depend on nothing are made ready, then the main    *)
(* loop starts.                                                            *)
StartReady(j) ==
  /\ pc = "start"
  /\ remaining[j] = 0
  /\ MarkReady(j)
  /\ UNCHANGED <<depVars, killRequested, blocked, launching, loadVars,
                 signalVars, queue, pc, batch, callVars, offer>>

StartLoop ==
  /\ pc = "start"
  /\ \A j \in Jobs : remaining[j] = 0 => status[j] # "SCHEDULED"
  /\ pc' = "select"
  /\ UNCHANGED <<status, depVars, killRequested, heapVars, loadVars,
                 signalVars, queue, batch, callVars, offer>>

-----------------------------------------------------------------------------
(* _get_jobs_to_launch() and _schedule_ready_jobs().                       *)

(* A mutant of SlotsLeft: one job too many.                                *)
SlotsLeftOrFull ==
  MaxParallelism > 0 => Cardinality(running) + Cardinality(launching) <= MaxParallelism

SlotsLeft ==
  MaxParallelism > 0 => Cardinality(running) + Cardinality(launching) < MaxParallelism

BackendHasRoom(b) ==
  BackendMax[b] > 0 =>
    perBackend[b] + Cardinality({k \in launching : BackendOf[k] = b}) < BackendMax[b]

CanAllocate(j) ==
  \A r \in Resources : Needs[j][r] > 0 => usage[r] + Needs[j][r] <= Limit[r]

CanLaunch(j) == BackendHasRoom(BackendOf[j]) /\ CanAllocate(j)

SelectToLaunch(j) ==
  /\ pc = "select"
  /\ SlotsLeft
  /\ IsTop(j)
  /\ Pop(j)
  /\ CanLaunch(j)
  /\ TryAllocate(j)
  /\ launching' = launching \cup {j}
  /\ UNCHANGED <<status, depVars, killRequested, blocked, running, perBackend,
                 signalVars, queue, pc, batch, callVars, offer>>

SelectBlocked(j) ==
  /\ pc = "select"
  /\ SlotsLeft
  /\ IsTop(j)
  /\ Pop(j)
  /\ ~CanLaunch(j)
  /\ blocked' = blocked \cup {j}
  /\ UNCHANGED <<status, depVars, killRequested, launching, loadVars,
                 signalVars, queue, pc, batch, callVars, offer>>

(* A mutant of Submit: the blocked jobs are submitted with the others.     *)
SubmitBlocked ==
  /\ pc = "select"
  /\ ~SlotsLeft \/ HeapIsEmpty
  /\ heap' = [j \in Jobs |-> IF j \in blocked THEN heap[j] + 1 ELSE heap[j]]
  /\ blocked' = {}
  /\ offer' = [j \in Jobs |-> IF j \in launching \cup blocked THEN "asked" ELSE offer[j]]
  /\ pc' = IF launching \cup blocked = {} THEN "mark" ELSE "submit"
  /\ UNCHANGED <<status, depVars, killRequested, launching, loadVars,
                 signalVars, queue, batch, callVars>>

(* The blocked jobs are requeued, and the others submitted to their        *)
(* backends.  A backend whose jobs are all blocked is handed an empty      *)
(* batch; only awaiting no submit_many() at all does not suspend.          *)
Submit ==
  /\ pc = "select"
  /\ ~SlotsLeft \/ HeapIsEmpty
  /\ heap' = [j \in Jobs |-> IF j \in blocked THEN heap[j] + 1 ELSE heap[j]]
  /\ blocked' = {}
  /\ offer' = [j \in Jobs |-> IF j \in launching THEN "asked" ELSE offer[j]]
  /\ pc' = IF launching \cup blocked = {} THEN "mark" ELSE "submit"
  /\ UNCHANGED <<status, depVars, killRequested, launching, loadVars,
                 signalVars, queue, batch, callVars>>

Submitted ==
  /\ pc = "submit"
  /\ \A j \in launching : offer[j] # "asked"
  /\ pc' = "mark"
  /\ UNCHANGED <<status, depVars, killRequested, heapVars, loadVars,
                 signalVars, queue, batch, callVars, offer>>

(* A job with a handle: _mark_job_running().                               *)
MarkRunning(j) ==
  /\ pc = "mark"
  /\ j \in launching
  /\ offer[j] # "refused"
  /\ launching' = launching \ {j}
  /\ status' = [status EXCEPT ![j] = "RUNNING"]
  /\ running' = running \cup {j}
  /\ perBackend' = [perBackend EXCEPT ![BackendOf[j]] = @ + 1]
  /\ UNCHANGED <<depVars, killRequested, heap, blocked, usage, signalVars,
                 queue, pc, batch, callVars, offer>>

(* Mutants of Requeue: the job is not put back in the heap, or keeps the    *)
(* resources that were allocated to it.                                    *)
RequeueLosing(j) ==
  /\ pc = "mark"
  /\ j \in launching
  /\ offer[j] = "refused"
  /\ launching' = launching \ {j}
  /\ Release(j)
  /\ offer' = [offer EXCEPT ![j] = "none"]
  /\ UNCHANGED <<status, depVars, killRequested, heap, blocked, running,
                 perBackend, signalVars, queue, pc, batch, callVars>>

RequeueHolding(j) ==
  /\ pc = "mark"
  /\ j \in launching
  /\ offer[j] = "refused"
  /\ launching' = launching \ {j}
  /\ Push(j)
  /\ offer' = [offer EXCEPT ![j] = "none"]
  /\ UNCHANGED <<status, depVars, killRequested, blocked, loadVars,
                 signalVars, queue, pc, batch, callVars>>

Requeue(j) ==
  /\ pc = "mark"
  /\ j \in launching
  /\ offer[j] = "refused"
  /\ launching' = launching \ {j}
  /\ Push(j)
  /\ Release(j)
  /\ offer' = [offer EXCEPT ![j] = "none"]
  /\ UNCHANGED <<status, depVars, killRequested, blocked, running, perBackend,
                 signalVars, queue, pc, batch, callVars>>

(* A mutant of AfterScheduling: it waits although nothing runs.            *)
AfterSchedulingWaiting ==
  /\ pc = "mark"
  /\ launching = {}
  /\ pc' = IF running = {} /\ HeapIsEmpty THEN "done" ELSE "wait"
  /\ UNCHANGED <<status, depVars, killRequested, heapVars, loadVars,
                 signalVars, queue, batch, callVars, offer>>

(* The main loop ends when nothing runs and nothing is ready, and tries    *)
(* again at once when nothing runs although jobs are ready.                *)
AfterScheduling ==
  /\ pc = "mark"
  /\ launching = {}
  /\ pc' = IF running # {} THEN "wait" ELSE IF HeapIsEmpty THEN "done" ELSE "select"
  /\ UNCHANGED <<status, depVars, killRequested, heapVars, loadVars,
                 signalVars, queue, batch, callVars, offer>>

-----------------------------------------------------------------------------
(* Completions.                                                            *)

WakeForCompletion ==
  /\ pc = "wait"
  /\ shutdownEvent # "set"
  /\ queue # <<>>
  /\ pc' = "drain"
  /\ UNCHANGED <<status, depVars, killRequested, heapVars, loadVars,
                 signalVars, queue, batch, callVars, offer>>

DrainCompletions ==
  /\ pc = "drain"
  /\ batch' = queue
  /\ queue' = <<>>
  /\ pc' = "complete"
  /\ UNCHANGED <<status, depVars, killRequested, heapVars, loadVars,
                 signalVars, callVars, offer>>

(* A mutant of HandleCompletion: a completed job may complete again.       *)
HandleCompletionAlways ==
  /\ pc = "complete"
  /\ stack = <<>>
  /\ batch # <<>>
  /\ batch' = Tail(batch)
  /\ MarkCompleted(Head(batch).job, Head(batch).status, untold)
  /\ UNCHANGED <<depVars, killRequested, heapVars, signalVars, queue, pc, offer>>

HandleCompletion ==
  /\ pc = "complete"
  /\ stack = <<>>
  /\ batch # <<>>
  /\ batch' = Tail(batch)
  /\ LET event == Head(batch) IN
       IF status[event.job] \in Terminal
         THEN UNCHANGED <<status, loadVars, callVars>>
         ELSE MarkCompleted(event.job, event.status, untold)
  /\ UNCHANGED <<depVars, killRequested, heapVars, signalVars, queue, pc, offer>>

CompletionsHandled ==
  /\ pc = "complete"
  /\ stack = <<>>
  /\ batch = <<>>
  /\ pc' = "select"
  /\ UNCHANGED <<status, depVars, killRequested, heapVars, loadVars,
                 signalVars, queue, batch, callVars, offer>>

(* One turn of the loop of _update_completed_job_deps(), for the job at    *)
(* the top of the stack and one of its dependents.                         *)
Calling(j, d) == stack # <<>> /\ j = Head(stack) /\ d \in untold[j]

CountDependency(j, d) ==
  /\ remaining' = [remaining EXCEPT ![d] = @ - 1]
  /\ passing' = IF status[j] = "PASSED" THEN [passing EXCEPT ![d] = @ + 1] ELSE passing

Told(j, d) == [untold EXCEPT ![j] = @ \ {d}]

(* Mutants of Decided and EnoughPassed: the signal is not looked at, and    *)
(* one dependency that passed is always enough.                            *)
DecidedDespiteSignal(d) == remaining'[d] = 0 /\ status[d] = "SCHEDULED"
SomePassed(d) == passing'[d] > 0

Decided(d) == ~signal /\ remaining'[d] = 0 /\ status[d] = "SCHEDULED"

EnoughPassed(d) ==
  IF NeedsAll[d] THEN passing'[d] = Cardinality(Deps[d]) ELSE passing'[d] > 0

ReadyDependent(j, d) ==
  /\ Calling(j, d)
  /\ CountDependency(j, d)
  /\ Decided(d)
  /\ EnoughPassed(d)
  /\ MarkReady(d)
  /\ untold' = Told(j, d)
  /\ UNCHANGED <<killRequested, blocked, launching, loadVars, signalVars,
                 queue, pc, batch, stack, offer>>

(* Too few dependencies passed, or a shutdown was requested: the dependent *)
(* is killed, and its own dependents are updated before the next one is.   *)
KillDependent(j, d) ==
  /\ Calling(j, d)
  /\ CountDependency(j, d)
  /\ \/ signal /\ status[d] \notin Terminal
     \/ Decided(d) /\ ~EnoughPassed(d)
  /\ MarkCompleted(d, "KILLED", Told(j, d))
  /\ UNCHANGED <<killRequested, heapVars, signalVars, queue, pc, batch, offer>>

PassOverDependent(j, d) ==
  /\ Calling(j, d)
  /\ CountDependency(j, d)
  /\ ~Decided(d)
  /\ signal => status[d] \in Terminal
  /\ untold' = Told(j, d)
  /\ UNCHANGED <<status, killRequested, heapVars, loadVars, signalVars,
                 queue, pc, batch, stack, offer>>

DependentsUpdated ==
  /\ stack # <<>>
  /\ untold[Head(stack)] = {}
  /\ stack' = Tail(stack)
  /\ UNCHANGED <<status, depVars, killRequested, heapVars, loadVars,
                 signalVars, queue, pc, batch, untold, offer>>

-----------------------------------------------------------------------------
(* Shutdown.  A handler of SIGINT or SIGTERM records the first signal and  *)
(* schedules the event to be set; the event wakes the main loop later.     *)

Signal ==
  /\ pc \in Suspended
  /\ ~signal
  /\ signal' = TRUE
  /\ shutdownEvent' = "scheduled"
  /\ UNCHANGED <<status, depVars, killRequested, heapVars, loadVars,
                 shutdownStarted, queue, pc, batch, callVars, offer>>

SetShutdownEvent ==
  /\ pc \in Suspended
  /\ shutdownEvent = "scheduled"
  /\ shutdownEvent' = "set"
  /\ UNCHANGED <<status, depVars, killRequested, heapVars, loadVars, signal,
                 shutdownStarted, queue, pc, batch, callVars, offer>>

(* A mutant of HandleExitSignal: it does not remember that it was run.     *)
HandleExitSignalAgain ==
  /\ pc = "wait"
  /\ shutdownEvent = "set"
  /\ shutdownEvent' = "unset"
  /\ pc' = "exit"
  /\ killRequested' = running
  /\ UNCHANGED <<status, depVars, heapVars, loadVars, signal, shutdownStarted,
                 queue, batch, callVars, offer>>

(* A set event has precedence over completions that arrived meanwhile.     *)
HandleExitSignal ==
  /\ pc = "wait"
  /\ shutdownEvent = "set"
  /\ shutdownEvent' = "unset"
  /\ shutdownStarted' = TRUE
  /\ IF shutdownStarted
       THEN pc' = "select" /\ UNCHANGED killRequested
       ELSE pc' = "exit" /\ killRequested' = running
  /\ UNCHANGED <<status, depVars, heapVars, loadVars, signal, queue, batch,
                 callVars, offer>>

KillQueued(j) ==
  /\ pc = "exit"
  /\ stack = <<>>
  /\ IsTop(j)
  /\ Pop(j)
  /\ IF status[j] \in Terminal
       THEN UNCHANGED <<status, loadVars, callVars>>
       ELSE MarkCompleted(j, "KILLED", untold)
  /\ UNCHANGED <<depVars, killRequested, blocked, launching, signalVars,
                 queue, pc, batch, offer>>

(* A mutant of AwaitKills: queued jobs are left in the heap.               *)
AwaitKillsEarly ==
  /\ pc = "exit"
  /\ stack = <<>>
  /\ pc' = IF killRequested = {} THEN "select" ELSE "killing"
  /\ UNCHANGED <<status, depVars, killRequested, heapVars, loadVars,
                 signalVars, queue, batch, callVars, offer>>

AwaitKills ==
  /\ pc = "exit"
  /\ stack = <<>>
  /\ HeapIsEmpty
  /\ pc' = IF killRequested = {} THEN "select" ELSE "killing"
  /\ UNCHANGED <<status, depVars, killRequested, heapVars, loadVars,
                 signalVars, queue, batch, callVars, offer>>

(* kill_many() may return, or raise, before any of the jobs has completed. *)
KillsReturned ==
  /\ pc = "killing"
  /\ pc' = "select"
  /\ UNCHANGED <<status, depVars, killRequested, heapVars, loadVars,
                 signalVars, queue, batch, callVars, offer>>

-----------------------------------------------------------------------------
(* The backends, as the docstrings of RuntimeBackend require them to be:   *)
(* submit_many() gives a job a handle or does not, and a job with a handle *)
(* completes, before or after its handle is returned.  Nothing stops one   *)
(* from reporting a job again: LegacyLauncherAdapter reports a launch that *)
(* failed and polls the launcher all the same (runtime/legacy.py).         *)

Accept(j) ==
  /\ pc = "submit"
  /\ offer[j] = "asked"
  /\ offer' = [offer EXCEPT ![j] = "live"]
  /\ UNCHANGED <<status, depVars, killRequested, heapVars, loadVars,
                 signalVars, queue, pc, batch, callVars>>

Refuse(j) ==
  /\ pc = "submit"
  /\ offer[j] = "asked"
  /\ offer' = [offer EXCEPT ![j] = "refused"]
  /\ UNCHANGED <<status, depVars, killRequested, heapVars, loadVars,
                 signalVars, queue, pc, batch, callVars>>

SubmitJobCompletion(j, s) ==
  /\ pc \in Suspended
  /\ offer[j] = "live"
  /\ offer' = [offer EXCEPT ![j] = "ended"]
  /\ queue' = Append(queue, [job |-> j, status |-> s])
  /\ UNCHANGED <<status, depVars, killRequested, heapVars, loadVars,
                 signalVars, pc, batch, callVars>>

RepeatJobCompletion(j, s) ==
  /\ pc \in Suspended
  /\ offer[j] = "ended"
  /\ offer' = [offer EXCEPT ![j] = "repeated"]
  /\ queue' = Append(queue, [job |-> j, status |-> s])
  /\ UNCHANGED <<status, depVars, killRequested, heapVars, loadVars,
                 signalVars, pc, batch, callVars>>

-----------------------------------------------------------------------------
UpdateDependent == \E j, d \in Jobs :
  ReadyDependent(j, d) \/ KillDependent(j, d) \/ PassOverDependent(j, d)

SchedulerStep ==
  \/ StartLoop \/ Submit \/ Submitted \/ AfterScheduling
  \/ WakeForCompletion \/ DrainCompletions \/ HandleCompletion \/ CompletionsHandled
  \/ UpdateDependent \/ DependentsUpdated
  \/ HandleExitSignal \/ AwaitKills \/ KillsReturned
  \/ \E j \in Jobs : \/ StartReady(j) \/ SelectToLaunch(j) \/ SelectBlocked(j)
                     \/ MarkRunning(j) \/ Requeue(j) \/ KillQueued(j)

Answer(j) == Accept(j) \/ Refuse(j)
Complete(j) == \E s \in Outcomes : SubmitJobCompletion(j, s)

(* The run is over: run() returns the statuses in the order of the jobs.   *)
Finished == pc = "done" /\ UNCHANGED vars

Next ==
  \/ SchedulerStep
  \/ Signal \/ SetShutdownEvent
  \/ \E j \in Jobs : \/ Answer(j)
                     \/ Complete(j)
                     \/ \E s \in Outcomes : RepeatJobCompletion(j, s)
  \/ Finished

Spec == Init /\ [][Next]_vars

(* The event loop runs every task that can run, so the scheduler and the   *)
(* callbacks it scheduled advance; a backend answers every submission and  *)
(* completes every job it accepted.                                        *)
LoopFairness == /\ WF_vars(SchedulerStep)
                /\ WF_vars(SetShutdownEvent)
                /\ \A j \in Jobs : WF_vars(Answer(j)) /\ WF_vars(Complete(j))

(* A backend that refuses a job is busy for a time only.                   *)
NotForeverBusy == \A j \in Jobs : SF_vars(Accept(j))

FairSpec == Spec /\ LoopFairness /\ NotForeverBusy

-----------------------------------------------------------------------------
TypeOK ==
  /\ status \in [Jobs -> Status]
  /\ remaining \in [Jobs -> Int]
  /\ passing \in [Jobs -> Int]
  /\ killRequested \subseteq Jobs
  /\ heap \in [Jobs -> Nat]
  /\ running \subseteq Jobs
  /\ perBackend \in [Backends -> Int]
  /\ usage \in [Resources -> Int]
  /\ signal \in BOOLEAN
  /\ shutdownEvent \in {"unset", "scheduled", "set"}
  /\ shutdownStarted \in BOOLEAN
  /\ queue \in Seq(Completion)
  /\ pc \in Places
  /\ launching \subseteq Jobs
  /\ blocked \subseteq Jobs
  /\ batch \in Seq(Completion)
  /\ stack \in Seq(Jobs)
  /\ untold \in [Jobs -> SUBSET Jobs]
  /\ offer \in [Jobs -> Offer]

(* A dependency of d that d still waits for: it has not ended, or it has    *)
(* and its _update_completed_job_deps() has not reached d yet.              *)
Awaited(d) == {p \in Deps[d] : status[p] \notin Terminal \/ d \in untold[p]}
Passed(d)  == {p \in Deps[d] : status[p] = "PASSED" /\ d \notin untold[p]}

(* remaining_deps and passing_deps, which are only ever adjusted by one at  *)
(* a time, always agree with the statuses they count, through failures,     *)
(* cancellations, repeated completions and shutdowns.                       *)
DependenciesCounted ==
  \A d \in Jobs : /\ remaining[d] = Cardinality(Awaited(d))
                  /\ passing[d] = Cardinality(Passed(d))

Count(b) == IF b THEN 1 ELSE 0

(* No queued job is lost or held twice: while a job is queued it is in      *)
(* exactly one of the heap, the blocked list and the jobs being launched,   *)
(* and no other job is in any of them.                                      *)
QueuedJobsHeldOnce ==
  \A j \in Jobs : heap[j] + Count(j \in blocked) + Count(j \in launching)
                    = Count(status[j] = "QUEUED")

OnBackend(b, S) == {j \in S : BackendOf[j] = b}

(* What the scheduler counts as load is what really runs: _running, the     *)
(* per-backend counters and the resource usage never drift from the         *)
(* statuses, so that no slot and no resource is leaked by a requeued,       *)
(* killed or twice reported job.                                            *)
LoadAccounted ==
  /\ running = {j \in Jobs : status[j] = "RUNNING"}
  /\ \A b \in Backends : perBackend[b] = Cardinality(OnBackend(b, running))
  /\ \A r \in Resources :
       usage[r] = MapThenSumSet(LAMBDA j : Needs[j][r], running \cup launching)

(* The limits hold for the jobs that run together with those that are       *)
(* being launched: the scheduler's, the backends' and the resources'.       *)
LimitsRespected ==
  LET active == running \cup launching IN
    /\ MaxParallelism > 0 => Cardinality(active) <= MaxParallelism
    /\ \A b \in Backends :
         BackendMax[b] > 0 => Cardinality(OnBackend(b, active)) <= BackendMax[b]
    /\ \A r \in Resources : usage[r] <= Limit[r]

(* A job is preferred to a ready job of higher priority only if the latter  *)
(* cannot be launched, still, when the former has been chosen.              *)
PrioritiesRespected ==
  pc = "select" =>
    \A k \in launching, j \in Jobs :
      status[j] = "QUEUED" /\ Rank[j] < Rank[k] =>
        j \in launching \/ (j \in blocked /\ ~CanLaunch(j))

(* When no job runs, the limits never keep all the ready jobs waiting: the  *)
(* warning of lines 597-601 is out of reach with a static provider.         *)
LimitsNeverBlockAll ==
  pc = "select" /\ running = {} /\ blocked # {} => launching # {}

(* Once a shutdown has been acted upon, nothing is left to launch, and      *)
(* every job that still runs was asked to stop.                             *)
ShutdownReachesEveryJob ==
  shutdownStarted /\ pc # "exit" =>
    HeapIsEmpty /\ launching = {} /\ running \subseteq killRequested

(* The main loop is left only when every job has ended: no job is           *)
(* forgotten in the graph with status SCHEDULED.                            *)
NoJobForgotten == pc = "done" => \A j \in Jobs : status[j] \in Terminal

(* The inductive invariant from which SchedulerProofs proves the above:     *)
(* what the code relies on without saying so, at any point of the loop.     *)

(* An active call of _update_completed_job_deps() belongs to a job that has *)
(* ended, and there is none at an await.                                    *)
CallsActive ==
  /\ \A j \in Jobs :
       /\ untold[j] \subseteq Dependents(j)
       /\ untold[j] # {} => status[j] \in Terminal
       /\ untold[j] # {} => \E i \in DOMAIN stack : stack[i] = j
  /\ pc \notin {"complete", "exit"} => stack = <<>>

(* A job leaves SCHEDULED when its last dependency tells it, if not before. *)
WaitsForSomething ==
  \A j \in Jobs :
    /\ status[j] \in {"QUEUED", "RUNNING", "PASSED", "FAILED"} => Awaited(j) = {}
    /\ status[j] = "SCHEDULED" /\ pc # "start" => Awaited(j) # {}

PassesConfined ==
  /\ pc # "select" => blocked = {}
  /\ pc \notin {"select", "submit", "mark"} => launching = {}

(* Only a job that the scheduler submitted has a handle or completions.     *)
OffersFollowLaunches ==
  /\ \A j \in Jobs :
       /\ offer[j] \in {"live", "ended", "repeated"} =>
            j \in launching \/ status[j] \in {"RUNNING"} \cup Terminal
       /\ offer[j] \in {"asked", "refused"} => j \in launching
       /\ j \in launching /\ pc = "select" => offer[j] = "none"
       /\ j \in launching /\ pc = "submit" => offer[j] # "none"
       /\ j \in launching /\ pc = "mark" => offer[j] \notin {"none", "asked"}
  /\ \A i \in DOMAIN queue : offer[queue[i].job] \in {"ended", "repeated"}
  /\ \A i \in DOMAIN batch : offer[batch[i].job] \in {"ended", "repeated"}
  /\ batch # <<>> => pc = "complete"

ShutdownOrdered ==
  /\ pc = "start" => ~signal
  /\ shutdownEvent # "unset" \/ shutdownStarted => signal
  /\ pc = "exit" => shutdownStarted
  /\ shutdownStarted /\ pc # "exit" => HeapIsEmpty /\ launching = {} /\ blocked = {}
  /\ shutdownStarted => running \subseteq killRequested

RunningMatches == running = {j \in Jobs : status[j] = "RUNNING"}

LoopBounded ==
  /\ pc = "start" => \A j \in Jobs : status[j] \in {"SCHEDULED", "QUEUED"}
  /\ pc = "done" => running = {} /\ HeapIsEmpty

IInv == /\ TypeOK
        /\ DependenciesCounted
        /\ QueuedJobsHeldOnce
        /\ RunningMatches
        /\ CallsActive
        /\ WaitsForSomething
        /\ PassesConfined
        /\ OffersFollowLaunches
        /\ ShutdownOrdered
        /\ LoopBounded

(* Completions that are handled between the signal and the exit handler     *)
(* make no further job ready.                                               *)
NothingReadiedAfterSignal ==
  [][signal => \A j \in Jobs : status[j] # "QUEUED" => status'[j] # "QUEUED"]_vars

(* The statuses that observers are told live the life JobLifecycle gives    *)
(* them: dependency order, cancellation only for a reason, final results,   *)
(* no launch once a shutdown is being acted upon.                           *)
Lifecycle == INSTANCE JobLifecycle WITH shutdown <- signal, closing <- shutdownStarted
ImplementsLifecycle == Lifecycle!Spec

(* The scheduler keeps its side of the contract with the backends: no job   *)
(* is submitted while a backend has it, or once it has completed.          *)
Contract == INSTANCE BackendContract
KeepsContract == Contract!Spec

(* "Run all scheduled jobs to completion (unless terminated)" (run()): the  *)
(* loop ends, with or without a shutdown.                                   *)
RunsToCompletion == <>(pc = "done")
=============================================================================
