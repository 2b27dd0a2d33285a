----------------------------- MODULE LocalBackend -----------------------------
(***************************************************************************)
(* The backend that runs jobs as local processes: runtime/local.py.        *)
(*                                                                         *)
(* For each job a monitor task waits for its process, with the timeout of  *)
(* the job if it has one, and reports its completion.  _kill_job() runs    *)
(* for a job in its monitor, after the timeout, and in a task of           *)
(* kill_many(), possibly both at once: its two callers are Callers.        *)
(***************************************************************************)
EXTENDS Integers, Sequences

CONSTANTS
  Jobs,
  TimeLimited,   \* the jobs with a timeout
  Busy,          \* the jobs whose launch may meet a BlockingIOError
  LaunchErrors,  \* whose launch may fail in a way that is reported
  LaunchAborts,  \* whose launch may raise another exception
  Interactive,   \* the jobs that are run in interactive mode
  Vanishing,     \* whose child processes may end between the time they are
                 \* listed and the time they are signalled
  Stuck,         \* the jobs whose process may never end, even if killed
  Brittle,       \* the jobs whose post_finish() raises if they passed
  Shutdowns      \* may the scheduler call kill_many()

ASSUME LocalAssumption ==
  /\ UNION {TimeLimited, Busy, LaunchErrors, LaunchAborts, Interactive, Vanishing,
            Stuck, Brittle} \subseteq Jobs
  /\ Shutdowns \in BOOLEAN

VARIABLES
  sched,       \* what the scheduler holds j to be
  process,     \* "none", "running"; "reaped" once its pid is gone, and
               \* "exited" once asyncio has set its return code
  signals,     \* the signals that were sent to the process of j
  monitor,     \* where _monitor_job() is for j
  killer,      \* killer[c][j]: where the _kill_job() of j is that c called
  requested,   \* the jobs whose handle has kill_requested
  todo,        \* the jobs that submit_many() has still to launch
  answer,      \* the jobs that have a handle in `handles` of submit_many()
  found,       \* its `completions`, "none" for no event
  submitting,  \* submit_many() is running
  killing,     \* kill_many() is running
  reported,    \* the completions emitted for j, oldest first
  shutdown,    \* kill_many() has been called
  closed       \* the run is over, or was ended by an exception

submitVars == <<todo, answer, found, submitting>>
procVars == <<process, signals>>
vars == <<sched, procVars, monitor, killer, requested, submitVars, killing,
          reported, shutdown, closed>>

Callers == {"monitor", "kill_many"}
Waiting == {"termwait", "killwait"}
Over == {"over", "raised"}
NoEvents == [j \in Jobs |-> "none"]
Running == {j \in Jobs : sched[j] = "running"}

Init ==
  /\ sched = [j \in Jobs |-> "ready"]
  /\ process = [j \in Jobs |-> "none"]
  /\ signals = [j \in Jobs |-> {}]
  /\ monitor = [j \in Jobs |-> "none"]
  /\ killer = [c \in Callers |-> NoEvents]
  /\ requested = {}
  /\ todo = {}
  /\ answer = {}
  /\ found = NoEvents
  /\ submitting = FALSE
  /\ killing = FALSE
  /\ reported = [j \in Jobs |-> <<>>]
  /\ shutdown = FALSE
  /\ closed = FALSE

-----------------------------------------------------------------------------
(* submit_many(); it is suspended at each process it creates.              *)

StartSubmit ==
  /\ ~submitting /\ ~killing /\ ~shutdown /\ ~closed
  /\ \E S \in SUBSET {j \in Jobs : sched[j] = "ready"} \ {{}} :
       /\ todo' = S
       /\ sched' = [j \in Jobs |-> IF j \in S THEN "asked" ELSE sched[j]]
  /\ submitting' = TRUE
  /\ UNCHANGED <<procVars, monitor, killer, requested, answer, found, killing,
                 reported, shutdown, closed>>

LaunchNext(j) ==
  /\ submitting /\ ~closed
  /\ j \in todo
  /\ todo' = todo \ {j}
  /\ UNCHANGED <<sched, signals, killer, requested, submitting, killing, reported,
                 shutdown, closed>>

Launch(j) ==
  /\ j \notin Interactive
  /\ LaunchNext(j)
  /\ process' = [process EXCEPT ![j] = "running"]
  /\ monitor' = [monitor EXCEPT ![j] = "waiting"]
  /\ answer' = answer \cup {j}
  /\ UNCHANGED found

(* No log file or no process: the job is reported and has a handle as well, *)
(* but no monitor.                                                         *)
LaunchFails(j) ==
  /\ j \in LaunchErrors
  /\ LaunchNext(j)
  /\ found' = [found EXCEPT ![j] = "KILLED"]
  /\ answer' = answer \cup {j}
  /\ UNCHANGED <<process, monitor>>

(* The event loop stands still until an interactive job has ended.         *)
LaunchInteractive(j) ==
  /\ j \in Interactive
  /\ LaunchNext(j)
  /\ \E s \in {"PASSED", "FAILED"} : found' = [found EXCEPT ![j] = s]
  /\ answer' = answer \cup {j}
  /\ UNCHANGED <<process, monitor>>

LaunchBusy(j) ==
  /\ j \in Busy
  /\ LaunchNext(j)
  /\ UNCHANGED <<process, monitor, answer, found>>

(* An exception leaves submit_many(), and with it the scheduler's run().   *)
LaunchRaises(j) ==
  /\ j \in LaunchAborts
  /\ submitting /\ ~closed
  /\ j \in todo
  /\ closed' = TRUE
  /\ UNCHANGED <<sched, procVars, monitor, killer, requested, submitVars, killing,
                 reported, shutdown>>

EmitRaises == \E j \in Brittle : found[j] = "PASSED"

(* A mutant of SubmitReturns: jobs without a handle are not requeued.      *)
SubmitReturnsAll ==
  /\ submitting /\ ~closed
  /\ todo = {}
  /\ ~EmitRaises
  /\ sched' = [j \in Jobs |-> IF sched[j] = "asked" THEN "running" ELSE sched[j]]
  /\ answer' = {}
  /\ reported' = [j \in Jobs |-> IF found[j] = "none" THEN reported[j]
                                                      ELSE Append(reported[j], found[j])]
  /\ found' = NoEvents
  /\ submitting' = FALSE
  /\ UNCHANGED <<procVars, monitor, killer, requested, todo, killing, shutdown, closed>>

SubmitReturns ==
  /\ submitting /\ ~closed
  /\ todo = {}
  /\ ~EmitRaises
  /\ sched' = [j \in Jobs |-> IF sched[j] # "asked" THEN sched[j]
                              ELSE IF j \in answer THEN "running" ELSE "ready"]
  /\ answer' = {}
  /\ reported' = [j \in Jobs |-> IF found[j] = "none" THEN reported[j]
                                                      ELSE Append(reported[j], found[j])]
  /\ found' = NoEvents
  /\ submitting' = FALSE
  /\ UNCHANGED <<procVars, monitor, killer, requested, todo, killing, shutdown, closed>>

SubmitRaises ==
  /\ submitting /\ ~closed
  /\ todo = {}
  /\ EmitRaises
  /\ closed' = TRUE
  /\ UNCHANGED <<sched, procVars, monitor, killer, requested, submitVars, killing,
                 reported, shutdown>>

-----------------------------------------------------------------------------
(* Processes, by themselves or because of a signal.                        *)

ProcessEnds(j) ==
  /\ process[j] = "running"
  /\ process' = [process EXCEPT ![j] = "reaped"]
  /\ UNCHANGED <<sched, signals, monitor, killer, requested, submitVars, killing,
                 reported, shutdown, closed>>

ExitNoticed(j) ==
  /\ ~closed
  /\ process[j] = "reaped"
  /\ process' = [process EXCEPT ![j] = "exited"]
  /\ UNCHANGED <<sched, signals, monitor, killer, requested, submitVars, killing,
                 reported, shutdown, closed>>

-----------------------------------------------------------------------------
(* _kill_job(), called by c.                                               *)

MoveKiller(c, j, stage) == killer' = [killer EXCEPT ![c][j] = stage]

(* _send_kill_signal(): psutil raises NoSuchProcess, which nothing catches, *)
(* if the process or a child that it listed is gone.                       *)
Send(c, j, sig, stage) ==
  \/ /\ process[j] = "running"
     /\ signals' = [signals EXCEPT ![j] = @ \cup {sig}]
     /\ MoveKiller(c, j, stage)
  \/ /\ process[j] = "reaped" \/ (process[j] = "running" /\ j \in Vanishing)
     /\ UNCHANGED signals
     /\ MoveKiller(c, j, "raised")

SendTerm(c, j) ==
  \/ Send(c, j, "TERM", "termwait")
  \/ /\ process[j] = "exited"
     /\ UNCHANGED signals
     /\ MoveKiller(c, j, "over")

KillStarts(j) ==
  /\ ~closed
  /\ killer["kill_many"][j] = "start"
  /\ SendTerm("kill_many", j)
  /\ UNCHANGED <<sched, process, monitor, requested, submitVars, killing, reported,
                 shutdown, closed>>

(* Mutants of TermExpires and KillExpires: no SIGKILL is sent; the wait for *)
(* its effect has no timeout.                                              *)
TermGivesUp(c, j) ==
  /\ ~closed
  /\ killer[c][j] = "termwait"
  /\ process[j] # "exited"
  /\ MoveKiller(c, j, "over")
  /\ UNCHANGED <<sched, procVars, monitor, requested, submitVars, killing, reported,
                 shutdown, closed>>

KillExpiresAtExit(c, j) ==
  /\ ~closed
  /\ killer[c][j] = "killwait"
  /\ process[j] = "exited"
  /\ MoveKiller(c, j, "over")
  /\ UNCHANGED <<sched, procVars, monitor, requested, submitVars, killing, reported,
                 shutdown, closed>>

TermExpires(c, j) ==
  /\ ~closed
  /\ killer[c][j] = "termwait"
  /\ Send(c, j, "KILL", "killwait")
  /\ UNCHANGED <<sched, process, monitor, requested, submitVars, killing, reported,
                 shutdown, closed>>

KillExpires(c, j) ==
  /\ ~closed
  /\ killer[c][j] = "killwait"
  /\ process[j] # "exited"
  /\ MoveKiller(c, j, "over")
  /\ UNCHANGED <<sched, procVars, monitor, requested, submitVars, killing, reported,
                 shutdown, closed>>

KillWaitEnds(c, j) ==
  /\ ~closed
  /\ killer[c][j] \in Waiting
  /\ process[j] = "exited"
  /\ MoveKiller(c, j, "over")
  /\ UNCHANGED <<sched, procVars, monitor, requested, submitVars, killing, reported,
                 shutdown, closed>>

-----------------------------------------------------------------------------
(* _monitor_job().  Without an exit code, the job has timed out; an         *)
(* exception of _kill_job() comes after the `finally` that reports it.      *)

MoveMonitor(j, stage) == monitor' = [monitor EXCEPT ![j] = stage]

MonitorWakes(j) ==
  /\ ~closed
  /\ monitor[j] = "waiting"
  /\ process[j] = "exited"
  /\ MoveMonitor(j, "exit code")
  /\ UNCHANGED <<sched, procVars, killer, requested, submitVars, killing, reported,
                 shutdown, closed>>

MonitorTimesOut(j) ==
  /\ ~closed
  /\ monitor[j] = "waiting"
  /\ j \in TimeLimited
  /\ process[j] # "exited"
  /\ MoveMonitor(j, "killing")
  /\ SendTerm("monitor", j)
  /\ UNCHANGED <<sched, process, requested, submitVars, killing, reported, shutdown, closed>>

(* A mutant of MonitorHasKilled: nothing is reported after a timeout.      *)
MonitorGivesUp(j) ==
  /\ ~closed
  /\ monitor[j] = "killing"
  /\ killer["monitor"][j] \in Over
  /\ MoveMonitor(j, "done")
  /\ UNCHANGED <<sched, procVars, killer, requested, submitVars, killing, reported,
                 shutdown, closed>>

MonitorHasKilled(j) ==
  /\ ~closed
  /\ monitor[j] = "killing"
  /\ killer["monitor"][j] \in Over
  /\ MoveMonitor(j, "no exit code")
  /\ UNCHANGED <<sched, procVars, killer, requested, submitVars, killing, reported,
                 shutdown, closed>>

(* A mutant of Result: a requested kill is not looked at.                  *)
ResultByExit(j) ==
  IF monitor[j] = "no exit code" THEN {"KILLED"} ELSE {"PASSED", "FAILED"}

(* The status of _finish_job(), which a requested kill overrides.          *)
Result(j) ==
  IF j \in requested \/ monitor[j] = "no exit code" THEN {"KILLED"} ELSE {"PASSED", "FAILED"}

(* post_finish(), then the callback, or an exception that ends the monitor. *)
MonitorReports(j) ==
  /\ ~closed
  /\ monitor[j] \in {"exit code", "no exit code"}
  /\ \E s \in Result(j) :
       reported' = IF j \in Brittle /\ s = "PASSED"
                     THEN reported
                     ELSE [reported EXCEPT ![j] = Append(@, s)]
  /\ MoveMonitor(j, "done")
  /\ UNCHANGED <<sched, procVars, killer, requested, submitVars, killing, shutdown, closed>>

-----------------------------------------------------------------------------
(* kill_many(), for the jobs in _running: those whose completion the        *)
(* scheduler has yet to handle among them.                                 *)

Killable == {j \in Running : process[j] \in {"running", "reaped"} /\ j \notin requested}

StartKill ==
  /\ Shutdowns /\ ~submitting /\ ~shutdown /\ ~closed
  /\ Running # {}
  /\ requested' = requested \cup Killable
  /\ killer' = [killer EXCEPT !["kill_many"] =
                  [j \in Jobs |-> IF j \in Killable THEN "start" ELSE @[j]]]
  /\ sched' = [j \in Jobs |-> IF sched[j] = "ready" THEN "done" ELSE sched[j]]
  /\ shutdown' = TRUE
  /\ killing' = TRUE
  /\ UNCHANGED <<procVars, monitor, submitVars, reported, closed>>

(* It returns when its tasks are over or, as gather() is not asked for the  *)
(* exceptions, as soon as one of them has raised: the others go on.         *)
KillReturns ==
  /\ killing /\ ~closed
  /\ \/ \A j \in Jobs : killer["kill_many"][j] \in {"none"} \cup Over
     \/ \E j \in Jobs : killer["kill_many"][j] = "raised"
  /\ killing' = FALSE
  /\ UNCHANGED <<sched, procVars, monitor, killer, requested, submitVars, reported,
                 shutdown, closed>>

-----------------------------------------------------------------------------
HandleCompletion(j) ==
  /\ ~submitting /\ ~killing /\ ~closed
  /\ sched[j] = "running" /\ reported[j] # <<>>
  /\ sched' = [sched EXCEPT ![j] = "done"]
  /\ UNCHANGED <<procVars, monitor, killer, requested, submitVars, killing, reported,
                 shutdown, closed>>

Close ==
  /\ ~submitting /\ ~killing /\ ~closed
  /\ \A j \in Jobs : sched[j] = "done"
  /\ closed' = TRUE
  /\ UNCHANGED <<sched, procVars, monitor, killer, requested, submitVars, killing,
                 reported, shutdown>>

Finished == closed /\ UNCHANGED vars

Submitting == \/ SubmitReturns \/ SubmitRaises
              \/ \E j \in Jobs : \/ Launch(j) \/ LaunchFails(j) \/ LaunchInteractive(j)
                                 \/ LaunchBusy(j) \/ LaunchRaises(j)
Killing(c, j) == TermExpires(c, j) \/ KillExpires(c, j) \/ KillWaitEnds(c, j)
Monitoring(j) == MonitorWakes(j) \/ MonitorTimesOut(j) \/ MonitorHasKilled(j) \/ MonitorReports(j)

Next ==
  \/ StartSubmit \/ Submitting \/ StartKill \/ KillReturns \/ Close \/ Finished
  \/ \E j \in Jobs : \/ ProcessEnds(j) \/ ExitNoticed(j) \/ KillStarts(j)
                     \/ \E c \in Callers : Killing(c, j)
                     \/ Monitoring(j) \/ HandleCompletion(j)

Spec == Init /\ [][Next]_vars

(* Every task that can run is run, timers expire, and the processes that    *)
(* are not stuck come to an end.                                           *)
FairSpec ==
  /\ Spec
  /\ WF_vars(Submitting) /\ WF_vars(KillReturns)
  /\ \A j \in Jobs : /\ WF_vars(ExitNoticed(j)) /\ WF_vars(KillStarts(j))
                     /\ WF_vars(Monitoring(j)) /\ SF_vars(HandleCompletion(j))
                     /\ \A c \in Callers : WF_vars(Killing(c, j))
  /\ \A j \in Jobs \ Stuck : WF_vars(ProcessEnds(j))

-----------------------------------------------------------------------------
Accepted(j) == j \in answer \/ sched[j] = "running"

(* A job is never reported to have passed or failed if a signal had a part  *)
(* in its end: the two killers and the monitor agree on who ended it.      *)
ResultsUntouched ==
  \A j \in Jobs : reported[j] # <<>> /\ reported[j][1] # "KILLED" => signals[j] = {}

(* "Kill the running local process, sending SIGTERM and then SIGKILL if     *)
(* that didn't work" (_kill_job()): the backend lets go of a process that   *)
(* still runs only when both were tried, unless psutil found a child gone.  *)
AbandonedOnlyAfterSigkill ==
  \A j \in Jobs \ Vanishing :
    monitor[j] = "done" /\ process[j] = "running" => signals[j] = {"TERM", "KILL"}

(* submit_many() and the scheduler between them, as BackendContract has it. *)
Offer == [j \in Jobs |->
  IF Len(reported[j]) > 1 THEN "repeated"
  ELSE IF Len(reported[j]) = 1 THEN "ended"
  ELSE IF Accepted(j) THEN "live"
  ELSE IF sched[j] # "asked" THEN "none"
  ELSE IF j \in todo THEN "asked"
  ELSE "refused"]

Contract == INSTANCE BackendContract WITH offer <- Offer
KeepsContract == Contract!Spec

(* A job with a handle completes, as the contract wants it, unless an        *)
(* exception has ended the program or, in post_finish(), the job's monitor. *)
CompletesHandles ==
  \A j \in Jobs :
    Offer[j] = "live" ~> (\/ Offer[j] # "live"
                          \/ closed
                          \/ j \in Brittle /\ monitor[j] = "done")

(* kill_many(), which the scheduler waits for, returns whatever the         *)
(* processes do.                                                           *)
KillManyReturns == killing ~> ~killing
=============================================================================
