---------------------------- MODULE LegacyAdapter ----------------------------
(***************************************************************************)
(* The backend that runs jobs through polled launchers: runtime/legacy.py  *)
(* with what launcher/slurm.py and launcher/nc.py do in launch(), poll()   *)
(* and kill().                                                             *)
(*                                                                         *)
(* submit_many(), kill_many() and a round of the poller never suspend, so  *)
(* each of them runs to its end once begun; `turn` is the one that runs,   *)
(* "loop" when the event loop may choose another.  Only the processes,     *)
(* which exit by themselves, are concurrent with them.                     *)
(***************************************************************************)
EXTENDS Integers, Sequences, FiniteSets, SequencesExt

CONSTANTS
  Jobs,
  MaxPolls,      \* max_polls_per_interval, 0 for no limit
  BusyHosts,     \* the jobs whose launch may raise LauncherBusyError
  LaunchErrors,  \* the jobs whose launch may raise LauncherError
  LogErrors,     \* the jobs whose poll may raise LauncherError (slurm.py)
  TimeLimited,   \* the jobs that poll() may find to have timed out (nc.py)
  Brittle,       \* the jobs whose post_finish() raises if they passed
  OwnStatus,     \* does poll() return self.status (nc.py) or its first
                 \* finding (slurm.py)
  Shutdowns      \* may the scheduler call kill_many()

ASSUME AdapterAssumption ==
  /\ MaxPolls \in Nat
  /\ BusyHosts \cup LaunchErrors \cup LogErrors \cup TimeLimited \cup Brittle \subseteq Jobs
  /\ OwnStatus \in BOOLEAN /\ Shutdowns \in BOOLEAN

VARIABLES
  sched,      \* what the scheduler holds j to be
  process,    \* launcher.process of j: "none" for None
  pending,    \* the jobs with a launcher in _pending_launchers
  pollQueue,  \* the jobs of the handles in _poll_queue, in order
  polling,    \* handles_to_poll, those not yet polled in this round
  todo,       \* the jobs that submit_many() or kill_many() has still to do
  answer,     \* the jobs that have a handle in `handles` of submit_many()
  found,      \* the `completions` of the call that runs, "none" for no event
  poller,     \* _poller_task is not None
  turn,       \* "loop", "submit", "poll" or "kill"
  reported,   \* the completions emitted for j, oldest first
  shutdown,   \* kill_many() has been called
  closed      \* _closed

batchVars == <<todo, answer, found>>
vars == <<sched, process, pending, pollQueue, polling, batchVars, poller, turn,
          reported, shutdown, closed>>

NoEvents == [j \in Jobs |-> "none"]
Running == {j \in Jobs : sched[j] = "running"}

Init ==
  /\ sched = [j \in Jobs |-> "ready"]
  /\ process = [j \in Jobs |-> "none"]
  /\ pending = {}
  /\ pollQueue = <<>>
  /\ polling = <<>>
  /\ todo = {}
  /\ answer = {}
  /\ found = NoEvents
  /\ poller = FALSE
  /\ turn = "loop"
  /\ reported = [j \in Jobs |-> <<>>]
  /\ shutdown = FALSE
  /\ closed = FALSE

(* _emit_completion(): post_finish() of each event, then the callback.  It  *)
(* raises, and reports nothing, if one of the post_finish() does.          *)
EmitRaises == \E j \in Brittle : found[j] = "PASSED"
Emit ==
  /\ reported' = [j \in Jobs |-> IF found[j] = "none" THEN reported[j]
                                                      ELSE Append(reported[j], found[j])]
  /\ found' = NoEvents

Find(j, s) == found' = [found EXCEPT ![j] = s]

-----------------------------------------------------------------------------
(* submit_many().  Its batch is empty if the scheduler could launch none of *)
(* the jobs it popped for this backend.                                    *)
StartSubmit ==
  /\ turn = "loop" /\ ~shutdown /\ ~closed
  /\ \E j \in Jobs : sched[j] = "ready"
  /\ \E S \in SUBSET {j \in Jobs : sched[j] = "ready"} :
       /\ todo' = S
       /\ sched' = [j \in Jobs |-> IF j \in S THEN "asked" ELSE sched[j]]
  /\ poller' = TRUE
  /\ turn' = "submit"
  /\ UNCHANGED <<process, pending, pollQueue, polling, answer, found, reported,
                 shutdown, closed>>

(* A launcher that was launched, or failed to be, gets a handle.           *)
HandOut(j) ==
  /\ turn = "submit" /\ j \in todo
  /\ todo' = todo \ {j}
  /\ pending' = pending \ {j}
  /\ pollQueue' = Append(pollQueue, j)
  /\ answer' = answer \cup {j}
  /\ UNCHANGED <<sched, polling, poller, turn, reported, shutdown, closed>>

Launch(j) ==
  /\ HandOut(j)
  /\ process' = [process EXCEPT ![j] = "running"]
  /\ UNCHANGED found

LaunchFails(j) ==
  /\ j \in LaunchErrors
  /\ HandOut(j)
  /\ Find(j, "KILLED")
  /\ UNCHANGED process

LaunchBusy(j) ==
  /\ j \in BusyHosts
  /\ turn = "submit" /\ j \in todo
  /\ todo' = todo \ {j}
  /\ pending' = pending \cup {j}
  /\ UNCHANGED <<sched, process, pollQueue, polling, answer, found, poller, turn,
                 reported, shutdown, closed>>

(* A mutant of SubmitReturns: jobs without a handle are not requeued.      *)
SubmitReturnsAll ==
  /\ turn = "submit" /\ todo = {}
  /\ sched' = [j \in Jobs |-> IF sched[j] = "asked" THEN "running" ELSE sched[j]]
  /\ answer' = {}
  /\ Emit
  /\ turn' = "loop"
  /\ UNCHANGED <<process, pending, pollQueue, polling, todo, poller, shutdown, closed>>

(* The scheduler marks the jobs with a handle running, and requeues others. *)
SubmitReturns ==
  /\ turn = "submit" /\ todo = {}
  /\ sched' = [j \in Jobs |-> IF sched[j] # "asked" THEN sched[j]
                              ELSE IF j \in answer THEN "running" ELSE "ready"]
  /\ answer' = {}
  /\ Emit
  /\ turn' = "loop"
  /\ UNCHANGED <<process, pending, pollQueue, polling, todo, poller, shutdown, closed>>

-----------------------------------------------------------------------------
(* A round of _poller().                                                   *)

RoundLength == IF MaxPolls = 0 \/ MaxPolls > Len(pollQueue) THEN Len(pollQueue) ELSE MaxPolls

(* A mutant of StartRound: the slice that is left is one handle short.     *)
StartRoundLosing ==
  /\ turn = "loop" /\ poller /\ ~closed
  /\ polling' = SubSeq(pollQueue, 1, RoundLength)
  /\ pollQueue' = SubSeq(pollQueue, RoundLength + 2, Len(pollQueue))
  /\ turn' = "poll"
  /\ UNCHANGED <<sched, process, pending, batchVars, poller, reported, shutdown, closed>>

StartRound ==
  /\ turn = "loop" /\ poller /\ ~closed
  /\ polling' = SubSeq(pollQueue, 1, RoundLength)
  /\ pollQueue' = SubSeq(pollQueue, RoundLength + 1, Len(pollQueue))
  /\ turn' = "poll"
  /\ UNCHANGED <<sched, process, pending, batchVars, poller, reported, shutdown, closed>>

(* poll() of the next launcher of the round returns.                       *)
Polled(j) ==
  /\ turn = "poll" /\ polling # <<>> /\ j = Head(polling)
  /\ process[j] # "none"
  /\ polling' = Tail(polling)
  /\ UNCHANGED <<sched, pending, todo, answer, poller, turn, reported, shutdown, closed>>

(* A mutant of PollRunning: the handle is not queued again.                *)
PollRunningOnce(j) ==
  /\ Polled(j)
  /\ process[j] = "running"
  /\ UNCHANGED <<process, pollQueue, found>>

PollRunning(j) ==
  /\ Polled(j)
  /\ process[j] = "running"
  /\ pollQueue' = Append(pollQueue, j)
  /\ UNCHANGED <<process, found>>

(* _post_finish() of the launcher: the status it records, and the one that  *)
(* poll() returns; the mutant of the latter ignores the former.            *)
Recorded(j, s) == IF j \in Brittle /\ s = "PASSED" THEN "FAILED" ELSE s
ReturnedFirst(j, s) == s
Returned(j, s) == IF OwnStatus THEN Recorded(j, s) ELSE s

PollExited(j) ==
  /\ Polled(j)
  /\ process[j] = "exited"
  /\ \E s \in {"PASSED", "FAILED"} : Find(j, Returned(j, s))
  /\ process' = [process EXCEPT ![j] = "none"]
  /\ UNCHANGED pollQueue

PollTimesOut(j) ==
  /\ j \in TimeLimited
  /\ Polled(j)
  /\ process[j] = "running"
  /\ Find(j, "KILLED")
  /\ process' = [process EXCEPT ![j] = "none"]
  /\ UNCHANGED pollQueue

PollFails(j) ==
  /\ j \in LogErrors
  /\ Polled(j)
  /\ process[j] = "exited"
  /\ Find(j, "KILLED")
  /\ UNCHANGED <<process, pollQueue>>

(* What the round leaves when an exception ends the poller.                *)
PollerDies ==
  /\ poller' = FALSE
  /\ polling' = <<>>
  /\ found' = NoEvents
  /\ turn' = "loop"

(* poll() asserts that there is a process.                                 *)
PollAborts ==
  /\ turn = "poll" /\ polling # <<>>
  /\ process[Head(polling)] = "none"
  /\ PollerDies
  /\ UNCHANGED <<sched, process, pending, pollQueue, todo, answer, reported, shutdown, closed>>

EndRound ==
  /\ turn = "poll" /\ polling = <<>>
  /\ ~EmitRaises
  /\ Emit
  /\ turn' = "loop"
  /\ UNCHANGED <<sched, process, pending, pollQueue, polling, todo, answer, poller,
                 shutdown, closed>>

EmitAborts ==
  /\ turn = "poll" /\ polling = <<>>
  /\ EmitRaises
  /\ PollerDies
  /\ UNCHANGED <<sched, process, pending, pollQueue, todo, answer, reported, shutdown, closed>>

-----------------------------------------------------------------------------
(* A mutant of StartKill: all handles are dropped, not those it kills.     *)
StartKillDropping ==
  /\ Shutdowns /\ turn = "loop" /\ ~shutdown /\ ~closed
  /\ Running # {}
  /\ todo' = Running
  /\ sched' = [j \in Jobs |-> IF sched[j] = "ready" THEN "done" ELSE sched[j]]
  /\ shutdown' = TRUE
  /\ turn' = "kill"
  /\ pollQueue' = <<>>
  /\ UNCHANGED <<process, pending, polling, answer, found, poller, reported, closed>>

(* kill_many(), which the exit handler of the scheduler calls for the jobs  *)
(* in _running: those whose completion it has yet to handle among them.    *)
StartKill ==
  /\ Shutdowns /\ turn = "loop" /\ ~shutdown /\ ~closed
  /\ Running # {}
  /\ todo' = Running
  /\ sched' = [j \in Jobs |-> IF sched[j] = "ready" THEN "done" ELSE sched[j]]
  /\ shutdown' = TRUE
  /\ turn' = "kill"
  /\ UNCHANGED <<process, pending, pollQueue, polling, answer, found, poller,
                 reported, closed>>

(* A mutant of Kill: the handle stays in the poll queue.                   *)
KillQueuedStill(j) ==
  /\ turn = "kill" /\ j \in todo
  /\ process[j] # "none"
  /\ process' = [process EXCEPT ![j] = "none"]
  /\ Find(j, "KILLED")
  /\ todo' = todo \ {j}
  /\ UNCHANGED <<sched, pending, pollQueue, polling, answer, poller, turn, reported,
                 shutdown, closed>>

Kill(j) ==
  /\ turn = "kill" /\ j \in todo
  /\ process[j] # "none"
  /\ process' = [process EXCEPT ![j] = "none"]
  /\ Find(j, "KILLED")
  /\ todo' = todo \ {j}
  /\ pollQueue' = RemoveFirst(pollQueue, j)
  /\ UNCHANGED <<sched, pending, polling, answer, poller, turn, reported, shutdown, closed>>

(* A mutant of KillAborts: a job whose process was reaped is reported again. *)
KillReaped(j) ==
  /\ turn = "kill" /\ j \in todo
  /\ process[j] = "none"
  /\ todo' = todo \ {j}
  /\ Find(j, "KILLED")
  /\ UNCHANGED <<sched, process, pending, pollQueue, polling, answer, poller, turn,
                 reported, shutdown, closed>>

(* kill() asserts that there is a process; the scheduler gathers the        *)
(* exception and goes on.                                                  *)
KillAborts(j) ==
  /\ turn = "kill" /\ j \in todo
  /\ process[j] = "none"
  /\ todo' = {}
  /\ found' = NoEvents
  /\ turn' = "loop"
  /\ UNCHANGED <<sched, process, pending, pollQueue, polling, answer, poller,
                 reported, shutdown, closed>>

KillReturns ==
  /\ turn = "kill" /\ todo = {}
  /\ Emit
  /\ turn' = "loop"
  /\ UNCHANGED <<sched, process, pending, pollQueue, polling, todo, answer, poller,
                 shutdown, closed>>

-----------------------------------------------------------------------------
(* The scheduler, the processes, and the end of the run.                   *)

HandleCompletion(j) ==
  /\ turn = "loop"
  /\ sched[j] = "running" /\ reported[j] # <<>>
  /\ sched' = [sched EXCEPT ![j] = "done"]
  /\ UNCHANGED <<process, pending, pollQueue, polling, batchVars, poller, turn,
                 reported, shutdown, closed>>

ProcessExits(j) ==
  /\ process[j] = "running"
  /\ process' = [process EXCEPT ![j] = "exited"]
  /\ UNCHANGED <<sched, pending, pollQueue, polling, batchVars, poller, turn,
                 reported, shutdown, closed>>

Close ==
  /\ turn = "loop" /\ ~closed
  /\ \A j \in Jobs : sched[j] = "done"
  /\ closed' = TRUE
  /\ poller' = FALSE
  /\ UNCHANGED <<sched, process, pending, pollQueue, polling, batchVars, turn,
                 reported, shutdown>>

Finished == closed /\ UNCHANGED vars

(* What runs on once it has begun.                                         *)
Going ==
  \/ SubmitReturns \/ PollAborts \/ EndRound \/ EmitAborts \/ KillReturns
  \/ \E j \in Jobs : \/ Launch(j) \/ LaunchFails(j) \/ LaunchBusy(j)
                     \/ PollRunning(j) \/ PollExited(j) \/ PollTimesOut(j) \/ PollFails(j)
                     \/ Kill(j) \/ KillAborts(j)

Next ==
  \/ Going \/ StartSubmit \/ StartRound \/ StartKill \/ Close \/ Finished
  \/ \E j \in Jobs : HandleCompletion(j) \/ ProcessExits(j)

Spec == Init /\ [][Next]_vars

(* The event loop serves its callbacks in turn, the poller among them, and  *)
(* the processes of jobs come to an end.                                   *)
FairSpec == /\ Spec
            /\ WF_vars(Going)
            /\ SF_vars(StartRound)
            /\ \A j \in Jobs : SF_vars(HandleCompletion(j)) /\ WF_vars(ProcessExits(j))

-----------------------------------------------------------------------------
Times(j, s) == Cardinality({i \in DOMAIN s : s[i] = j})
Accepted(j) == j \in answer \/ sched[j] = "running"

(* Between its handle and its completion a job is in the poll queue, in the *)
(* round or among its findings, once: none is dropped and none polled twice *)
(* in a round, whatever MaxPolls cuts off.                                 *)
HandlesTracked ==
  \A j \in Jobs :
    Times(j, pollQueue) + Times(j, polling) + (IF found[j] # "none" THEN 1 ELSE 0)
      = IF Accepted(j) /\ reported[j] = <<>> THEN 1 ELSE 0

(* A process that was launched and not reaped is always one the poller will *)
(* come to, even if kill_many() was left half-way: no process is orphaned.  *)
NoProcessUnwatched ==
  \A j \in Jobs : process[j] # "none" => Times(j, pollQueue) + Times(j, polling) = 1

(* "This function must only be called after running self.dispatch_cmd() and *)
(* must not be called again once it has returned PASSED or FAILED"          *)
(* (launcher/slurm.py): the poller never polls outside this window.        *)
PolledInWindow == polling # <<>> => process[Head(polling)] # "none"

(* submit_many() and the scheduler between them, as BackendContract has it. *)
Offer == [j \in Jobs |->
  IF Len(reported[j]) > 1 THEN "repeated"
  ELSE IF Len(reported[j]) = 1 THEN "ended"
  ELSE IF Accepted(j) THEN "live"
  ELSE IF sched[j] # "asked" THEN "none"
  ELSE IF j \in todo THEN "asked"
  ELSE "refused"]

Contract == INSTANCE BackendContract WITH offer <- Offer
KeepsContract == Contract!Spec
CompletesHandles == Contract!HandlesComplete
CompletesOnce == Contract!CompletedOnce

(* A job whose clean-up fails after it passed is reported as a failure      *)
(* (launcher/base.py: "If it's cleanup task failed, then mark the job as    *)
(* failed").                                                               *)
CleanupFailuresReported ==
  \A j \in Brittle : sched[j] = "running" ~>
                       reported[j] # <<>> /\ reported[j][1] # "PASSED"

(* "Killed jobs should still "complete"" (kill_many()).                     *)
KilledJobsComplete ==
  \A j \in Jobs : shutdown /\ sched[j] = "running" ~> sched[j] = "done"
=============================================================================
