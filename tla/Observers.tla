------------------------------ MODULE Observers ------------------------------
(***************************************************************************)
(* Those who are told of each change of status: the status printer         *)
(* (scheduler/status_printer.py) and the manager of the links to output    *)
(* directories (scheduler/log_manager.py).  They are driven by             *)
(* JobLifecycle, so that they see every order of changes a scheduler that  *)
(* implements it can make.                                                 *)
(***************************************************************************)
EXTENDS JobLifecycle, Integers, FiniteSets

CONSTANTS Targets,   \* the targets of the jobs: build, run, cov_merge, ...
          TargetOf,  \* TargetOf[j], the target of j
          OldOutput  \* the jobs with an output directory from an earlier run

ASSUME TargetsAssumption ==
  /\ IsFiniteSet(Jobs)
  /\ TargetOf \in [Jobs -> Targets]
  /\ \A t \in Targets : \E j \in Jobs : TargetOf[j] = t
  /\ OldOutput \subseteq Jobs

VARIABLES
  everyEvent,   \* updates_every_event: is the print interval zero
  makesOutput,  \* does the backend make output directories: all but the fake one
  counts,       \* _target_counts
  numFinished,  \* _num_finished
  shown,        \* _running: the names listed for a target
  finishTimed,  \* the targets with a _finish_time
  targetDone,   \* _target_done: the targets that are not printed any more
  lastRow,      \* the counts in the row last printed for a target
  paused,       \* _paused
  stopped,      \* the run is over and stop() has been called
  linked,       \* _links: the status j is linked for, "none" for no entry
  links,        \* the symbolic links in the scratch area
  odirs         \* the jobs whose output directory exists

countVars == <<counts, numFinished, shown>>
rowVars == <<finishTimed, targetDone, lastRow>>
linkVars == <<linked, links, odirs>>
obsVars == <<vars, everyEvent, makesOutput, countVars, rowVars, paused, stopped, linkVars>>

JobsOf(t) == {j \in Jobs : TargetOf[j] = t}
Total(t) == Cardinality(JobsOf(t))
NoRow == [s \in Status |-> -1]
HasLinkDir(s) == s \in Terminal \cup {"RUNNING"}

ObsInit ==
  /\ Init
  /\ everyEvent \in BOOLEAN
  /\ makesOutput \in BOOLEAN
  /\ counts = [t \in Targets |-> [s \in Status |-> IF s = "SCHEDULED" THEN Total(t) ELSE 0]]
  /\ numFinished = [t \in Targets |-> 0]
  /\ shown = [t \in Targets |-> {}]
  /\ finishTimed = {}
  /\ targetDone = {}
  /\ lastRow = [t \in Targets |-> NoRow]
  /\ paused = FALSE
  /\ stopped = FALSE
  /\ linked = [j \in Jobs |-> "none"]
  /\ links = {}
  /\ odirs = OldOutput

-----------------------------------------------------------------------------
(* The status printer.                                                     *)

IsStarted(t) == numFinished'[t] # 0 \/ shown'[t] # {}

(* A mutant of IsDone: a target is done when its last job is left.          *)
IsDoneEarly(t) == numFinished'[t] + 1 >= Total(t)
IsDone(t) == numFinished'[t] >= Total(t)

(* update_all_targets() of a printer that is paused or not: the row of each *)
(* target, and for the last time if it is done.                            *)
UpdateTargets(unstarted, silent) ==
  LET due == {t \in Targets \ targetDone : ~silent /\ (unstarted \/ IsStarted(t))}
  IN /\ lastRow' = [t \in Targets |-> IF t \in due THEN counts'[t] ELSE lastRow[t]]
     /\ targetDone' = targetDone \cup {t \in due : IsDone(t)}

(* A mutant of CountChange: a job that was killed stays in the list.        *)
CountChangeListed(t, j, old, new) ==
  /\ counts' = [counts EXCEPT ![t][old] = @ - 1, ![t][new] = @ + 1]
  /\ shown' = [shown EXCEPT ![t] = IF new = "RUNNING" THEN @ \cup {j}
                                   ELSE IF new \in {"PASSED", "FAILED"} THEN @ \ {j} ELSE @]
  /\ numFinished' = [numFinished EXCEPT ![t] =
       IF old \notin Terminal /\ new \in Terminal THEN @ + 1 ELSE @]

CountChange(t, j, old, new) ==
  /\ counts' = [counts EXCEPT ![t][old] = @ - 1, ![t][new] = @ + 1]
  /\ shown' = [shown EXCEPT ![t] = IF new = "RUNNING" THEN @ \cup {j}
                                   ELSE IF old = "RUNNING" THEN @ \ {j} ELSE @]
  /\ numFinished' = [numFinished EXCEPT ![t] =
       IF old \notin Terminal /\ new \in Terminal THEN @ + 1 ELSE @]

UpdateStatus(j) ==
  LET t == TargetOf[j]
  IN /\ CountChange(t, j, status[j], status'[j])
     /\ \/ /\ everyEvent
           /\ UpdateTargets(FALSE, paused)
           /\ UNCHANGED finishTimed
        \/ /\ ~everyEvent
           /\ finishTimed' = IF IsDone(t) THEN finishTimed \cup {t} ELSE finishTimed
           /\ UNCHANGED <<targetDone, lastRow>>

-----------------------------------------------------------------------------
(* The log manager.  rm_path() follows links, so that it leaves a link to a *)
(* directory that does not exist.                                          *)

Link(j, s) == [job |-> j, dir |-> s]

(* A mutant of LinkOutput: the link for the previous status stays.          *)
LinkOutputTwice(j, s) ==
  IF ~HasLinkDir(s) \/ linked[j] = s
    THEN UNCHANGED <<linked, links>>
    ELSE /\ linked' = [linked EXCEPT ![j] = s]
         /\ links' = links \cup {Link(j, s)}

LinkOutput(j, s) ==
  IF ~HasLinkDir(s) \/ linked[j] = s
    THEN UNCHANGED <<linked, links>>
    ELSE /\ linked' = [linked EXCEPT ![j] = s]
         /\ links' = (links \cup {Link(j, s)})
                       \ {l \in {Link(j, linked[j])} : j \in odirs}

-----------------------------------------------------------------------------
(* Changes of status, with the callbacks of the scheduler in their order.   *)

Notify(j) ==
  /\ ~stopped
  /\ UpdateStatus(j)
  /\ LinkOutput(j, status'[j])
  /\ UNCHANGED <<everyEvent, makesOutput, paused, stopped>>

(* A backend makes the output directory of a job before it runs             *)
(* (_prepare_launch(), Launcher._make_odir()), but the fake one makes none. *)
Launched(j) ==
  /\ Launch(j)
  /\ Notify(j)
  /\ odirs' = IF makesOutput THEN odirs \cup {j} ELSE odirs

Changed(j) ==
  /\ Queue(j) \/ Finish(j) \/ Cancel(j)
  /\ Notify(j)
  /\ UNCHANGED odirs

Signalled ==
  /\ ~stopped
  /\ Signal
  /\ UNCHANGED <<everyEvent, makesOutput, countVars, rowVars, paused, stopped, linkVars>>

(* pause() is called once, by the exit handler.                            *)
Pause ==
  /\ ~stopped /\ ~closing
  /\ Close
  /\ paused' = ~paused
  /\ UNCHANGED countVars
  /\ IF paused /\ everyEvent
       THEN UpdateTargets(FALSE, FALSE)
       ELSE UNCHANGED <<targetDone, lastRow>>
  /\ UNCHANGED <<everyEvent, makesOutput, finishTimed, stopped, linkVars>>

(* _run() prints at each interval.                                         *)
Tick ==
  /\ ~everyEvent /\ ~stopped
  /\ UNCHANGED countVars
  /\ UpdateTargets(FALSE, paused)
  /\ UNCHANGED <<vars, everyEvent, makesOutput, finishTimed, paused, stopped, linkVars>>

(* A mutant of Stop: a printer that is paused remains so.                  *)
StopPaused ==
  /\ ~stopped
  /\ stopped' = TRUE
  /\ UNCHANGED countVars
  /\ UpdateTargets(TRUE, paused)
  /\ UNCHANGED <<vars, everyEvent, makesOutput, finishTimed, paused, linkVars>>

(* The run ends, when its jobs have ended or because of an exception.       *)
Stop ==
  /\ ~stopped
  /\ stopped' = TRUE
  /\ paused' = FALSE
  /\ UNCHANGED countVars
  /\ UpdateTargets(TRUE, FALSE)
  /\ UNCHANGED <<vars, everyEvent, makesOutput, finishTimed, linkVars>>

Over == stopped /\ UNCHANGED obsVars

ObsNext ==
  \/ \E j \in Jobs : Launched(j) \/ Changed(j)
  \/ Signalled \/ Pause \/ Tick \/ Stop \/ Over

ObsSpec == ObsInit /\ [][ObsNext]_obsVars

-----------------------------------------------------------------------------
ObsTypeOK ==
  /\ TypeOK
  /\ everyEvent \in BOOLEAN
  /\ makesOutput \in BOOLEAN
  /\ counts \in [Targets -> [Status -> Nat]]
  /\ numFinished \in [Targets -> Nat]
  /\ shown \in [Targets -> SUBSET Jobs]
  /\ finishTimed \subseteq Targets
  /\ targetDone \subseteq Targets
  /\ lastRow \in [Targets -> [Status -> Int]]
  /\ paused \in BOOLEAN
  /\ stopped \in BOOLEAN
  /\ linked \in [Jobs -> {"none"} \cup Status]
  /\ links \subseteq [job : Jobs, dir : Status]
  /\ odirs \subseteq Jobs

InStatus(t, S) == {j \in JobsOf(t) : status[j] \in S}
TrueRow(t) == [s \in Status |-> Cardinality(InStatus(t, {s}))]

(* The counts, which are adjusted with every change and never computed anew, *)
(* agree with the statuses of the jobs of each target.                      *)
CountsFollow ==
  \A t \in Targets : /\ counts[t] = TrueRow(t)
                     /\ shown[t] = InStatus(t, {"RUNNING"})
                     /\ numFinished[t] = Cardinality(InStatus(t, Terminal))

(* The last row printed for a target is true for good: once it is not        *)
(* printed any more, and at the end whatever the printer was told before,    *)
(* also if it was paused by a shutdown or the run ended with an exception.   *)
(* With a print interval, the time at which it ended is known from then on.  *)
Ended(t) == \A j \in JobsOf(t) : status[j] \in Terminal
LastRowsTrue ==
  \A t \in Targets : /\ t \in targetDone \/ stopped => lastRow[t] = TrueRow(t)
                     /\ t \in finishTimed <=> ~everyEvent /\ Ended(t)

(* The links of the scratch area show each job that runs or has ended under *)
(* its status.  Under another status is at most a link that leads nowhere:  *)
(* that of a job that ran without making an output directory and has ended, *)
(* which rm_path() does not see (fs.py:38).                                 *)
Followed == {Link(j, status[j]) : j \in {k \in Jobs : HasLinkDir(status[k])}}
LinksFollow ==
  /\ Followed \subseteq links
  /\ \A l \in links \ Followed :
       l.dir = "RUNNING" /\ status[l.job] \in Terminal /\ ~makesOutput /\ l.job \notin odirs

(* "Delete the previous symlink if it exists" (log_manager.py:63): no job    *)
(* is linked under two statuses.                                            *)
PreviousLinkDeleted == \A l, m \in links : l.job = m.job => l = m
=============================================================================
