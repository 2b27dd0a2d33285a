---------------------------- MODULE JobLifecycle ----------------------------
(***************************************************************************)
(* What the scheduler promises to whoever handed it a graph of jobs,       *)
(* whatever the backends, the resources and the order of completions: the  *)
(* life of each job as an observer of status changes sees it               *)
(* (`add_job_status_change_callback` in scheduler/core.py), one change of  *)
(* one job at a time.                                                      *)
(***************************************************************************)
CONSTANTS Jobs,      \* the identifiers of the jobs of one run
          Deps,      \* Deps[j]: the jobs that j depends on
          NeedsAll   \* NeedsAll[j]: must every dependency of j pass, or just one

ASSUME GraphAssumption == Deps \in [Jobs -> SUBSET Jobs]

VARIABLES status,    \* status[j], the JobStatus of j
          shutdown,  \* a SIGINT or SIGTERM was received
          closing    \* the scheduler has begun to act on that signal

vars == <<status, shutdown, closing>>

Terminal == {"PASSED", "FAILED", "KILLED"}
Status == {"SCHEDULED", "QUEUED", "RUNNING"} \cup Terminal

(* The outcome of its dependencies allows j to run, or rules it out.  A job *)
(* with no dependencies runs whatever its NeedsAll.                         *)
Settled(j) == \A d \in Deps[j] : status[d] \in Terminal
Allowed(j) == /\ Settled(j)
              /\ \/ Deps[j] = {}
                 \/ NeedsAll[j] /\ \A d \in Deps[j] : status[d] = "PASSED"
                 \/ ~NeedsAll[j] /\ \E d \in Deps[j] : status[d] = "PASSED"
RuledOut(j) == Settled(j) /\ ~Allowed(j)

-----------------------------------------------------------------------------
Init == /\ status = [j \in Jobs |-> "SCHEDULED"]
        /\ shutdown = FALSE
        /\ closing = FALSE

Become(j, s) == status' = [status EXCEPT ![j] = s]

Queue(j) == /\ status[j] = "SCHEDULED"
            /\ Allowed(j)
            /\ Become(j, "QUEUED")
            /\ UNCHANGED <<shutdown, closing>>

Launch(j) == /\ status[j] = "QUEUED"
             /\ ~closing
             /\ Become(j, "RUNNING")
             /\ UNCHANGED <<shutdown, closing>>

Finish(j) == /\ status[j] = "RUNNING"
             /\ \E s \in Terminal : Become(j, s)
             /\ UNCHANGED <<shutdown, closing>>

(* A job ends without having run only because its dependencies rule it out, *)
(* or because of a shutdown: while closing if it was queued, and because    *)
(* one of its dependencies completed after the signal if it was not.        *)
Cancel(j) == /\ \/ status[j] = "SCHEDULED" /\ RuledOut(j)
                \/ /\ status[j] = "SCHEDULED"
                   /\ shutdown
                   /\ \E d \in Deps[j] : status[d] \in Terminal
                \/ status[j] = "QUEUED" /\ closing
             /\ Become(j, "KILLED")
             /\ UNCHANGED <<shutdown, closing>>

Signal == /\ shutdown' = TRUE
          /\ UNCHANGED <<status, closing>>

Close == /\ shutdown
         /\ closing' = TRUE
         /\ UNCHANGED <<status, shutdown>>

Next == \/ Signal
        \/ Close
        \/ \E j \in Jobs : Queue(j) \/ Launch(j) \/ Finish(j) \/ Cancel(j)

Spec == Init /\ [][Next]_vars

-----------------------------------------------------------------------------
TypeOK == /\ status \in [Jobs -> Status]
          /\ shutdown \in BOOLEAN
          /\ closing \in BOOLEAN

(* A job that was queued, or that was run, had dependencies that all ended  *)
(* before it and whose outcomes allow it.                                   *)
DependenciesRespected ==
  \A j \in Jobs : status[j] \in {"QUEUED", "RUNNING", "PASSED", "FAILED"} => Allowed(j)

(* A job that has ended keeps its result.                                   *)
ResultsAreFinal ==
  [][\A j \in Jobs : status[j] \in Terminal => status'[j] = status[j]]_vars
=============================================================================
