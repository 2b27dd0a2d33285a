-------------------------- MODULE JobLifecycleProofs --------------------------
(***************************************************************************)
(* Theorems about JobLifecycle, for every graph of jobs.                   *)
(***************************************************************************)
EXTENDS JobLifecycle, TLAPS

USE GraphAssumption

LEMMA TypeStep == TypeOK /\ [Next]_vars => TypeOK'
BY DEF TypeOK, Next, vars, Queue, Launch, Finish, Cancel, Signal, Close,
   Become, Status, Terminal

(* A status is always one of those of JobStatus.                           *)
THEOREM TypeCorrect == Spec => []TypeOK
<1>1. Init => TypeOK
  BY DEF Init, TypeOK, Status
<1>2. QED BY <1>1, TypeStep, PTL DEF Spec

LEMMA FinalStep ==
  TypeOK /\ [Next]_vars =>
    \A j \in Jobs : status[j] \in Terminal => status'[j] = status[j]
BY DEF TypeOK, Next, vars, Queue, Launch, Finish, Cancel, Signal, Close,
   Become, Status, Terminal

(* The result of a job, once an observer has been told of it, stays.       *)
THEOREM FinalResults == Spec => ResultsAreFinal
<1>1. TypeOK /\ [Next]_vars =>
        [\A j \in Jobs : status[j] \in Terminal => status'[j] = status[j]]_vars
  BY FinalStep
<1>2. QED BY <1>1, TypeCorrect, PTL DEF Spec, ResultsAreFinal

Begun == {"QUEUED", "RUNNING", "PASSED", "FAILED"}

(* The results that allow a job to run are final, so that it stays allowed. *)
LEMMA StaysAllowed ==
  ASSUME TypeOK, [Next]_vars, NEW j \in Jobs, Allowed(j)
  PROVE  Allowed(j)'
<1>1. \A d \in Deps[j] : d \in Jobs /\ status[d] \in Terminal
  BY DEF Allowed, Settled
<1>2. \A d \in Deps[j] : status'[d] = status[d]
  BY <1>1, FinalStep
<1>3. QED BY <1>1, <1>2 DEF Allowed, Settled

LEMMA RespectedStep == TypeOK /\ DependenciesRespected /\ [Next]_vars => DependenciesRespected'
<1> SUFFICES ASSUME TypeOK, DependenciesRespected, [Next]_vars,
                    NEW j \in Jobs, status'[j] \in Begun
             PROVE  Allowed(j)'
  BY DEF DependenciesRespected, Begun
<1>1. Allowed(j)
  <2>1. status[j] \in Begun \/ Queue(j)
    BY DEF TypeOK, Next, vars, Queue, Launch, Finish, Cancel, Signal, Close,
       Become, Begun, Status, Terminal
  <2>2. QED BY <2>1 DEF Queue, DependenciesRespected, Begun
<1>2. QED BY <1>1, StaysAllowed

(* No job is queued, run or passed unless all its dependencies ended before *)
(* with results that allow it, and they keep those results.                *)
THEOREM OrderRespected == Spec => []DependenciesRespected
<1>1. Init => DependenciesRespected
  BY DEF Init, DependenciesRespected
<1>2. QED BY <1>1, RespectedStep, TypeCorrect, PTL DEF Spec
=============================================================================
