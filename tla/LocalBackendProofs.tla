-------------------------- MODULE LocalBackendProofs --------------------------
(***************************************************************************)
(* Theorems about LocalBackend, for every set of jobs and whichever of     *)
(* them meet each kind of event.                                           *)
(***************************************************************************)
EXTENDS LocalBackend, SequenceTheorems, TLAPS

(***************************************************************************)
(* The inductive invariant.                                                *)
(***************************************************************************)
Results == {"PASSED", "FAILED", "KILLED"}
KillStages == {"none", "start", "termwait", "killwait", "over", "raised"}
USE DEF KillStages

TypeOK ==
  /\ sched \in [Jobs -> {"ready", "asked", "running", "done"}]
  /\ process \in [Jobs -> {"none", "running", "reaped", "exited"}]
  /\ signals \in [Jobs -> SUBSET {"TERM", "KILL"}]
  /\ monitor \in [Jobs -> {"none", "waiting", "killing", "exit code", "no exit code", "done"}]
  /\ killer \in [Callers -> [Jobs -> KillStages]]
  /\ requested \subseteq Jobs
  /\ todo \subseteq Jobs
  /\ answer \subseteq Jobs
  /\ found \in [Jobs -> {"none"} \cup Results]
  /\ {submitting, killing, shutdown, closed} \subseteq BOOLEAN
  /\ reported \in [Jobs -> {<<>>} \cup {<<s>> : s \in Results}]

(* A job is launched once, and while submit_many() runs has no more than a *)
(* place in its list, a handle or nothing.                                 *)
LaunchedOnce(j) ==
  /\ sched[j] = "asked" => submitting
  /\ j \in todo \/ j \in answer => sched[j] = "asked"
  /\ ~(j \in todo /\ j \in answer)
  /\ found[j] # "none" => j \in answer /\ process[j] = "none" /\ reported[j] = <<>>
  /\ sched[j] = "ready" \/ (sched[j] = "asked" /\ j \notin answer) =>
       process[j] = "none" /\ reported[j] = <<>>
  /\ process[j] = "none" <=> monitor[j] = "none"
  /\ j \in requested => process[j] # "none"
  /\ sched[j] = "done" /\ process[j] # "none" => reported[j] # <<>>

(* A monitor that has not ended has reported nothing, and one that found   *)
(* an exit code has killed nothing.                                        *)
MonitoredOnce(j) ==
  /\ monitor[j] \notin {"none", "done"} => reported[j] = <<>>
  /\ monitor[j] = "exit code" => process[j] = "exited"
  /\ killer["monitor"][j] # "none" => monitor[j] \in {"killing", "no exit code", "done"}
  /\ monitor[j] \in {"no exit code", "done"} /\ process[j] = "running" =>
       killer["monitor"][j] \in Over

(* A killer signals nothing unknown to the monitor, and gives up on a      *)
(* process that runs only after both signals.                              *)
KilledInOrder(j) ==
  /\ killer["kill_many"][j] # "none" => j \in requested
  /\ signals[j] # {} => \E c \in Callers : killer[c][j] # "none"
  /\ \A c \in Callers :
       /\ killer[c][j] \in Waiting => "TERM" \in signals[j]
       /\ killer[c][j] = "killwait" => "KILL" \in signals[j]
       /\ killer[c][j] \in Over /\ process[j] = "running" /\ j \notin Vanishing =>
            signals[j] = {"TERM", "KILL"}

(* A job that passed or failed had ended before anybody could kill it.     *)
EndedAlone(j) ==
  reported[j] # <<>> /\ reported[j][1] # "KILLED" =>
    /\ process[j] \in {"none", "exited"}
    /\ j \notin requested
    /\ killer["monitor"][j] = "none"

JobInv(j) == LaunchedOnce(j) /\ MonitoredOnce(j) /\ KilledInOrder(j) /\ EndedAlone(j)
IInv == TypeOK /\ \A j \in Jobs : JobInv(j)

LEMMA TypeInit == Init => IInv
<1> SUFFICES ASSUME Init PROVE IInv
  OBVIOUS
<1>1. TypeOK
  BY DEF Init, TypeOK, NoEvents, Callers, Results
<1>2. ASSUME NEW j \in Jobs PROVE JobInv(j)
  BY DEF Init, JobInv, LaunchedOnce, MonitoredOnce, KilledInOrder, EndedAlone,
     NoEvents, Callers, Waiting, Over
<1>3. QED BY <1>1, <1>2 DEF IInv

(***************************************************************************)
(* Type correctness.                                                       *)
(***************************************************************************)
LEMMA KillerTypes ==
  ASSUME TypeOK, NEW c \in Callers, NEW j \in Jobs,
         NEW stage \in KillStages,
         MoveKiller(c, j, stage)
  PROVE  /\ killer' \in [Callers -> [Jobs -> KillStages]]
         /\ killer'[c][j] = stage
         /\ \A d \in Callers, k \in Jobs : d # c \/ k # j => killer'[d][k] = killer[d][k]
BY DEF TypeOK, MoveKiller

(* What sending a signal to the process of j does.                         *)
LEMMA SendTypes ==
  ASSUME TypeOK, NEW c \in Callers, NEW j \in Jobs,
         Send(c, j, "TERM", "termwait") \/ Send(c, j, "KILL", "killwait") \/ SendTerm(c, j)
  PROVE  /\ signals' \in [Jobs -> SUBSET {"TERM", "KILL"}]
         /\ killer' \in [Callers -> [Jobs -> KillStages]]
         /\ \A k \in Jobs \ {j} : signals'[k] = signals[k]
         /\ \A d \in Callers, k \in Jobs : d # c \/ k # j => killer'[d][k] = killer[d][k]
<1>1. ASSUME NEW sig \in {"TERM", "KILL"}, NEW stage \in {"termwait", "killwait"},
             Send(c, j, sig, stage)
      PROVE  /\ signals' \in [Jobs -> SUBSET {"TERM", "KILL"}]
             /\ MoveKiller(c, j, stage) \/ MoveKiller(c, j, "raised")
             /\ \A k \in Jobs \ {j} : signals'[k] = signals[k]
  <2>1. signals \in [Jobs -> SUBSET {"TERM", "KILL"}]
    BY DEF TypeOK
  <2>2. signals[j] \cup {sig} \in SUBSET {"TERM", "KILL"}
    BY <2>1
  <2>3. CASE UNCHANGED signals /\ MoveKiller(c, j, "raised")
    BY <2>1, <2>3
  <2>4. CASE signals' = [signals EXCEPT ![j] = signals[j] \cup {sig}] /\ MoveKiller(c, j, stage)
    BY <2>1, <2>2, <2>4
  <2>5. QED BY <1>1, <2>3, <2>4 DEF Send
<1>2. /\ signals' \in [Jobs -> SUBSET {"TERM", "KILL"}]
      /\ \A k \in Jobs \ {j} : signals'[k] = signals[k]
      /\ \E stage \in {"termwait", "killwait", "over", "raised"} : MoveKiller(c, j, stage)
  BY <1>1 DEF SendTerm, TypeOK
<1>3. QED BY <1>2, KillerTypes

LEMMA ReportTypes ==
  ASSUME NEW s \in Results PROVE Append(<<>>, s) = <<s>>
BY DEF Results

LEMMA TypeStep ==
  ASSUME IInv, [Next]_vars
  PROVE  TypeOK'
<1> USE DEF Results
<1>1. TypeOK
  BY DEF IInv
<1>2. CASE StartSubmit
  BY <1>1, <1>2 DEF StartSubmit, TypeOK, procVars
<1>3. ASSUME NEW j \in Jobs, Launch(j) \/ LaunchFails(j) \/ LaunchBusy(j) \/ LaunchRaises(j)
      PROVE  TypeOK'
  BY <1>1, <1>3 DEF Launch, LaunchFails, LaunchBusy, LaunchRaises, LaunchNext, TypeOK,
     submitVars, procVars
<1>4. ASSUME NEW j \in Jobs, LaunchInteractive(j) PROVE TypeOK'
  BY <1>1, <1>4 DEF LaunchInteractive, LaunchNext, TypeOK
<1>5. CASE SubmitReturns
  <2>1. ASSUME NEW j \in Jobs, found[j] # "none" PROVE reported'[j] \in {<<s>> : s \in Results}
    <3>1. reported[j] = <<>> /\ found[j] \in Results
      BY <1>1, <2>1 DEF IInv, JobInv, LaunchedOnce, TypeOK
    <3>2. reported'[j] = Append(<<>>, found[j])
      BY <1>5, <2>1, <3>1 DEF SubmitReturns
    <3>3. QED BY <3>1, <3>2, ReportTypes
  <2>2. reported' \in [Jobs -> {<<>>} \cup {<<s>> : s \in Results}]
    BY <1>1, <1>5, <2>1 DEF SubmitReturns, TypeOK
  <2>3. QED BY <1>1, <1>5, <2>2 DEF SubmitReturns, TypeOK, NoEvents, procVars
<1>6. CASE SubmitRaises \/ KillReturns \/ Close
  BY <1>1, <1>6 DEF SubmitRaises, KillReturns, Close, TypeOK, procVars, submitVars
<1>7. ASSUME NEW j \in Jobs, ProcessEnds(j) \/ ExitNoticed(j) \/ MonitorWakes(j)
                             \/ MonitorHasKilled(j) \/ HandleCompletion(j)
      PROVE  TypeOK'
  BY <1>1, <1>7 DEF ProcessEnds, ExitNoticed, MonitorWakes, MonitorHasKilled,
     HandleCompletion, MoveMonitor, TypeOK, procVars, submitVars
<1>8. ASSUME NEW j \in Jobs, NEW c \in Callers, KillExpires(c, j) \/ KillWaitEnds(c, j)
      PROVE  TypeOK'
  <2>1. killer' \in [Callers -> [Jobs -> KillStages]]
    BY <1>1, <1>8, KillerTypes DEF KillExpires, KillWaitEnds
  <2>2. QED BY <1>1, <1>8, <2>1 DEF KillExpires, KillWaitEnds, TypeOK, procVars, submitVars
<1>9. ASSUME NEW j \in Jobs, NEW c \in Callers, TermExpires(c, j) PROVE TypeOK'
  <2>1. /\ signals' \in [Jobs -> SUBSET {"TERM", "KILL"}]
        /\ killer' \in [Callers -> [Jobs -> KillStages]]
    BY <1>1, <1>9, SendTypes DEF TermExpires
  <2>2. QED BY <1>1, <1>9, <2>1 DEF TermExpires, TypeOK, submitVars
<1>10. ASSUME NEW j \in Jobs, KillStarts(j) PROVE TypeOK'
  <2>1. /\ signals' \in [Jobs -> SUBSET {"TERM", "KILL"}]
        /\ killer' \in [Callers -> [Jobs -> KillStages]]
    BY <1>1, <1>10, SendTypes DEF KillStarts, Callers
  <2>2. QED BY <1>1, <1>10, <2>1 DEF KillStarts, TypeOK, submitVars
<1>11. ASSUME NEW j \in Jobs, MonitorTimesOut(j) PROVE TypeOK'
  <2>1. /\ signals' \in [Jobs -> SUBSET {"TERM", "KILL"}]
        /\ killer' \in [Callers -> [Jobs -> KillStages]]
    BY <1>1, <1>11, SendTypes DEF MonitorTimesOut, Callers
  <2>2. QED BY <1>1, <1>11, <2>1 DEF MonitorTimesOut, MoveMonitor, TypeOK, submitVars
<1>12. ASSUME NEW j \in Jobs, MonitorReports(j) PROVE TypeOK'
  <2>1. PICK s \in Result(j) : reported' = IF j \in Brittle /\ s = "PASSED"
                                             THEN reported
                                             ELSE [reported EXCEPT ![j] = Append(@, s)]
    BY <1>12 DEF MonitorReports
  <2>2. s \in Results /\ reported[j] = <<>>
    BY <1>12 DEF MonitorReports, Result, IInv, JobInv, MonitoredOnce
  <2>3. reported' \in [Jobs -> {<<>>} \cup {<<t>> : t \in Results}]
    <3>1. reported' = reported \/ reported' = [reported EXCEPT ![j] = <<s>>]
      BY <2>1, <2>2, ReportTypes
    <3>2. <<s>> \in {<<t>> : t \in Results}
      BY <2>2
    <3> HIDE DEF Results
    <3>3. QED BY <1>1, <3>1, <3>2 DEF TypeOK
  <2>4. QED BY <1>1, <1>12, <2>3 DEF MonitorReports, MoveMonitor, TypeOK, procVars, submitVars
<1>13. CASE StartKill
  <2>1. /\ killer' \in [Callers -> [Jobs -> KillStages]]
        /\ requested' \subseteq Jobs
    BY <1>1, <1>13 DEF StartKill, TypeOK, Killable, Running
  <2>2. QED BY <1>1, <1>13, <2>1 DEF StartKill, TypeOK, procVars, submitVars
<1>14. CASE UNCHANGED vars
  BY <1>1, <1>14 DEF vars, procVars, submitVars, TypeOK
<1>15. QED
  BY <1>2, <1>3, <1>4, <1>5, <1>6, <1>7, <1>8, <1>9, <1>10, <1>11, <1>12, <1>13, <1>14
  DEF Next, Submitting, Killing, Monitoring, Finished

(***************************************************************************)
(* What a step does to one job.                                            *)
(***************************************************************************)
Undisturbed(k) ==
  /\ sched'[k] = sched[k] /\ process'[k] = process[k] /\ signals'[k] = signals[k]
  /\ monitor'[k] = monitor[k] /\ found'[k] = found[k] /\ reported'[k] = reported[k]
  /\ \A c \in Callers : killer'[c][k] = killer[c][k]
  /\ k \in requested' <=> k \in requested
  /\ k \in todo' <=> k \in todo
  /\ k \in answer' <=> k \in answer
  /\ submitting => submitting'

LEMMA UndisturbedKeeps ==
  ASSUME NEW k \in Jobs, JobInv(k), Undisturbed(k)
  PROVE  JobInv(k)'
<1>1. LaunchedOnce(k)'
  BY DEF Undisturbed, JobInv, LaunchedOnce
<1>2. MonitoredOnce(k)' /\ EndedAlone(k)'
  BY DEF Undisturbed, JobInv, MonitoredOnce, EndedAlone, Callers
<1>3. KilledInOrder(k)'
  BY DEF Undisturbed, JobInv, KilledInOrder, Callers
<1>4. QED BY <1>1, <1>2, <1>3 DEF JobInv

(* submit_many().                                                          *)
LEMMA LaunchKeeps ==
  ASSUME IInv, TypeOK', NEW j \in Jobs, NEW k \in Jobs,
         Launch(j) \/ LaunchFails(j) \/ LaunchInteractive(j) \/ LaunchBusy(j) \/ LaunchRaises(j)
  PROVE  JobInv(k)'
<1>1. TypeOK /\ JobInv(k) /\ JobInv(j)
  BY DEF IInv
<1>2. CASE k # j \/ LaunchRaises(j)
  <2>1. CASE LaunchRaises(j)
    <3>1. Undisturbed(k)
      BY <2>1 DEF LaunchRaises, Undisturbed, procVars, submitVars
    <3>2. QED BY <1>1, <3>1, UndisturbedKeeps
  <2>2. CASE k # j /\ ~LaunchRaises(j)
    <3>1. LaunchNext(j)
      BY <2>2 DEF Launch, LaunchFails, LaunchInteractive, LaunchBusy
    <3>2. process'[k] = process[k] /\ monitor'[k] = monitor[k] /\ found'[k] = found[k]
      <4>1. DOMAIN process = Jobs /\ DOMAIN monitor = Jobs /\ DOMAIN found = Jobs
        BY <1>1 DEF TypeOK
      <4>2. CASE Launch(j)
        BY <2>2, <4>1, <4>2 DEF Launch
      <4>3. CASE LaunchFails(j)
        BY <2>2, <4>1, <4>3 DEF LaunchFails
      <4>4. CASE LaunchInteractive(j)
        BY <2>2, <4>1, <4>4 DEF LaunchInteractive
      <4>5. CASE LaunchBusy(j)
        BY <4>5 DEF LaunchBusy
      <4>6. QED BY <2>2, <4>2, <4>3, <4>4, <4>5
    <3>3. k \in answer' <=> k \in answer
      BY <2>2 DEF Launch, LaunchFails, LaunchInteractive, LaunchBusy
    <3>4. Undisturbed(k)
      BY <2>2, <3>1, <3>2, <3>3 DEF LaunchNext, Undisturbed
    <3>5. QED BY <1>1, <3>4, UndisturbedKeeps
  <2>3. QED BY <1>2, <2>1, <2>2
<1>3. CASE k = j /\ ~LaunchRaises(j)
  <2>1. /\ j \in todo /\ sched[j] = "asked" /\ j \notin answer
        /\ process[j] = "none" /\ monitor[j] = "none" /\ reported[j] = <<>> /\ found[j] = "none"
        /\ j \notin requested /\ submitting
    BY <1>1, <1>3 DEF Launch, LaunchFails, LaunchInteractive, LaunchBusy, LaunchNext,
       JobInv, LaunchedOnce
  <2>2. /\ todo' = todo \ {j}
        /\ UNCHANGED <<sched, signals, killer, requested, submitting, reported>>
        /\ \/ process'[j] = "running" /\ monitor'[j] = "waiting" /\ answer' = answer \cup {j}
              /\ found'[j] = "none"
           \/ process'[j] = "none" /\ monitor'[j] = "none" /\ answer' = answer \cup {j}
           \/ process'[j] = "none" /\ monitor'[j] = "none" /\ answer' = answer /\ found'[j] = "none"
    BY <1>1, <1>3, <2>1 DEF Launch, LaunchFails, LaunchInteractive, LaunchBusy, LaunchNext, TypeOK
  <2>3. LaunchedOnce(j)'
    BY <2>1, <2>2 DEF LaunchedOnce
  <2>4. killer["monitor"][j] = "none" /\ killer["kill_many"][j] = "none"
    BY <1>1, <2>1 DEF JobInv, MonitoredOnce, KilledInOrder
  <2>5. MonitoredOnce(j)' /\ EndedAlone(j)'
    BY <2>1, <2>2, <2>4 DEF MonitoredOnce, EndedAlone
  <2>6. KilledInOrder(j)'
    BY <1>1, <2>2, <2>4 DEF JobInv, KilledInOrder, Callers, Waiting, Over
  <2>7. QED BY <1>3, <2>3, <2>5, <2>6 DEF JobInv
<1>4. QED BY <1>2, <1>3

LEMMA SubmitKeeps ==
  ASSUME IInv, NEW k \in Jobs, StartSubmit \/ SubmitReturns \/ SubmitRaises
  PROVE  JobInv(k)'
<1>1. TypeOK /\ JobInv(k)
  BY DEF IInv
<1>2. CASE SubmitRaises
  <2>1. Undisturbed(k)
    BY <1>2 DEF SubmitRaises, Undisturbed, procVars, submitVars
  <2>2. QED BY <1>1, <2>1, UndisturbedKeeps
<1>3. CASE StartSubmit
  <2>1. /\ \/ sched'[k] = sched[k] /\ k \notin todo'
           \/ sched[k] = "ready" /\ sched'[k] = "asked" /\ k \in todo'
        /\ ~submitting /\ submitting'
        /\ UNCHANGED <<process, signals, monitor, killer, requested, answer, found, reported>>
    <3>1. PICK S \in SUBSET {i \in Jobs : sched[i] = "ready"} :
            /\ todo' = S
            /\ sched' = [i \in Jobs |-> IF i \in S THEN "asked" ELSE sched[i]]
      BY <1>3 DEF StartSubmit
    <3>2. ~submitting /\ submitting'
      BY <1>3 DEF StartSubmit
    <3>3. UNCHANGED <<process, signals, monitor, killer, requested, answer, found, reported>>
      BY <1>3 DEF StartSubmit, procVars
    <3>4. \/ sched'[k] = sched[k] /\ k \notin todo'
          \/ sched[k] = "ready" /\ sched'[k] = "asked" /\ k \in todo'
      BY <3>1
    <3>5. QED BY <3>2, <3>3, <3>4
  <2>2. LaunchedOnce(k)'
    BY <1>1, <2>1 DEF JobInv, LaunchedOnce
  <2>3. MonitoredOnce(k)' /\ EndedAlone(k)' /\ KilledInOrder(k)'
    BY <1>1, <2>1 DEF JobInv, MonitoredOnce, EndedAlone, KilledInOrder
  <2>4. QED BY <2>2, <2>3 DEF JobInv
<1>4. CASE SubmitReturns
  <2>1. /\ k \notin todo /\ UNCHANGED <<process, signals, monitor, killer, requested, todo>>
        /\ answer' = {} /\ found'[k] = "none" /\ submitting
        /\ sched'[k] = IF sched[k] # "asked" THEN sched[k]
                       ELSE IF k \in answer THEN "running" ELSE "ready"
        /\ reported'[k] = IF found[k] = "none" THEN reported[k] ELSE Append(reported[k], found[k])
    BY <1>1, <1>4 DEF SubmitReturns, TypeOK, procVars, NoEvents
  <2>2. CASE found[k] = "none"
    <3>1. LaunchedOnce(k)'
      BY <1>1, <2>1, <2>2 DEF JobInv, LaunchedOnce
    <3>2. MonitoredOnce(k)' /\ EndedAlone(k)' /\ KilledInOrder(k)'
      BY <1>1, <2>1, <2>2 DEF JobInv, MonitoredOnce, EndedAlone, KilledInOrder
    <3>3. QED BY <3>1, <3>2 DEF JobInv
  <2>3. CASE found[k] # "none"
    <3>1. /\ k \in answer /\ sched[k] = "asked" /\ process[k] = "none" /\ monitor[k] = "none"
          /\ k \notin requested
      BY <1>1, <2>3 DEF JobInv, LaunchedOnce
    <3>2. LaunchedOnce(k)'
      BY <2>1, <3>1 DEF LaunchedOnce
    <3>3. MonitoredOnce(k)' /\ EndedAlone(k)' /\ KilledInOrder(k)'
      BY <1>1, <2>1, <3>1 DEF JobInv, MonitoredOnce, EndedAlone, KilledInOrder
    <3>4. QED BY <3>2, <3>3 DEF JobInv
  <2>4. QED BY <2>2, <2>3
<1>5. QED BY <1>2, <1>3, <1>4

(* Processes.                                                              *)
LEMMA ProcessKeeps ==
  ASSUME IInv, NEW j \in Jobs, NEW k \in Jobs, ProcessEnds(j) \/ ExitNoticed(j)
  PROVE  JobInv(k)'
<1>1. TypeOK /\ JobInv(k)
  BY DEF IInv
<1>2. UNCHANGED <<sched, signals, monitor, killer, requested, todo, answer, found,
                  submitting, reported>>
  BY DEF ProcessEnds, ExitNoticed, submitVars
<1>3. \/ process'[k] = process[k]
      \/ process[k] = "running" /\ process'[k] = "reaped"
      \/ process[k] = "reaped" /\ process'[k] = "exited"
  BY <1>1 DEF ProcessEnds, ExitNoticed, TypeOK
<1>4. LaunchedOnce(k)'
  BY <1>1, <1>2, <1>3 DEF JobInv, LaunchedOnce
<1>5. MonitoredOnce(k)' /\ EndedAlone(k)' /\ KilledInOrder(k)'
  BY <1>1, <1>2, <1>3 DEF JobInv, MonitoredOnce, EndedAlone, KilledInOrder
<1>6. QED BY <1>4, <1>5 DEF JobInv

(* _kill_job(): another signal, or the end.                                *)
Signals(c, j) ==
  /\ process[j] = "running" /\ killer'[c][j] = "termwait" /\ signals'[j] = signals[j] \cup {"TERM"}
Insists(c, j) ==
  /\ process[j] = "running" /\ killer'[c][j] = "killwait" /\ signals'[j] = signals[j] \cup {"KILL"}
  /\ killer[c][j] = "termwait"
LetsGo(c, j) ==
  /\ process[j] # "running" \/ j \in Vanishing \/ killer[c][j] = "killwait"
  /\ killer'[c][j] \in Over /\ signals'[j] = signals[j]

KillsOn(c, j) ==
  /\ Signals(c, j) \/ Insists(c, j) \/ LetsGo(c, j)
  /\ \A k \in Jobs \ {j} : signals'[k] = signals[k]
  /\ \A d \in Callers, k \in Jobs : d # c \/ k # j => killer'[d][k] = killer[d][k]
  /\ UNCHANGED <<process, requested>>

LEMMA TermSent ==
  ASSUME TypeOK, NEW c \in Callers, NEW j \in Jobs, SendTerm(c, j), UNCHANGED <<process, requested>>
  PROVE  KillsOn(c, j)
<1>1. Signals(c, j) \/ LetsGo(c, j)
  <2>1. ASSUME NEW stage \in {"termwait", "over", "raised"}, MoveKiller(c, j, stage)
        PROVE  killer'[c][j] = stage
    BY <2>1, KillerTypes
  <2>2. signals' = [signals EXCEPT ![j] = signals[j] \cup {"TERM"}] =>
          signals'[j] = signals[j] \cup {"TERM"}
    BY DEF TypeOK
  <2>3. QED BY <2>1, <2>2 DEF SendTerm, Send, Signals, LetsGo, Over
<1>2. QED BY <1>1, SendTypes DEF KillsOn

LEMMA KillSent ==
  ASSUME TypeOK, NEW c \in Callers, NEW j \in Jobs, Send(c, j, "KILL", "killwait"),
         killer[c][j] = "termwait", UNCHANGED <<process, requested>>
  PROVE  KillsOn(c, j)
<1>1. Insists(c, j) \/ LetsGo(c, j)
  <2>1. ASSUME NEW stage \in {"killwait", "over", "raised"}, MoveKiller(c, j, stage)
        PROVE  killer'[c][j] = stage
    BY <2>1, KillerTypes
  <2>2. signals' = [signals EXCEPT ![j] = signals[j] \cup {"KILL"}] =>
          signals'[j] = signals[j] \cup {"KILL"}
    BY DEF TypeOK
  <2>3. QED BY <2>1, <2>2 DEF Send, Insists, LetsGo, Over
<1>2. QED BY <1>1, SendTypes DEF KillsOn

LEMMA OrderKept ==
  ASSUME TypeOK, NEW c \in Callers, NEW j \in Jobs, KilledInOrder(j), KillsOn(c, j),
         c = "kill_many" => j \in requested
  PROVE  KilledInOrder(j)'
<1>1. signals[j] \subseteq {"TERM", "KILL"}
  BY DEF TypeOK
<1>2. ASSUME NEW d \in Callers, d # c PROVE killer'[d][j] = killer[d][j]
  BY <1>2 DEF KillsOn
<1>3. UNCHANGED <<process, requested>> /\ killer'[c][j] # "none"
  BY DEF KillsOn, Signals, Insists, LetsGo, Over
<1>4. \/ signals'[j] = signals[j]
      \/ signals'[j] = signals[j] \cup {"TERM"}
      \/ signals'[j] = signals[j] \cup {"KILL"}
  BY DEF KillsOn, Signals, Insists, LetsGo
<1>5. killer'["kill_many"][j] # "none" => j \in requested'
  BY <1>2, <1>3 DEF KilledInOrder, Callers
<1>6. ASSUME NEW d \in Callers, d # c
      PROVE  /\ killer'[d][j] \in Waiting => "TERM" \in signals'[j]
             /\ killer'[d][j] = "killwait" => "KILL" \in signals'[j]
             /\ killer'[d][j] \in Over /\ process'[j] = "running" /\ j \notin Vanishing =>
                  signals'[j] = {"TERM", "KILL"}
  <2>1. /\ killer[d][j] \in Waiting => "TERM" \in signals[j]
        /\ killer[d][j] = "killwait" => "KILL" \in signals[j]
        /\ killer[d][j] \in Over /\ process[j] = "running" /\ j \notin Vanishing =>
             signals[j] = {"TERM", "KILL"}
    BY DEF KilledInOrder
  <2>2. signals[j] = {"TERM", "KILL"} => signals'[j] = {"TERM", "KILL"}
    BY <1>4
  <2>3. signals[j] \subseteq signals'[j]
    BY <1>4
  <2>4. QED BY <1>2, <1>3, <1>6, <2>1, <2>2, <2>3
<1>7. /\ killer'[c][j] \in Waiting => "TERM" \in signals'[j]
      /\ killer'[c][j] = "killwait" => "KILL" \in signals'[j]
      /\ killer'[c][j] \in Over /\ process'[j] = "running" /\ j \notin Vanishing =>
           signals'[j] = {"TERM", "KILL"}
  <2>1. /\ killer[c][j] \in Waiting => "TERM" \in signals[j]
        /\ killer[c][j] = "killwait" => "KILL" \in signals[j]
    BY DEF KilledInOrder
  <2>2. CASE Signals(c, j)
    BY <2>2 DEF Signals, Over
  <2>3. CASE Insists(c, j)
    BY <2>1, <2>3 DEF Insists, Waiting, Over
  <2>4. CASE LetsGo(c, j)
    <3>1. killer'[c][j] \in Over
      BY <2>4 DEF LetsGo
    <3>2. killer'[c][j] \notin Waiting /\ killer'[c][j] # "killwait"
      BY <3>1 DEF Over, Waiting
    <3>3. ASSUME process'[j] = "running", j \notin Vanishing
          PROVE  signals'[j] = {"TERM", "KILL"}
      <4>1. killer[c][j] = "killwait" /\ signals'[j] = signals[j]
        BY <1>3, <2>4, <3>3 DEF LetsGo
      <4>2. "TERM" \in signals[j] /\ "KILL" \in signals[j]
        BY <2>1, <4>1 DEF Waiting
      <4>3. QED BY <1>1, <4>1, <4>2
    <3>4. QED BY <3>2, <3>3
  <2>5. QED BY <2>2, <2>3, <2>4 DEF KillsOn
<1>8. QED BY <1>3, <1>5, <1>6, <1>7 DEF KilledInOrder

LEMMA KillerKeeps ==
  ASSUME IInv, NEW c \in Callers, NEW j \in Jobs, NEW k \in Jobs,
         \/ TermExpires(c, j) \/ KillExpires(c, j) \/ KillWaitEnds(c, j)
         \/ c = "kill_many" /\ KillStarts(j)
  PROVE  JobInv(k)'
<1>1. TypeOK /\ JobInv(k)
  BY DEF IInv
<1>2. /\ UNCHANGED <<sched, process, monitor, requested, todo, answer, found, submitting, reported>>
      /\ killer[c][j] \in {"start"} \cup Waiting
      /\ killer[c][j] = "start" => c = "kill_many"
  BY DEF TermExpires, KillExpires, KillWaitEnds, KillStarts, submitVars, procVars, Waiting
<1>3. KillsOn(c, j)
  <2>1. CASE TermExpires(c, j)
    BY <1>1, <1>2, <2>1, KillSent DEF TermExpires
  <2>2. CASE KillStarts(j) /\ c = "kill_many"
    BY <1>1, <1>2, <2>2, TermSent DEF KillStarts
  <2>3. CASE KillExpires(c, j) \/ KillWaitEnds(c, j)
    <3>1. /\ MoveKiller(c, j, "over") /\ signals' = signals
          /\ killer[c][j] = "killwait" \/ process[j] = "exited"
      BY <2>3 DEF KillExpires, KillWaitEnds, procVars
    <3>2. /\ killer'[c][j] \in Over
          /\ \A d \in Callers, i \in Jobs : d # c \/ i # j => killer'[d][i] = killer[d][i]
      BY <1>1, <3>1, KillerTypes DEF Over
    <3>3. QED BY <1>2, <3>1, <3>2 DEF KillsOn, LetsGo, Over
  <2>4. QED BY <2>1, <2>2, <2>3
<1>4. CASE k # j
  <2>1. Undisturbed(k)
    BY <1>2, <1>3, <1>4 DEF Undisturbed, KillsOn
  <2>2. QED BY <1>1, <2>1, UndisturbedKeeps
<1>5. CASE k = j
  <2>1. killer'[c][j] # "none" /\ killer[c][j] # "none"
    BY <1>2, <1>3 DEF KillsOn, Signals, Insists, LetsGo, Waiting, Over
  <2>2. c # "monitor" => killer'["monitor"][j] = killer["monitor"][j]
    BY <1>3 DEF KillsOn, Callers
  <2>3. LaunchedOnce(j)'
    BY <1>1, <1>2, <1>5 DEF JobInv, LaunchedOnce
  <2>4. MonitoredOnce(j)'
    <3>1. CASE c = "monitor"
      <4>1. killer["monitor"][j] \notin Over
        BY <1>2, <3>1 DEF Over, Waiting
      <4>2. QED BY <1>1, <1>2, <1>5, <2>1, <3>1, <4>1 DEF JobInv, MonitoredOnce
    <3>2. CASE c # "monitor"
      BY <1>1, <1>2, <1>5, <2>2, <3>2 DEF JobInv, MonitoredOnce
    <3>3. QED BY <3>1, <3>2
  <2>5. EndedAlone(j)'
    BY <1>1, <1>2, <1>5, <2>1, <2>2 DEF JobInv, EndedAlone
  <2>6. KilledInOrder(j)'
    <3>1. c = "kill_many" => j \in requested
      BY <1>1, <1>5, <2>1 DEF JobInv, KilledInOrder
    <3>2. QED BY <1>1, <1>3, <1>5, <3>1, OrderKept DEF JobInv
  <2>7. QED BY <1>5, <2>3, <2>4, <2>5, <2>6 DEF JobInv
<1>6. QED BY <1>4, <1>5

(* _monitor_job().                                                         *)
LEMMA MonitorKeeps ==
  ASSUME IInv, NEW j \in Jobs, NEW k \in Jobs, Monitoring(j)
  PROVE  JobInv(k)'
<1>1. TypeOK /\ JobInv(k)
  BY DEF IInv
<1>2. /\ UNCHANGED <<sched, process, requested, todo, answer, found, submitting>>
      /\ monitor[j] \in {"waiting", "killing", "exit code", "no exit code"}
      /\ monitor'[j] \in {"exit code", "killing", "no exit code", "done"}
      /\ \A i \in Jobs \ {j} : monitor'[i] = monitor[i]
  <2>1. ASSUME NEW stage, MoveMonitor(j, stage)
        PROVE  monitor'[j] = stage /\ \A i \in Jobs \ {j} : monitor'[i] = monitor[i]
    BY <1>1, <2>1 DEF MoveMonitor, TypeOK
  <2>2. QED BY <2>1 DEF Monitoring, MonitorWakes, MonitorTimesOut, MonitorHasKilled,
                   MonitorReports, submitVars, procVars
<1>3. CASE k # j
  <2>1. /\ signals'[k] = signals[k] /\ \A c \in Callers : killer'[c][k] = killer[c][k]
        /\ reported'[k] = reported[k]
    <3>1. CASE MonitorTimesOut(j)
      <4>1. SendTerm("monitor", j) /\ reported' = reported /\ "monitor" \in Callers
        BY <3>1 DEF MonitorTimesOut, Callers
      <4>2. QED BY <1>1, <1>3, <4>1, SendTypes
    <3>2. CASE MonitorReports(j)
      BY <1>1, <1>3, <3>2 DEF MonitorReports, TypeOK, procVars
    <3>3. CASE MonitorWakes(j) \/ MonitorHasKilled(j)
      BY <3>3 DEF MonitorWakes, MonitorHasKilled, procVars
    <3>4. QED BY <3>1, <3>2, <3>3 DEF Monitoring
  <2>2. Undisturbed(k)
    BY <1>2, <1>3, <2>1 DEF Undisturbed
  <2>3. QED BY <1>1, <2>2, UndisturbedKeeps
<1>4. CASE k = j
  <2> SUFFICES JobInv(j)'
    BY <1>4
  <2>1. JobInv(j) /\ reported[j] = <<>> /\ process[j] # "none"
    BY <1>1, <1>2, <1>4 DEF JobInv, MonitoredOnce, LaunchedOnce
  <2>2. ASSUME reported'[j] # <<>> => sched[j] # "ready" /\ (sched[j] = "asked" => j \in answer)
                                      /\ found[j] = "none"
        PROVE  LaunchedOnce(j)'
    BY <1>2, <2>1, <2>2 DEF JobInv, LaunchedOnce
  <2>3. sched[j] # "ready" /\ (sched[j] = "asked" => j \in answer) /\ found[j] = "none"
    BY <2>1 DEF JobInv, LaunchedOnce
  <2>4. LaunchedOnce(j)'
    BY <2>2, <2>3
  <2>5. CASE MonitorWakes(j) \/ MonitorHasKilled(j)
    <3>1. /\ UNCHANGED <<signals, killer, reported>>
          /\ \/ monitor[j] = "waiting" /\ process[j] = "exited" /\ monitor'[j] = "exit code"
             \/ monitor[j] = "killing" /\ killer["monitor"][j] \in Over /\ monitor'[j] = "no exit code"
      BY <1>1, <2>5 DEF MonitorWakes, MonitorHasKilled, MoveMonitor, TypeOK, procVars
    <3>2. MonitoredOnce(j)' /\ EndedAlone(j)' /\ KilledInOrder(j)'
      BY <1>2, <2>1, <3>1 DEF JobInv, MonitoredOnce, EndedAlone, KilledInOrder
    <3>3. QED BY <2>4, <3>2 DEF JobInv
  <2>6. CASE MonitorTimesOut(j)
    <3>1. /\ SendTerm("monitor", j) /\ UNCHANGED <<process, requested, reported>>
          /\ "monitor" \in Callers /\ monitor[j] = "waiting" /\ monitor'[j] = "killing"
      BY <1>1, <2>6 DEF MonitorTimesOut, MoveMonitor, TypeOK, Callers
    <3>2. KillsOn("monitor", j)
      BY <1>1, <3>1, TermSent
    <3>3. KilledInOrder(j)'
      BY <1>1, <2>1, <3>1, <3>2, OrderKept DEF JobInv
    <3>4. MonitoredOnce(j)' /\ EndedAlone(j)'
      BY <2>1, <3>1 DEF MonitoredOnce, EndedAlone
    <3>5. QED BY <2>4, <3>3, <3>4 DEF JobInv
  <2>7. CASE MonitorReports(j)
    <3>1. /\ UNCHANGED <<signals, killer>> /\ monitor'[j] = "done"
          /\ monitor[j] \in {"exit code", "no exit code"}
      BY <1>1, <2>7 DEF MonitorReports, MoveMonitor, TypeOK, procVars
    <3>2. PICK s \in Result(j) : reported' = IF j \in Brittle /\ s = "PASSED"
                                               THEN reported
                                               ELSE [reported EXCEPT ![j] = Append(@, s)]
      BY <2>7 DEF MonitorReports
    <3>3. s \in Results
      BY DEF Result, Results
    <3>4. reported'[j] = <<>> \/ reported'[j] = <<s>>
      BY <1>1, <2>1, <3>2, <3>3, ReportTypes DEF TypeOK
    <3>5. s # "KILLED" => j \notin requested /\ monitor[j] = "exit code"
      BY <3>1 DEF Result
    <3>6. MonitoredOnce(j)'
      BY <1>2, <2>1, <3>1 DEF JobInv, MonitoredOnce
    <3>7. KilledInOrder(j)'
      BY <1>2, <2>1, <3>1 DEF JobInv, KilledInOrder
    <3>8. EndedAlone(j)'
      <4>1. s # "KILLED" => process[j] = "exited" /\ killer["monitor"][j] = "none"
        BY <2>1, <3>5 DEF JobInv, MonitoredOnce
      <4>2. <<s>>[1] = s
        OBVIOUS
      <4>3. QED BY <1>2, <3>1, <3>4, <3>5, <4>1, <4>2 DEF EndedAlone
    <3>9. QED BY <2>4, <3>6, <3>7, <3>8 DEF JobInv
  <2>8. QED BY <2>5, <2>6, <2>7 DEF Monitoring
<1>5. QED BY <1>3, <1>4

(* kill_many() and the scheduler.                                          *)
LEMMA StartKillKeeps ==
  ASSUME IInv, NEW k \in Jobs, StartKill
  PROVE  JobInv(k)'
<1>1. TypeOK /\ JobInv(k)
  BY DEF IInv
<1>2. /\ UNCHANGED <<process, signals, monitor, todo, answer, found, submitting, reported>>
      /\ sched'[k] = IF sched[k] = "ready" THEN "done" ELSE sched[k]
      /\ k \in requested' <=> k \in requested \/ k \in Killable
  BY <1>1 DEF StartKill, TypeOK, procVars, submitVars
<1>3. /\ killer'["monitor"][k] = killer["monitor"][k]
      /\ killer'["kill_many"][k] = IF k \in Killable THEN "start" ELSE killer["kill_many"][k]
  BY <1>1 DEF StartKill, TypeOK, Callers
<1>4. k \in Killable => process[k] \in {"running", "reaped"} /\ k \notin requested
  BY DEF Killable
<1>5. LaunchedOnce(k)'
  BY <1>1, <1>2, <1>4 DEF JobInv, LaunchedOnce
<1>6. MonitoredOnce(k)' /\ EndedAlone(k)'
  BY <1>1, <1>2, <1>3, <1>4 DEF JobInv, MonitoredOnce, EndedAlone
<1>7. KilledInOrder(k)'
  <2>1. \A c \in Callers : killer'[c][k] = killer[c][k] \/ killer'[c][k] = "start"
    BY <1>3 DEF Callers
  <2>2. killer'["kill_many"][k] # "none" => k \in requested'
    BY <1>1, <1>2, <1>3 DEF JobInv, KilledInOrder
  <2>3. signals'[k] # {} => \E c \in Callers : killer'[c][k] # "none"
    BY <1>1, <1>2, <2>1 DEF JobInv, KilledInOrder
  <2>4. QED BY <1>1, <1>2, <2>1, <2>2, <2>3 DEF JobInv, KilledInOrder, Waiting, Over
<1>8. QED BY <1>5, <1>6, <1>7 DEF JobInv

LEMMA HandlingKeeps ==
  ASSUME IInv, NEW j \in Jobs, NEW k \in Jobs, HandleCompletion(j)
  PROVE  JobInv(k)'
<1>1. TypeOK /\ JobInv(k)
  BY DEF IInv
<1>2. /\ UNCHANGED <<process, signals, monitor, killer, requested, todo, answer, found,
                     submitting, reported>>
      /\ \/ sched'[k] = sched[k]
         \/ sched[k] = "running" /\ sched'[k] = "done" /\ reported[k] # <<>>
  BY <1>1 DEF HandleCompletion, TypeOK, procVars, submitVars
<1>3. LaunchedOnce(k)'
  BY <1>1, <1>2 DEF JobInv, LaunchedOnce
<1>4. MonitoredOnce(k)' /\ EndedAlone(k)' /\ KilledInOrder(k)'
  BY <1>1, <1>2 DEF JobInv, MonitoredOnce, EndedAlone, KilledInOrder
<1>5. QED BY <1>3, <1>4 DEF JobInv

LEMMA InvariantStep == IInv /\ [Next]_vars => IInv'
<1> SUFFICES ASSUME IInv, [Next]_vars PROVE IInv'
  OBVIOUS
<1>1. TypeOK'
  BY TypeStep
<1>2. ASSUME NEW k \in Jobs PROVE JobInv(k)'
  <2>1. CASE KillReturns \/ Close \/ UNCHANGED vars
    <3>1. Undisturbed(k)
      BY <2>1 DEF KillReturns, Close, vars, procVars, submitVars, Undisturbed
    <3>2. QED BY <3>1, UndisturbedKeeps DEF IInv
  <2>2. QED BY <1>1, <2>1, LaunchKeeps, SubmitKeeps, ProcessKeeps, KillerKeeps, MonitorKeeps,
               StartKillKeeps, HandlingKeeps
            DEF Next, Submitting, Killing, Finished, Callers
<1>3. QED BY <1>1, <1>2 DEF IInv

(* Each job of the backend is launched once, monitored once, killed in the *)
(* order of the signals, and reported alone.                               *)
THEOREM InvariantHolds == Spec => []IInv
<1>1. QED BY TypeInit, InvariantStep, PTL DEF Spec

(***************************************************************************)
(* What it comes to.                                                       *)
(***************************************************************************)

(* A result other than KILLED means that neither the timeout nor a         *)
(* shutdown sent the process of the job a signal.                          *)
THEOREM ResultsAreUntouched == Spec => []ResultsUntouched
<1>1. IInv => ResultsUntouched
  BY DEF IInv, JobInv, EndedAlone, KilledInOrder, Callers, ResultsUntouched
<1>2. QED BY <1>1, InvariantHolds, PTL

(* _kill_job() gives up on a process that runs only after SIGTERM and      *)
(* SIGKILL, whether the timeout or a shutdown called it first.             *)
THEOREM SigkillBeforeAbandoning == Spec => []AbandonedOnlyAfterSigkill
<1>1. IInv => AbandonedOnlyAfterSigkill
  <2> SUFFICES ASSUME IInv, NEW j \in Jobs, j \notin Vanishing,
                      monitor[j] = "done", process[j] = "running"
               PROVE  signals[j] = {"TERM", "KILL"}
    BY DEF AbandonedOnlyAfterSigkill
  <2>1. killer["monitor"][j] \in Over
    BY DEF IInv, JobInv, MonitoredOnce
  <2>2. QED BY <2>1 DEF IInv, JobInv, KilledInOrder, Callers
<1>2. QED BY <1>1, InvariantHolds, PTL

(***************************************************************************)
(* The contract with the scheduler.                                        *)
(***************************************************************************)

(* What Offer says of a job, without its sequence.                         *)
Stage(r, accepted, s, listed) ==
  IF r # <<>> THEN "ended"
  ELSE IF accepted THEN "live"
  ELSE IF s # "asked" THEN "none"
  ELSE IF listed THEN "asked"
  ELSE "refused"

LEMMA OfferValue ==
  ASSUME NEW j \in Jobs
  PROVE  TypeOK => Offer[j] = Stage(reported[j], Accepted(j), sched[j], j \in todo)
<1> SUFFICES ASSUME TypeOK
             PROVE  Offer[j] = Stage(reported[j], Accepted(j), sched[j], j \in todo)
  OBVIOUS
<1>1. \/ reported[j] = <<>> /\ Len(reported[j]) = 0
      \/ reported[j] # <<>> /\ Len(reported[j]) = 1
  <2>1. reported[j] = <<>> \/ \E s \in Results : reported[j] = <<s>>
    BY DEF TypeOK
  <2>2. Len(<<>>) = 0 /\ \A s \in Results : Len(<<s>>) = 1 /\ <<s>> # <<>>
    OBVIOUS
  <2>3. QED BY <2>1, <2>2
<1> DEFINE n == Len(reported[j])
<1>2. Offer[j] = IF n > 1 THEN "repeated"
                 ELSE IF n = 1 THEN "ended"
                 ELSE IF j \in answer \/ sched[j] = "running" THEN "live"
                 ELSE IF sched[j] # "asked" THEN "none"
                 ELSE IF j \in todo THEN "asked"
                 ELSE "refused"
  BY DEF Offer, Accepted
<1>3. (n = 0 /\ reported[j] = <<>>) \/ (n = 1 /\ reported[j] # <<>>)
  BY <1>1
<1> HIDE DEF n
<1>4. QED BY <1>2, <1>3 DEF Stage, Accepted

LEMMA OfferNext ==
  ASSUME NEW j \in Jobs, TypeOK'
  PROVE  Offer'[j] = Stage(reported'[j], Accepted(j)', sched'[j], j \in todo')
<1>1. (TypeOK => Offer[j] = Stage(reported[j], Accepted(j), sched[j], j \in todo))'
  BY OfferValue, PTL
<1>2. QED BY <1>1 DEF Stage

LEMMA OfferKept ==
  ASSUME TypeOK, TypeOK', NEW k \in Jobs,
         sched'[k] = sched[k], reported'[k] = reported[k],
         k \in todo' <=> k \in todo, k \in answer' <=> k \in answer
  PROVE  Offer'[k] = Offer[k]
<1>1. Accepted(k)' <=> Accepted(k)
  BY DEF Accepted
<1>2. QED BY <1>1, OfferValue, OfferNext DEF Stage

(* The step that a step of the backend is in the contract.                 *)
Moved(k) == \/ Contract!Ask(k) \/ Contract!Requeue(k) \/ Contract!Answer(k)
            \/ Contract!Report(k) \/ Contract!Repeat(k) \/ Offer'[k] = Offer[k]

LEMMA SubmitMoves ==
  ASSUME IInv, IInv', NEW k \in Jobs, StartSubmit \/ SubmitReturns
  PROVE  Moved(k)
<1>1. TypeOK /\ TypeOK' /\ LaunchedOnce(k) /\ LaunchedOnce(k)'
  BY DEF IInv, JobInv
<1>2. /\ Offer[k] = Stage(reported[k], Accepted(k), sched[k], k \in todo)
      /\ Offer'[k] = Stage(reported'[k], Accepted(k)', sched'[k], k \in todo')
  BY <1>1, OfferValue, OfferNext
<1>3. CASE StartSubmit
  <2>1. PICK S \in SUBSET {i \in Jobs : sched[i] = "ready"} :
          /\ todo' = S
          /\ sched' = [i \in Jobs |-> IF i \in S THEN "asked" ELSE sched[i]]
    BY <1>3 DEF StartSubmit
  <2>2. ~submitting /\ answer' = answer /\ reported' = reported
    BY <1>3 DEF StartSubmit
  <2>3. CASE k \in S
    <3>1. Offer[k] = "none"
      BY <1>1, <1>2, <2>1, <2>3 DEF LaunchedOnce, Accepted, Stage
    <3>2. Offer'[k] = "asked"
      BY <1>1, <1>2, <2>1, <2>2, <2>3 DEF LaunchedOnce, Accepted, Stage
    <3>3. QED BY <3>1, <3>2 DEF Moved, Contract!Ask, Contract!Moves
  <2>4. CASE k \notin S
    <3>1. sched'[k] = sched[k] /\ k \notin todo' /\ k \notin todo
      BY <1>1, <2>1, <2>2, <2>4 DEF LaunchedOnce
    <3>2. QED BY <1>1, <2>2, <3>1, OfferKept DEF Moved
  <2>5. QED BY <2>3, <2>4
<1>4. CASE SubmitReturns
  <2>1. /\ k \notin todo /\ k \notin todo' /\ answer' = {}
        /\ sched'[k] = IF sched[k] # "asked" THEN sched[k]
                       ELSE IF k \in answer THEN "running" ELSE "ready"
        /\ reported'[k] = IF found[k] = "none" THEN reported[k] ELSE Append(reported[k], found[k])
    BY <1>4 DEF SubmitReturns
  <2>2. CASE found[k] # "none"
    <3>1. /\ k \in answer /\ reported[k] = <<>> /\ found[k] \in Results
      BY <1>1, <2>2 DEF LaunchedOnce, TypeOK
    <3>2. reported'[k] = <<found[k]>>
      BY <2>1, <2>2, <3>1, ReportTypes
    <3>3. Offer[k] = "live" /\ Offer'[k] = "ended"
      BY <1>2, <3>1, <3>2 DEF Accepted, Stage
    <3>4. QED BY <3>3 DEF Moved, Contract!Report, Contract!Moves
  <2>3. CASE found[k] = "none" /\ sched[k] = "asked" /\ k \notin answer
    <3>1. Offer[k] = "refused" /\ Offer'[k] = "none"
      BY <1>1, <1>2, <2>1, <2>3 DEF LaunchedOnce, Accepted, Stage
    <3>2. QED BY <3>1 DEF Moved, Contract!Requeue, Contract!Moves
  <2>4. CASE found[k] = "none" /\ ~(sched[k] = "asked" /\ k \notin answer)
    <3>1. reported'[k] = reported[k] /\ (Accepted(k)' <=> Accepted(k))
      BY <1>1, <2>1, <2>4 DEF LaunchedOnce, Accepted
    <3>2. Offer'[k] = Offer[k]
      BY <1>2, <2>1, <2>4, <3>1 DEF Stage, Accepted
    <3>3. QED BY <3>2 DEF Moved
  <2>5. QED BY <2>2, <2>3, <2>4
<1>5. QED BY <1>3, <1>4

LEMMA LaunchMoves ==
  ASSUME IInv, IInv', NEW j \in Jobs, NEW k \in Jobs,
         Launch(j) \/ LaunchFails(j) \/ LaunchInteractive(j) \/ LaunchBusy(j)
  PROVE  Moved(k)
<1>1. TypeOK /\ TypeOK' /\ LaunchedOnce(k)
  BY DEF IInv, JobInv
<1>2. /\ LaunchNext(j) /\ j \in todo
      /\ answer' = answer \cup {j} \/ answer' = answer
  BY DEF Launch, LaunchFails, LaunchInteractive, LaunchBusy, LaunchNext
<1>3. sched' = sched /\ reported' = reported /\ todo' = todo \ {j}
  BY <1>2 DEF LaunchNext
<1>4. CASE k # j
  BY <1>1, <1>2, <1>3, <1>4, OfferKept DEF Moved
<1>5. CASE k = j
  <2>1. sched[k] = "asked" /\ k \notin answer /\ k \in todo /\ reported[k] = <<>> /\ k \notin todo'
    BY <1>1, <1>2, <1>3, <1>5 DEF LaunchedOnce
  <2>2. Offer[k] = "asked"
    BY <1>1, <2>1, OfferValue DEF Accepted, Stage
  <2>3. Offer'[k] \in {"live", "refused"}
    BY <1>1, <1>3, <2>1, OfferNext DEF Stage
  <2>4. QED BY <2>2, <2>3 DEF Moved, Contract!Answer, Contract!Moves
<1>6. QED BY <1>4, <1>5

LEMMA ReportMoves ==
  ASSUME IInv, IInv', NEW j \in Jobs, NEW k \in Jobs, MonitorReports(j)
  PROVE  Moved(k)
<1>1. TypeOK /\ TypeOK' /\ LaunchedOnce(k) /\ MonitoredOnce(k)
  BY DEF IInv, JobInv
<1>2. UNCHANGED <<sched, todo, answer>>
  BY DEF MonitorReports, submitVars
<1>3. CASE reported'[k] = reported[k]
  BY <1>1, <1>2, <1>3, OfferKept DEF Moved
<1>4. CASE reported'[k] # reported[k]
  <2>1. k = j /\ monitor[k] \in {"exit code", "no exit code"}
    BY <1>1, <1>4 DEF MonitorReports, TypeOK
  <2>2. reported[k] = <<>> /\ process[k] # "none"
    BY <1>1, <2>1 DEF MonitoredOnce, LaunchedOnce
  <2>3. sched[k] # "ready" /\ (sched[k] = "asked" => k \in answer) /\ sched[k] # "done"
    BY <1>1, <2>2 DEF LaunchedOnce
  <2>4. Offer[k] = "live"
    BY <1>1, <2>2, <2>3, OfferValue DEF Accepted, Stage, TypeOK
  <2>5. Offer'[k] = "ended"
    BY <1>1, <1>4, <2>2, OfferNext DEF Stage
  <2>6. QED BY <2>4, <2>5 DEF Moved, Contract!Report, Contract!Moves
<1>5. QED BY <1>3, <1>4

LEMMA HandlingMoves ==
  ASSUME IInv, IInv', NEW j \in Jobs, NEW k \in Jobs, HandleCompletion(j)
  PROVE  Moved(k)
<1>1. TypeOK /\ TypeOK'
  BY DEF IInv
<1>2. UNCHANGED <<reported, todo, answer>>
  BY DEF HandleCompletion, submitVars
<1>3. CASE sched'[k] = sched[k]
  BY <1>1, <1>2, <1>3, OfferKept DEF Moved
<1>4. CASE sched'[k] # sched[k]
  <2>1. reported[k] # <<>>
    BY <1>1, <1>4 DEF HandleCompletion, TypeOK
  <2>2. Offer[k] = "ended" /\ Offer'[k] = "ended"
    BY <1>1, <1>2, <2>1, OfferValue, OfferNext DEF Stage
  <2>3. QED BY <2>2 DEF Moved
<1>5. QED BY <1>3, <1>4

LEMMA StartKillMoves ==
  ASSUME IInv, IInv', NEW k \in Jobs, StartKill
  PROVE  Moved(k)
<1>1. TypeOK /\ TypeOK'
  BY DEF IInv
<1>2. UNCHANGED <<reported, todo, answer>>
  BY DEF StartKill, submitVars
<1>3. sched'[k] = IF sched[k] = "ready" THEN "done" ELSE sched[k]
  BY DEF StartKill
<1>4. Accepted(k)' <=> Accepted(k)
  BY <1>2, <1>3 DEF Accepted
<1>5. Offer'[k] = Offer[k]
  BY <1>1, <1>2, <1>3, <1>4, OfferValue, OfferNext DEF Stage
<1>6. QED BY <1>5 DEF Moved

LEMMA ContractStep == IInv /\ IInv' /\ [Next]_vars => [Contract!Next]_Offer
<1> SUFFICES ASSUME IInv, IInv', [Next]_vars PROVE [Contract!Next]_Offer
  OBVIOUS
<1>1. TypeOK /\ TypeOK'
  BY DEF IInv
<1>2. ASSUME NEW k \in Jobs PROVE Moved(k)
  <2>1. CASE UNCHANGED <<sched, reported, todo, answer>>
    BY <1>1, <2>1, OfferKept DEF Moved
  <2>2. CASE SubmitRaises \/ KillReturns \/ Close \/ UNCHANGED vars
             \/ \E j \in Jobs : \/ ProcessEnds(j) \/ ExitNoticed(j) \/ KillStarts(j)
                                \/ \E c \in Callers : Killing(c, j)
                                \/ MonitorWakes(j) \/ MonitorTimesOut(j) \/ MonitorHasKilled(j)
                                \/ LaunchRaises(j)
    <3>1. UNCHANGED <<sched, reported, todo, answer>>
      BY <2>2 DEF SubmitRaises, KillReturns, Close, ProcessEnds, ExitNoticed, KillStarts,
         Killing, TermExpires, KillExpires, KillWaitEnds, MonitorWakes, MonitorTimesOut,
         MonitorHasKilled, LaunchRaises, submitVars, vars
    <3>2. QED BY <2>1, <3>1
  <2>3. QED BY <1>1, <2>2, SubmitMoves, LaunchMoves, ReportMoves, HandlingMoves, StartKillMoves
            DEF Next, Submitting, Monitoring, Finished
<1>3. Offer' \in [Jobs -> Contract!Offer]
  <2>1. ASSUME NEW k \in Jobs PROVE Offer'[k] \in Contract!Offer
    BY <1>1, <2>1, OfferNext DEF Stage, Contract!Offer
  <2>2. Offer' = [k \in Jobs |-> Offer'[k]]
    BY DEF Offer
  <2>3. QED BY <2>1, <2>2
<1>4. QED BY <1>2, <1>3 DEF Moved, Contract!Next

LEMMA ContractInit == Init => Contract!Init
<1> SUFFICES ASSUME Init PROVE Contract!Init
  OBVIOUS
<1>1. \A j \in Jobs : Offer[j] = "none"
  <2>1. ASSUME NEW j \in Jobs PROVE Offer[j] = "none"
    <3>1. TypeOK
      BY TypeInit DEF IInv
    <3>2. QED BY <3>1, OfferValue DEF Init, Stage, Accepted
  <2>2. QED BY <2>1
<1>2. Offer = [j \in Jobs |-> Offer[j]]
  BY DEF Offer
<1>3. QED BY <1>1, <1>2 DEF Contract!Init

(* LocalRuntimeBackend does what RuntimeBackend asks of a backend: every   *)
(* job it is handed it accepts or refuses in one answer, and it reports    *)
(* the completion only of a job that it accepted.                          *)
THEOREM LocalBackendKeepsContract == Spec => KeepsContract
<1>1. QED BY ContractInit, ContractStep, InvariantHolds, PTL DEF Spec, KeepsContract, Contract!Spec

(* Its monitors, its launches that failed and its kills never report a job *)
(* twice: it uses less than the contract allows.                           *)
THEOREM LocalBackendReportsOnce == Spec => []Contract!CompletedOnce
<1>1. IInv => Contract!CompletedOnce
  BY OfferValue DEF IInv, Contract!CompletedOnce, Stage
<1>2. QED BY <1>1, InvariantHolds, PTL
=============================================================================
