--------------------------- MODULE SchedulerProofs ---------------------------
(***************************************************************************)
(* Theorems about Scheduler, for every job graph, set of backends and      *)
(* limits that its assumptions allow.                                      *)
(***************************************************************************)
EXTENDS Scheduler, SequenceTheorems, FiniteSetTheorems, TLAPS

USE JobsAssumption, LimitsAssumption, OutcomesAssumption

(***************************************************************************)
(* Type correctness.                                                       *)
(***************************************************************************)
LEMMA CompletedTypes ==
  ASSUME TypeOK, NEW j \in Jobs, NEW s \in Terminal,
         NEW left \in [Jobs -> SUBSET Jobs], MarkCompleted(j, s, left)
  PROVE  /\ status' \in [Jobs -> Status]
         /\ running' \subseteq Jobs
         /\ perBackend' \in [Backends -> Int]
         /\ usage' \in [Resources -> Int]
         /\ stack' \in Seq(Jobs)
         /\ untold' \in [Jobs -> SUBSET Jobs]
<1>1. status' \in [Jobs -> Status] /\ running' \subseteq Jobs
  BY DEF TypeOK, MarkCompleted, Status
<1>2. perBackend' \in [Backends -> Int]
  BY DEF TypeOK, MarkCompleted
<1>3. usage' \in [Resources -> Int]
  BY DEF TypeOK, MarkCompleted, Release
<1>4. stack' \in Seq(Jobs)
  <2>1. <<j>> \in Seq(Jobs) /\ stack \in Seq(Jobs)
    BY DEF TypeOK
  <2>2. QED BY <2>1, ConcatProperties DEF MarkCompleted
<1>5. untold' \in [Jobs -> SUBSET Jobs]
  BY DEF MarkCompleted, Dependents
<1>6. QED BY <1>1, <1>2, <1>3, <1>4, <1>5

LEMMA CountTypes ==
  ASSUME TypeOK, NEW j \in Jobs, NEW d \in Jobs, CountDependency(j, d)
  PROVE  remaining' \in [Jobs -> Int] /\ passing' \in [Jobs -> Int]
<1>1. remaining \in [Jobs -> Int] /\ passing \in [Jobs -> Int]
  BY DEF TypeOK
<1>2. QED BY <1>1 DEF CountDependency

LEMMA ToldTypes ==
  ASSUME TypeOK, NEW j \in Jobs, NEW d \in Jobs
  PROVE  Told(j, d) \in [Jobs -> SUBSET Jobs]
BY DEF TypeOK, Told

LEMMA TypeInit == Init => TypeOK
<1> SUFFICES ASSUME Init PROVE TypeOK OBVIOUS
<1>1. remaining \in [Jobs -> Int]
  <2>1. \A j \in Jobs : IsFiniteSet(Deps[j])
    BY FS_Subset
  <2>2. \A j \in Jobs : Cardinality(Deps[j]) \in Int
    BY <2>1, FS_CardinalityType
  <2>3. QED BY <2>2 DEF Init
<1>2. queue \in Seq(Completion) /\ batch \in Seq(Completion) /\ stack \in Seq(Jobs)
  BY EmptySeq DEF Init
<1>3. /\ status \in [Jobs -> Status]
      /\ offer \in [Jobs -> Offer]
      /\ pc \in Places
  BY DEF Init, Status, Offer, Places, Suspended
<1>4. /\ passing \in [Jobs -> Int]
      /\ heap \in [Jobs -> Nat]
      /\ perBackend \in [Backends -> Int]
      /\ usage \in [Resources -> Int]
      /\ untold \in [Jobs -> SUBSET Jobs]
  BY DEF Init
<1>5. /\ killRequested = {} /\ running = {} /\ launching = {} /\ blocked = {}
      /\ signal = FALSE /\ shutdownEvent = "unset" /\ shutdownStarted = FALSE
  BY DEF Init
<1>6. QED BY <1>1, <1>2, <1>3, <1>4, <1>5 DEF TypeOK

LEMMA TypeStep == TypeOK /\ [Next]_vars => TypeOK'
<1> SUFFICES ASSUME TypeOK, [Next]_vars PROVE TypeOK' OBVIOUS
<1> USE DEF TypeOK, Terminal
<1>1. ASSUME StartLoop \/ Submitted \/ AfterScheduling \/ WakeForCompletion
             \/ CompletionsHandled \/ AwaitKills \/ KillsReturned
             \/ HandleExitSignal \/ Signal \/ SetShutdownEvent
      PROVE  TypeOK'
  BY <1>1 DEF StartLoop, Submitted, AfterScheduling, WakeForCompletion,
     CompletionsHandled, AwaitKills, KillsReturned, HandleExitSignal, Signal,
     SetShutdownEvent, Places, Suspended, heapVars, loadVars, depVars,
     callVars, signalVars
<1>2. ASSUME NEW j \in Jobs, StartReady(j) PROVE TypeOK'
  BY <1>2 DEF StartReady, MarkReady, Push, Status, loadVars, depVars,
     callVars, signalVars
<1>3. ASSUME NEW j \in Jobs, SelectToLaunch(j) \/ SelectBlocked(j) PROVE TypeOK'
  <2>1. heap' \in [Jobs -> Nat]
    <3>1. heap[j] > 0 /\ heap' = [heap EXCEPT ![j] = @ - 1]
      BY <1>3 DEF SelectToLaunch, SelectBlocked, IsTop, Pop
    <3>2. heap \in [Jobs -> Nat]
      OBVIOUS
    <3>3. QED BY <3>1, <3>2
  <2>2. usage' \in [Resources -> Int]
    BY <1>3 DEF SelectToLaunch, SelectBlocked, TryAllocate, loadVars
  <2>3. QED BY <1>3, <2>1, <2>2
            DEF SelectToLaunch, SelectBlocked, loadVars, depVars, callVars, signalVars
<1>4. CASE Submit
  BY <1>4 DEF Submit, Offer, Places, Suspended, loadVars, depVars, callVars,
     signalVars
<1>5. ASSUME NEW j \in Jobs, MarkRunning(j) PROVE TypeOK'
  BY <1>5 DEF MarkRunning, Status, depVars, callVars, signalVars
<1>6. ASSUME NEW j \in Jobs, Requeue(j) PROVE TypeOK'
  BY <1>6 DEF Requeue, Push, Release, Offer, depVars, callVars, signalVars
<1>7. CASE DrainCompletions
  BY <1>7 DEF DrainCompletions, Places, heapVars, loadVars, depVars,
     callVars, signalVars
<1>8. CASE HandleCompletion
  <2>1. batch' \in Seq(Completion) /\ Head(batch) \in Completion
    BY <1>8, HeadTailProperties DEF HandleCompletion
  <2>2. Head(batch).job \in Jobs /\ Head(batch).status \in Terminal
    BY <2>1 DEF Completion
  <2>3. QED BY <1>8, <2>1, <2>2, CompletedTypes
            DEF HandleCompletion, heapVars, loadVars, depVars, callVars, signalVars
<1>9. ASSUME NEW j \in Jobs, NEW d \in Jobs,
             ReadyDependent(j, d) \/ PassOverDependent(j, d)
      PROVE  TypeOK'
  <2>1. remaining' \in [Jobs -> Int] /\ passing' \in [Jobs -> Int]
    BY <1>9, CountTypes DEF ReadyDependent, PassOverDependent
  <2>2. untold' \in [Jobs -> SUBSET Jobs]
    BY <1>9, ToldTypes DEF ReadyDependent, PassOverDependent
  <2>3. status' \in [Jobs -> Status] /\ heap' \in [Jobs -> Nat]
    <3>1. CASE ReadyDependent(j, d)
      BY <3>1 DEF ReadyDependent, MarkReady, Push, Status
    <3>2. CASE PassOverDependent(j, d)
      BY <3>2 DEF PassOverDependent, heapVars
    <3>3. QED BY <1>9, <3>1, <3>2
  <2>4. QED BY <1>9, <2>1, <2>2, <2>3
            DEF ReadyDependent, PassOverDependent, heapVars, loadVars, signalVars
<1>10. ASSUME NEW j \in Jobs, NEW d \in Jobs, KillDependent(j, d) PROVE TypeOK'
  <2>1. Told(j, d) \in [Jobs -> SUBSET Jobs] /\ "KILLED" \in Terminal
    BY ToldTypes
  <2>2. MarkCompleted(d, "KILLED", Told(j, d))
    BY <1>10 DEF KillDependent
  <2>3. /\ status' \in [Jobs -> Status]
        /\ running' \subseteq Jobs
        /\ perBackend' \in [Backends -> Int]
        /\ usage' \in [Resources -> Int]
        /\ stack' \in Seq(Jobs)
        /\ untold' \in [Jobs -> SUBSET Jobs]
    BY <2>1, <2>2, CompletedTypes DEF TypeOK
  <2>4. remaining' \in [Jobs -> Int] /\ passing' \in [Jobs -> Int]
    BY <1>10, CountTypes DEF KillDependent
  <2>5. QED BY <1>10, <2>3, <2>4 DEF KillDependent, heapVars, signalVars
<1>11. CASE DependentsUpdated
  BY <1>11, HeadTailProperties DEF DependentsUpdated, heapVars, loadVars,
     depVars, signalVars
<1>12. ASSUME NEW j \in Jobs, KillQueued(j) PROVE TypeOK'
  <2>1. heap' \in [Jobs -> Nat] /\ "KILLED" \in Terminal
    BY <1>12 DEF KillQueued, IsTop, Pop
  <2>2. CASE status[j] \in Terminal
    BY <1>12, <2>1, <2>2 DEF KillQueued, loadVars, depVars, callVars, signalVars
  <2>3. CASE status[j] \notin Terminal
    <3>1. MarkCompleted(j, "KILLED", untold)
      BY <1>12, <2>3 DEF KillQueued
    <3>2. /\ status' \in [Jobs -> Status]
          /\ running' \subseteq Jobs
          /\ perBackend' \in [Backends -> Int]
          /\ usage' \in [Resources -> Int]
          /\ stack' \in Seq(Jobs)
          /\ untold' \in [Jobs -> SUBSET Jobs]
      BY <2>1, <3>1, CompletedTypes
    <3>3. QED BY <1>12, <2>1, <3>2 DEF KillQueued, depVars, signalVars
  <2>4. QED BY <2>2, <2>3
<1>13. ASSUME NEW j \in Jobs, Accept(j) \/ Refuse(j) PROVE TypeOK'
  BY <1>13 DEF Accept, Refuse, Offer, heapVars, loadVars, depVars, callVars,
     signalVars
<1>14. ASSUME NEW j \in Jobs, NEW s \in Outcomes,
              SubmitJobCompletion(j, s) \/ RepeatJobCompletion(j, s)
       PROVE  TypeOK'
  <2>1. [job |-> j, status |-> s] \in Completion
    BY DEF Completion
  <2>2. queue' \in Seq(Completion)
    <3>1. queue' = Append(queue, [job |-> j, status |-> s])
      BY <1>14 DEF SubmitJobCompletion, RepeatJobCompletion
    <3>2. QED BY <2>1, <3>1, AppendProperties
  <2>3. QED BY <1>14, <2>2
            DEF SubmitJobCompletion, RepeatJobCompletion, Offer, heapVars,
                loadVars, depVars, callVars, signalVars
<1>15. CASE UNCHANGED vars
  BY <1>15 DEF vars, heapVars, loadVars, depVars, callVars, signalVars
<1>16. QED
  BY <1>1, <1>2, <1>3, <1>4, <1>5, <1>6, <1>7, <1>8, <1>9, <1>10, <1>11,
     <1>12, <1>13, <1>14, <1>15
  DEF Next, SchedulerStep, UpdateDependent, Answer, Complete, Finished

(* Every reachable state has the types that the declarations of JobRecord  *)
(* and Scheduler give its fields.                                          *)
THEOREM TypeCorrect == Spec => []TypeOK
<1>1. QED BY TypeInit, TypeStep, PTL DEF Spec

(***************************************************************************)
(* The dependency counters.                                                *)
(***************************************************************************)
Awaits(p, d)   == status[p] \notin Terminal \/ d \in untold[p]
PassedTo(p, d) == status[p] = "PASSED" /\ d \notin untold[p]

(* What the invariant says of the jobs that the actions are about.         *)
LEMMA HeldIsQueued ==
  ASSUME IInv, NEW j \in Jobs, heap[j] > 0 \/ j \in launching \/ j \in blocked
  PROVE  /\ status[j] = "QUEUED"
         /\ heap[j] + Count(j \in blocked) + Count(j \in launching) = 1
         /\ j \in launching => heap[j] = 0 /\ j \notin blocked
<1>1. heap[j] \in Nat
  BY DEF IInv, TypeOK
<1>2. heap[j] + Count(j \in blocked) + Count(j \in launching) = Count(status[j] = "QUEUED")
  BY DEF IInv, QueuedJobsHeldOnce
<1>3. Count(j \in blocked) \in {0, 1} /\ Count(j \in launching) \in {0, 1}
  BY DEF Count
<1>4. j \in blocked \/ j \in launching => Count(j \in blocked) = 1 \/ Count(j \in launching) = 1
  BY DEF Count
<1>5. Count(status[j] = "QUEUED") # 0
  BY <1>1, <1>2, <1>3, <1>4
<1>6. status[j] = "QUEUED"
  BY <1>5 DEF Count
<1>7. heap[j] + Count(j \in blocked) + Count(j \in launching) = 1
  BY <1>2, <1>6 DEF Count
<1>8. ASSUME j \in launching PROVE heap[j] = 0 /\ j \notin blocked
  <2>1. heap[j] + Count(j \in blocked) + 1 = 1
    BY <1>7, <1>8 DEF Count
  <2>2. QED BY <1>1, <2>1 DEF Count
<1>9. QED BY <1>6, <1>7, <1>8

LEMMA CompletedWasRunning ==
  ASSUME IInv, pc = "complete", batch # <<>>
  PROVE  /\ Head(batch).job \in Jobs
         /\ Head(batch).status \in Terminal
         /\ status[Head(batch).job] \in {"RUNNING"} \cup Terminal
<1>1. batch \in Seq(Completion)
  BY DEF IInv, TypeOK
<1>2. Head(batch) \in Completion /\ Head(batch) = batch[1] /\ 1 \in DOMAIN batch
  BY <1>1, HeadTailProperties, LenProperties, EmptySeq
<1>3. Head(batch).job \in Jobs /\ Head(batch).status \in Terminal
  BY <1>2 DEF Completion
<1>4. offer[Head(batch).job] \in {"ended", "repeated"}
  BY <1>2 DEF IInv, OffersFollowLaunches
<1>5. Head(batch).job \notin launching
  BY DEF IInv, PassesConfined
<1>6. QED BY <1>3, <1>4, <1>5 DEF IInv, OffersFollowLaunches

Steady(d) == /\ Awaited(d)' = Awaited(d)
             /\ Passed(d)' = Passed(d)
             /\ remaining'[d] = remaining[d]
             /\ passing'[d] = passing[d]

Tells(j, d) ==
  /\ j \in Awaited(d)
  /\ Awaited(d)' = Awaited(d) \ {j}
  /\ remaining'[d] = remaining[d] - 1
  /\ j \notin Passed(d)
  /\ IF status[j] = "PASSED"
       THEN Passed(d)' = Passed(d) \cup {j} /\ passing'[d] = passing[d] + 1
       ELSE Passed(d)' = Passed(d) /\ passing'[d] = passing[d]
  /\ \A e \in Jobs \ {d} : Steady(e)

(* A step after which each pair of a dependency and its dependent is as it *)
(* was changes no count.                                                   *)
LEMMA NothingTold ==
  ASSUME UNCHANGED depVars, NEW d \in Jobs,
         \A p \in Deps[d] : /\ Awaits(p, d)' <=> Awaits(p, d)
                            /\ PassedTo(p, d)' <=> PassedTo(p, d)
  PROVE  Steady(d)
BY DEF Steady, Awaited, Passed, Awaits, PassedTo, depVars

(* A step that tells d that j has ended, and leaves the other pairs alone. *)
LEMMA OneTold ==
  ASSUME IInv, NEW j \in Jobs, NEW d \in Jobs, Calling(j, d), CountDependency(j, d),
         \A e \in Jobs : \A p \in Deps[e] :
           /\ Awaits(p, e)' <=> Awaits(p, e) /\ ~(p = j /\ e = d)
           /\ PassedTo(p, e)' <=>
                PassedTo(p, e) \/ (p = j /\ e = d /\ status[j] = "PASSED")
  PROVE  Tells(j, d)
<1>1. remaining \in [Jobs -> Int] /\ passing \in [Jobs -> Int]
  BY DEF IInv, TypeOK
<1>2. d \in untold[j] /\ j \in Deps[d]
  BY DEF Calling, IInv, CallsActive, Dependents
<1>3. /\ j \in Awaited(d)
      /\ j \notin Passed(d)
      /\ Awaited(d)' = Awaited(d) \ {j}
      /\ Passed(d)' = IF status[j] = "PASSED" THEN Passed(d) \cup {j} ELSE Passed(d)
  BY <1>2 DEF Awaited, Passed, Awaits, PassedTo
<1>4. \A e \in Jobs \ {d} : Awaited(e)' = Awaited(e) /\ Passed(e)' = Passed(e)
  BY DEF Awaited, Passed, Awaits, PassedTo
<1>5. /\ remaining'[d] = remaining[d] - 1
      /\ passing'[d] = IF status[j] = "PASSED" THEN passing[d] + 1 ELSE passing[d]
      /\ \A e \in Jobs \ {d} : remaining'[e] = remaining[e] /\ passing'[e] = passing[e]
  BY <1>1 DEF CountDependency
<1>6. QED BY <1>3, <1>4, <1>5 DEF Tells, Steady

(* A status that changes without becoming, or having been, terminal.       *)
LEMMA LiveIsSteady ==
  ASSUME IInv, NEW j \in Jobs, NEW s \in Status, UNCHANGED <<depVars, untold>>,
         status[j] \notin Terminal, s \notin Terminal,
         status' = [status EXCEPT ![j] = s]
  PROVE  \A d \in Jobs : Steady(d)
<1>1. status \in [Jobs -> Status]
  BY DEF IInv, TypeOK
<1>2. ASSUME NEW d \in Jobs, NEW p \in Deps[d]
      PROVE  /\ Awaits(p, d)' <=> Awaits(p, d)
             /\ PassedTo(p, d)' <=> PassedTo(p, d)
  BY <1>1 DEF Awaits, PassedTo, Terminal
<1>3. QED BY <1>2, NothingTold

(* A completion: each dependent has still to be told.                      *)
LEMMA CompletingIsSteady ==
  ASSUME IInv, NEW j \in Jobs, NEW s \in Terminal, status[j] \notin Terminal,
         MarkCompleted(j, s, untold), UNCHANGED depVars
  PROVE  \A d \in Jobs : Steady(d)
<1>1. status \in [Jobs -> Status] /\ untold \in [Jobs -> SUBSET Jobs]
  BY DEF IInv, TypeOK
<1>2. untold[j] = {}
  BY DEF IInv, CallsActive
<1>3. /\ status' = [status EXCEPT ![j] = s]
      /\ untold' = [untold EXCEPT ![j] = Dependents(j)]
  BY DEF MarkCompleted
<1>4. ASSUME NEW d \in Jobs, NEW p \in Deps[d]
      PROVE  /\ Awaits(p, d)' <=> Awaits(p, d)
             /\ PassedTo(p, d)' <=> PassedTo(p, d)
  <2>1. p = j => d \in Dependents(p)
    BY DEF Dependents
  <2>2. CASE p = j
    BY <1>1, <1>2, <1>3, <2>1, <2>2 DEF Awaits, PassedTo, Terminal
  <2>3. CASE p # j
    BY <1>1, <1>3, <2>3 DEF Awaits, PassedTo
  <2>4. QED BY <2>2, <2>3
<1>5. QED BY <1>4, NothingTold

(* The three turns of the loop of _update_completed_job_deps() tell one     *)
(* dependent of one job; every other step leaves the counts as they are.   *)
LEMMA ToldStep ==
  ASSUME IInv, NEW j \in Jobs, NEW d \in Jobs,
         ReadyDependent(j, d) \/ PassOverDependent(j, d) \/ KillDependent(j, d)
  PROVE  Calling(j, d) /\ Tells(j, d)
<1> USE DEF Status, Terminal
<1>1. status \in [Jobs -> Status] /\ untold \in [Jobs -> SUBSET Jobs]
  BY DEF IInv, TypeOK
<1>2. CASE ReadyDependent(j, d) \/ PassOverDependent(j, d)
  <2>1. Calling(j, d) /\ CountDependency(j, d)
    BY <1>2 DEF ReadyDependent, PassOverDependent
  <2>2. /\ untold' = [untold EXCEPT ![j] = @ \ {d}]
        /\ \/ status' = status
           \/ status[d] = "SCHEDULED" /\ status' = [status EXCEPT ![d] = "QUEUED"]
    BY <1>2 DEF ReadyDependent, PassOverDependent, Told, MarkReady
  <2>3. status[j] \in Terminal /\ d \in untold[j]
    BY <2>1 DEF Calling, IInv, CallsActive
  <2>4. ASSUME NEW e \in Jobs, NEW p \in Deps[e]
        PROVE  /\ Awaits(p, e)' <=> Awaits(p, e) /\ ~(p = j /\ e = d)
               /\ PassedTo(p, e)' <=>
                    PassedTo(p, e) \/ (p = j /\ e = d /\ status[j] = "PASSED")
    <3>1. p \in Jobs
      OBVIOUS
    <3>2. QED BY <1>1, <2>2, <2>3, <3>1 DEF Awaits, PassedTo
  <2>5. QED BY <2>1, <2>4, OneTold
<1>3. CASE KillDependent(j, d)
  <2>1. Calling(j, d) /\ CountDependency(j, d)
    BY <1>3 DEF KillDependent
  <2>2. /\ status' = [status EXCEPT ![d] = "KILLED"]
        /\ untold' = [Told(j, d) EXCEPT ![d] = Dependents(d)]
    BY <1>3 DEF KillDependent, MarkCompleted
  <2>3. status[d] \notin Terminal
    BY <1>3 DEF KillDependent, Decided
  <2>4. status[j] \in Terminal /\ d \in untold[j] /\ untold[d] = {}
    BY <2>1, <2>3 DEF Calling, IInv, CallsActive
  <2>5. j # d
    BY <2>3, <2>4
  <2>6. untold' = [p \in Jobs |-> IF p = d THEN Dependents(d)
                                  ELSE IF p = j THEN untold[j] \ {d} ELSE untold[p]]
    BY <1>1, <2>2, <2>5 DEF Told
  <2>7. ASSUME NEW e \in Jobs, NEW p \in Deps[e]
        PROVE  /\ Awaits(p, e)' <=> Awaits(p, e) /\ ~(p = j /\ e = d)
               /\ PassedTo(p, e)' <=>
                    PassedTo(p, e) \/ (p = j /\ e = d /\ status[j] = "PASSED")
    <3>1. p \in Jobs /\ (p = d => e \in Dependents(d))
      BY DEF Dependents
    <3>2. status'[p] = IF p = d THEN "KILLED" ELSE status[p]
      BY <1>1, <2>2, <3>1
    <3>3. untold'[p] = IF p = d THEN Dependents(d) ELSE IF p = j THEN untold[j] \ {d} ELSE untold[p]
      BY <2>6, <3>1
    <3>4. CASE p = d
      BY <2>3, <2>5, <3>1, <3>2, <3>3, <3>4 DEF Awaits, PassedTo, Terminal
    <3>5. CASE p # d
      BY <2>4, <2>5, <3>2, <3>3, <3>5 DEF Awaits, PassedTo
    <3>6. QED BY <3>4, <3>5
  <2>8. QED BY <2>1, <2>7, OneTold
<1>4. QED BY <1>2, <1>3

LEMMA SteadyStep ==
  ASSUME IInv,
         \/ StartLoop \/ Submit \/ Submitted \/ AfterScheduling
         \/ WakeForCompletion \/ DrainCompletions \/ HandleCompletion
         \/ CompletionsHandled \/ DependentsUpdated \/ HandleExitSignal
         \/ AwaitKills \/ KillsReturned \/ Signal \/ SetShutdownEvent
         \/ \E j \in Jobs : \/ StartReady(j) \/ SelectToLaunch(j) \/ SelectBlocked(j)
                            \/ MarkRunning(j) \/ Requeue(j) \/ KillQueued(j)
                            \/ Accept(j) \/ Refuse(j)
                            \/ \E s \in Outcomes : \/ SubmitJobCompletion(j, s)
                                                   \/ RepeatJobCompletion(j, s)
         \/ UNCHANGED vars
  PROVE  \A d \in Jobs : Steady(d)
<1> USE DEF Status, Terminal
<1>1. status \in [Jobs -> Status] /\ untold \in [Jobs -> SUBSET Jobs]
  BY DEF IInv, TypeOK
<1>2. ASSUME UNCHANGED <<status, depVars, untold>>
      PROVE  \A d \in Jobs : Steady(d)
  BY <1>2, NothingTold DEF Awaits, PassedTo
<1>3. ASSUME NEW j \in Jobs, StartReady(j) PROVE \A d \in Jobs : Steady(d)
  BY <1>3, LiveIsSteady DEF StartReady, MarkReady, callVars
<1>4. ASSUME NEW j \in Jobs, MarkRunning(j) PROVE \A d \in Jobs : Steady(d)
  BY <1>4, HeldIsQueued, LiveIsSteady DEF MarkRunning, callVars
<1>5. CASE HandleCompletion
  <2>1. CASE status[Head(batch).job] \in Terminal
    BY <1>2, <1>5, <2>1 DEF HandleCompletion, callVars
  <2>2. CASE status[Head(batch).job] \notin Terminal
    <3>1. /\ MarkCompleted(Head(batch).job, Head(batch).status, untold)
          /\ UNCHANGED depVars
      BY <1>5, <2>2 DEF HandleCompletion
    <3>2. Head(batch).job \in Jobs /\ Head(batch).status \in Terminal
      BY <1>5, CompletedWasRunning DEF HandleCompletion
    <3>3. QED BY <2>2, <3>1, <3>2, CompletingIsSteady
  <2>3. QED BY <2>1, <2>2
<1>6. ASSUME NEW j \in Jobs, KillQueued(j) PROVE \A d \in Jobs : Steady(d)
  <2>1. CASE status[j] \in Terminal
    BY <1>2, <1>6, <2>1 DEF KillQueued, callVars
  <2>2. CASE status[j] \notin Terminal
    <3>1. MarkCompleted(j, "KILLED", untold) /\ UNCHANGED depVars
      BY <1>6, <2>2 DEF KillQueued
    <3>2. QED BY <2>2, <3>1, CompletingIsSteady
  <2>3. QED BY <2>1, <2>2
<1>7. ASSUME \/ StartLoop \/ Submit \/ Submitted \/ AfterScheduling
             \/ WakeForCompletion \/ DrainCompletions \/ CompletionsHandled
             \/ DependentsUpdated \/ HandleExitSignal \/ AwaitKills
             \/ KillsReturned \/ Signal \/ SetShutdownEvent
             \/ UNCHANGED vars
      PROVE  UNCHANGED <<status, depVars, untold>>
  BY <1>7 DEF StartLoop, Submit, Submitted, AfterScheduling, WakeForCompletion,
     DrainCompletions, CompletionsHandled, DependentsUpdated, HandleExitSignal,
     AwaitKills, KillsReturned, Signal, SetShutdownEvent, vars, callVars
<1>8. ASSUME NEW j \in Jobs,
              \/ SelectToLaunch(j) \/ SelectBlocked(j) \/ Requeue(j)
              \/ Accept(j) \/ Refuse(j)
       PROVE  UNCHANGED <<status, depVars, untold>>
  BY <1>8 DEF SelectToLaunch, SelectBlocked, Requeue, Accept, Refuse, callVars
<1>9. ASSUME NEW j \in Jobs, NEW s \in Outcomes,
              SubmitJobCompletion(j, s) \/ RepeatJobCompletion(j, s)
       PROVE  UNCHANGED <<status, depVars, untold>>
  BY <1>9 DEF SubmitJobCompletion, RepeatJobCompletion, callVars
<1>10. QED
  BY <1>2, <1>3, <1>4, <1>5, <1>6, <1>7, <1>8, <1>9

LEMMA CountingStep ==
  ASSUME IInv, [Next]_vars
  PROVE  \/ \A d \in Jobs : Steady(d)
         \/ \E j, d \in Jobs : Tells(j, d)
BY ToldStep, SteadyStep
DEF Next, SchedulerStep, UpdateDependent, Answer, Complete, Finished

LEMMA CountsStep == IInv /\ [Next]_vars => DependenciesCounted'
<1> SUFFICES ASSUME IInv, [Next]_vars, NEW d \in Jobs
             PROVE  /\ remaining'[d] = Cardinality(Awaited(d)')
                    /\ passing'[d] = Cardinality(Passed(d)')
  BY DEF DependenciesCounted
<1>1. /\ remaining[d] = Cardinality(Awaited(d))
      /\ passing[d] = Cardinality(Passed(d))
  BY DEF IInv, DependenciesCounted
<1>2. IsFiniteSet(Awaited(d)) /\ IsFiniteSet(Passed(d))
  <2>1. IsFiniteSet(Deps[d])
    BY FS_Subset
  <2>2. Awaited(d) \in SUBSET Deps[d] /\ Passed(d) \in SUBSET Deps[d]
    BY DEF Awaited, Passed
  <2>3. QED BY <2>1, <2>2, FS_Subset
<1>3. CASE Steady(d)
  BY <1>1, <1>3 DEF Steady
<1>4. ASSUME NEW j \in Jobs, Tells(j, d)
      PROVE  /\ remaining'[d] = Cardinality(Awaited(d)')
             /\ passing'[d] = Cardinality(Passed(d)')
  <2>1. Cardinality(Awaited(d) \ {j}) = Cardinality(Awaited(d)) - 1
    BY <1>2, <1>4, FS_RemoveElement DEF Tells
  <2>2. Cardinality(Passed(d) \cup {j}) = Cardinality(Passed(d)) + 1
    BY <1>2, <1>4, FS_AddElement DEF Tells
  <2>3. QED BY <1>1, <1>4, <2>1, <2>2 DEF Tells
<1>5. QED BY <1>3, <1>4, CountingStep DEF Tells

(***************************************************************************)
(* Where jobs are: the heap, the launch in progress, the running set.      *)
(***************************************************************************)

(* A dependent that is being told has not been made ready yet.             *)
LEMMA ToldIsNotReady ==
  ASSUME IInv, NEW j \in Jobs, NEW d \in Jobs, Calling(j, d)
  PROVE  /\ status[d] \in {"SCHEDULED", "KILLED"}
         /\ j \in Awaited(d)
<1>1. j \in Awaited(d)
  BY DEF Calling, IInv, CallsActive, Awaited, Dependents
<1>2. status[d] \in Status
  BY DEF IInv, TypeOK
<1>3. status[d] \notin {"QUEUED", "RUNNING", "PASSED", "FAILED"}
  BY <1>1 DEF IInv, WaitsForSomething
<1>4. QED BY <1>1, <1>2, <1>3 DEF Status, Terminal

LEMMA HeldOnceStep == IInv /\ [Next]_vars => QueuedJobsHeldOnce'
<1> SUFFICES ASSUME IInv, [Next]_vars PROVE QueuedJobsHeldOnce'
  OBVIOUS
<1> DEFINE Held(j) == heap[j] + Count(j \in blocked) + Count(j \in launching)
<1>1. /\ status \in [Jobs -> Status]
      /\ heap \in [Jobs -> Nat]
      /\ \A j \in Jobs : Held(j) = Count(status[j] = "QUEUED")
  BY DEF IInv, TypeOK, QueuedJobsHeldOnce
<1>2. ASSUME NEW j \in Jobs, MarkReady(j), UNCHANGED <<blocked, launching>>
      PROVE  QueuedJobsHeldOnce'
  BY <1>1, <1>2 DEF MarkReady, Push, Count, QueuedJobsHeldOnce
<1>3. ASSUME NEW j \in Jobs, SelectToLaunch(j) PROVE QueuedJobsHeldOnce'
  <2>1. heap[j] > 0 /\ heap' = [heap EXCEPT ![j] = @ - 1]
    BY <1>3 DEF SelectToLaunch, IsTop, Pop
  <2>2. status[j] = "QUEUED" /\ Held(j) = 1
    BY <2>1, HeldIsQueued
  <2>3. heap[j] = 1 /\ j \notin launching
    BY <1>1, <2>1, <2>2 DEF Count
  <2>4. launching' = launching \cup {j} /\ UNCHANGED <<status, blocked>>
    BY <1>3 DEF SelectToLaunch
  <2>5. QED BY <1>1, <2>1, <2>2, <2>3, <2>4 DEF Count, QueuedJobsHeldOnce
<1>4. ASSUME NEW j \in Jobs, SelectBlocked(j) PROVE QueuedJobsHeldOnce'
  <2>1. heap[j] > 0 /\ heap' = [heap EXCEPT ![j] = @ - 1]
    BY <1>4 DEF SelectBlocked, IsTop, Pop
  <2>2. status[j] = "QUEUED" /\ Held(j) = 1
    BY <2>1, HeldIsQueued
  <2>3. heap[j] = 1 /\ j \notin blocked
    BY <1>1, <2>1, <2>2 DEF Count
  <2>4. blocked' = blocked \cup {j} /\ UNCHANGED <<status, launching>>
    BY <1>4 DEF SelectBlocked
  <2>5. QED BY <1>1, <2>1, <2>2, <2>3, <2>4 DEF Count, QueuedJobsHeldOnce
<1>5. CASE Submit
  <2>1. /\ heap' = [j \in Jobs |-> IF j \in blocked THEN heap[j] + 1 ELSE heap[j]]
        /\ blocked' = {}
        /\ UNCHANGED <<status, launching>>
    BY <1>5 DEF Submit
  <2>2. QED BY <1>1, <2>1 DEF Count, QueuedJobsHeldOnce
<1>6. ASSUME NEW j \in Jobs, MarkRunning(j) PROVE QueuedJobsHeldOnce'
  <2>1. j \in launching /\ launching' = launching \ {j}
    BY <1>6 DEF MarkRunning
  <2>2. status' = [status EXCEPT ![j] = "RUNNING"] /\ UNCHANGED <<heap, blocked>>
    BY <1>6 DEF MarkRunning
  <2>3. status[j] = "QUEUED" /\ Held(j) = 1
    BY <2>1, HeldIsQueued
  <2>4. heap[j] = 0 /\ j \notin blocked
    BY <2>1, HeldIsQueued
  <2>5. QED BY <1>1, <2>1, <2>2, <2>3, <2>4 DEF Count, QueuedJobsHeldOnce
<1>7. ASSUME NEW j \in Jobs, Requeue(j) PROVE QueuedJobsHeldOnce'
  <2>1. j \in launching /\ launching' = launching \ {j}
    BY <1>7 DEF Requeue
  <2>2. heap' = [heap EXCEPT ![j] = @ + 1] /\ UNCHANGED <<status, blocked>>
    BY <1>7 DEF Requeue, Push
  <2>3. QED BY <1>1, <2>1, <2>2 DEF Count, QueuedJobsHeldOnce
<1>8. ASSUME UNCHANGED <<status, heapVars>> PROVE QueuedJobsHeldOnce'
  BY <1>1, <1>8 DEF heapVars, Count, QueuedJobsHeldOnce
<1>9. ASSUME NEW j \in Jobs, NEW s \in Terminal, status[j] # "QUEUED",
             status' = [status EXCEPT ![j] = s], UNCHANGED heapVars
      PROVE  QueuedJobsHeldOnce'
  BY <1>1, <1>9 DEF heapVars, Count, QueuedJobsHeldOnce, Terminal
<1>10. CASE HandleCompletion
  <2>1. CASE status[Head(batch).job] \in Terminal
    BY <1>8, <1>10, <2>1 DEF HandleCompletion
  <2>2. CASE status[Head(batch).job] \notin Terminal
    <3>1. /\ status' = [status EXCEPT ![Head(batch).job] = Head(batch).status]
          /\ UNCHANGED heapVars
      BY <1>10, <2>2 DEF HandleCompletion, MarkCompleted
    <3>2. /\ Head(batch).job \in Jobs
          /\ Head(batch).status \in Terminal
          /\ status[Head(batch).job] # "QUEUED"
      BY <1>10, CompletedWasRunning DEF HandleCompletion, Terminal
    <3>3. QED BY <1>9, <3>1, <3>2
  <2>3. QED BY <2>1, <2>2
<1>11. ASSUME NEW j \in Jobs, NEW d \in Jobs, KillDependent(j, d)
       PROVE  QueuedJobsHeldOnce'
  <2>1. /\ status' = [status EXCEPT ![d] = "KILLED"]
        /\ UNCHANGED heapVars
    BY <1>11 DEF KillDependent, MarkCompleted
  <2>2. status[d] # "QUEUED"
    BY <1>11, ToldIsNotReady DEF KillDependent
  <2>3. QED BY <1>9, <2>1, <2>2 DEF Terminal
<1>12. ASSUME NEW j \in Jobs, KillQueued(j) PROVE QueuedJobsHeldOnce'
  <2>1. heap[j] > 0 /\ heap' = [heap EXCEPT ![j] = @ - 1]
    BY <1>12 DEF KillQueued, IsTop, Pop
  <2>2. status[j] = "QUEUED" /\ Held(j) = 1
    BY <2>1, HeldIsQueued
  <2>3. status' = [status EXCEPT ![j] = "KILLED"] /\ UNCHANGED <<blocked, launching>>
    BY <1>12, <2>2 DEF KillQueued, MarkCompleted, Terminal
  <2>4. QED BY <1>1, <2>1, <2>2, <2>3 DEF Count, QueuedJobsHeldOnce
<1>13. ASSUME \/ StartLoop \/ Submitted \/ AfterScheduling
              \/ WakeForCompletion \/ DrainCompletions \/ CompletionsHandled
              \/ DependentsUpdated \/ HandleExitSignal \/ AwaitKills
              \/ KillsReturned \/ Signal \/ SetShutdownEvent
              \/ UNCHANGED vars
       PROVE  UNCHANGED <<status, heapVars>>
  BY <1>13 DEF StartLoop, Submitted, AfterScheduling, WakeForCompletion,
     DrainCompletions, CompletionsHandled, DependentsUpdated, HandleExitSignal,
     AwaitKills, KillsReturned, Signal, SetShutdownEvent, vars
<1>14. ASSUME NEW j \in Jobs, Accept(j) \/ Refuse(j)
       PROVE  UNCHANGED <<status, heapVars>>
  BY <1>14 DEF Accept, Refuse
<1>15. ASSUME NEW j \in Jobs, NEW s \in Outcomes,
              SubmitJobCompletion(j, s) \/ RepeatJobCompletion(j, s)
       PROVE  UNCHANGED <<status, heapVars>>
  BY <1>15 DEF SubmitJobCompletion, RepeatJobCompletion
<1>16. ASSUME NEW j \in Jobs, StartReady(j) PROVE QueuedJobsHeldOnce'
  BY <1>2, <1>16 DEF StartReady
<1>17. ASSUME NEW j \in Jobs, NEW d \in Jobs, ReadyDependent(j, d)
       PROVE  QueuedJobsHeldOnce'
  BY <1>2, <1>17 DEF ReadyDependent
<1>18. ASSUME NEW j \in Jobs, NEW d \in Jobs, PassOverDependent(j, d)
       PROVE  UNCHANGED <<status, heapVars>>
  BY <1>18 DEF PassOverDependent
<1>19. QED
  BY <1>3, <1>4, <1>5, <1>6, <1>7, <1>8, <1>10, <1>11, <1>12, <1>13, <1>14,
     <1>15, <1>16, <1>17, <1>18
  DEF Next, SchedulerStep, UpdateDependent, Answer, Complete, Finished

LEMMA RunningStep == IInv /\ [Next]_vars => RunningMatches'
<1> SUFFICES ASSUME IInv, [Next]_vars PROVE RunningMatches'
  OBVIOUS
<1>1. status \in [Jobs -> Status] /\ running = {j \in Jobs : status[j] = "RUNNING"}
  BY DEF IInv, TypeOK, RunningMatches
<1>2. ASSUME UNCHANGED <<status, running>> PROVE RunningMatches'
  BY <1>1, <1>2 DEF RunningMatches
<1>3. ASSUME NEW j \in Jobs, NEW s \in Terminal, status' = [status EXCEPT ![j] = s],
             running' = running \ {j}
      PROVE  RunningMatches'
  BY <1>1, <1>3 DEF RunningMatches, Terminal
<1>4. ASSUME NEW j \in Jobs, MarkReady(j), running' = running
      PROVE  RunningMatches'
  BY <1>1, <1>4 DEF MarkReady, RunningMatches
<1>5. ASSUME NEW j \in Jobs, MarkRunning(j) PROVE RunningMatches'
  <2>1. status' = [status EXCEPT ![j] = "RUNNING"] /\ running' = running \cup {j}
    BY <1>5 DEF MarkRunning
  <2>2. QED BY <1>1, <2>1 DEF RunningMatches
<1>6. CASE HandleCompletion
  <2>1. CASE status[Head(batch).job] \in Terminal
    BY <1>2, <1>6, <2>1 DEF HandleCompletion, loadVars
  <2>2. CASE status[Head(batch).job] \notin Terminal
    <3>1. /\ status' = [status EXCEPT ![Head(batch).job] = Head(batch).status]
          /\ running' = running \ {Head(batch).job}
      BY <1>6, <2>2 DEF HandleCompletion, MarkCompleted
    <3>2. Head(batch).job \in Jobs /\ Head(batch).status \in Terminal
      BY <1>6, CompletedWasRunning DEF HandleCompletion
    <3>3. QED BY <1>3, <3>1, <3>2
  <2>3. QED BY <2>1, <2>2
<1>7. ASSUME NEW j \in Jobs, NEW d \in Jobs, KillDependent(j, d)
      PROVE  RunningMatches'
  BY <1>3, <1>7 DEF KillDependent, MarkCompleted, Terminal
<1>8. ASSUME NEW j \in Jobs, KillQueued(j) PROVE RunningMatches'
  <2>1. CASE status[j] \in Terminal
    BY <1>2, <1>8, <2>1 DEF KillQueued, loadVars
  <2>2. CASE status[j] \notin Terminal
    BY <1>3, <1>8, <2>2 DEF KillQueued, MarkCompleted, Terminal
  <2>3. QED BY <2>1, <2>2
<1>9. ASSUME \/ StartLoop \/ Submit \/ Submitted \/ AfterScheduling
             \/ WakeForCompletion \/ DrainCompletions \/ CompletionsHandled
             \/ DependentsUpdated \/ HandleExitSignal \/ AwaitKills
             \/ KillsReturned \/ Signal \/ SetShutdownEvent
             \/ UNCHANGED vars
      PROVE  UNCHANGED <<status, running>>
  BY <1>9 DEF StartLoop, Submit, Submitted, AfterScheduling, WakeForCompletion,
     DrainCompletions, CompletionsHandled, DependentsUpdated, HandleExitSignal,
     AwaitKills, KillsReturned, Signal, SetShutdownEvent, vars, loadVars
<1>10. ASSUME NEW j \in Jobs,
              \/ SelectToLaunch(j) \/ SelectBlocked(j) \/ Requeue(j)
              \/ Accept(j) \/ Refuse(j)
       PROVE  UNCHANGED <<status, running>>
  BY <1>10 DEF SelectToLaunch, SelectBlocked, Requeue, Accept, Refuse, loadVars
<1>11. ASSUME NEW j \in Jobs, NEW s \in Outcomes,
              SubmitJobCompletion(j, s) \/ RepeatJobCompletion(j, s)
       PROVE  UNCHANGED <<status, running>>
  BY <1>11 DEF SubmitJobCompletion, RepeatJobCompletion, loadVars
<1>12. ASSUME NEW j \in Jobs, StartReady(j) PROVE RunningMatches'
  BY <1>4, <1>12 DEF StartReady, loadVars
<1>13. ASSUME NEW j \in Jobs, NEW d \in Jobs, ReadyDependent(j, d)
       PROVE  RunningMatches'
  BY <1>4, <1>13 DEF ReadyDependent, loadVars
<1>14. ASSUME NEW j \in Jobs, NEW d \in Jobs, PassOverDependent(j, d)
       PROVE  UNCHANGED <<status, running>>
  BY <1>14 DEF PassOverDependent, loadVars
<1>15. QED
  BY <1>2, <1>5, <1>6, <1>7, <1>8, <1>9, <1>10, <1>11, <1>12, <1>13, <1>14
  DEF Next, SchedulerStep, UpdateDependent, Answer, Complete, Finished

(***************************************************************************)
(* The calls in progress.                                                  *)
(***************************************************************************)
LEMMA StackOps ==
  ASSUME stack \in Seq(Jobs), NEW j \in Jobs
  PROVE  /\ \A k \in Jobs : (\E i \in DOMAIN stack : stack[i] = k) =>
               \E i \in DOMAIN (<<j>> \o stack) : (<<j>> \o stack)[i] = k
         /\ \E i \in DOMAIN (<<j>> \o stack) : (<<j>> \o stack)[i] = j
         /\ stack # <<>> => \A k \in Jobs \ {Head(stack)} :
               (\E i \in DOMAIN stack : stack[i] = k) =>
                 \E i \in DOMAIN Tail(stack) : Tail(stack)[i] = k
<1>1. <<j>> \in Seq(Jobs) /\ Len(<<j>>) = 1 /\ <<j>>[1] = j
  OBVIOUS
<1>2. /\ <<j>> \o stack \in Seq(Jobs)
      /\ Len(<<j>> \o stack) = 1 + Len(stack)
      /\ \A i \in 1 .. 1 + Len(stack) : (<<j>> \o stack)[i]
            = IF i <= 1 THEN <<j>>[i] ELSE stack[i - 1]
  BY <1>1, ConcatProperties
<1>3. /\ DOMAIN stack = 1 .. Len(stack)
      /\ Len(stack) \in Nat
      /\ DOMAIN (<<j>> \o stack) = 1 .. 1 + Len(stack)
  BY <1>2, LenProperties
<1>4. ASSUME NEW k \in Jobs, NEW i \in DOMAIN stack, stack[i] = k
      PROVE  \E n \in DOMAIN (<<j>> \o stack) : (<<j>> \o stack)[n] = k
  <2>1. i + 1 \in 1 .. 1 + Len(stack) /\ (<<j>> \o stack)[i + 1] = k
    BY <1>2, <1>3, <1>4
  <2>2. QED BY <1>3, <2>1
<1>5. (<<j>> \o stack)[1] = j /\ 1 \in DOMAIN (<<j>> \o stack)
  BY <1>1, <1>2, <1>3
<1>6. ASSUME stack # <<>>, NEW k \in Jobs \ {Head(stack)},
             NEW i \in DOMAIN stack, stack[i] = k
      PROVE  \E n \in DOMAIN Tail(stack) : Tail(stack)[n] = k
  <2>1. /\ Tail(stack) \in Seq(Jobs)
        /\ Len(Tail(stack)) = Len(stack) - 1
        /\ \A n \in 1 .. Len(Tail(stack)) : Tail(stack)[n] = stack[n + 1]
        /\ Head(stack) = stack[1]
    BY <1>6, HeadTailProperties
  <2>2. DOMAIN Tail(stack) = 1 .. Len(stack) - 1
    BY <2>1, LenProperties
  <2>3. i # 1
    BY <1>6, <2>1
  <2>4. i - 1 \in 1 .. Len(stack) - 1 /\ Tail(stack)[i - 1] = k
    BY <1>3, <1>6, <2>1, <2>3
  <2>5. QED BY <2>2, <2>4
<1>7. QED BY <1>4, <1>5, <1>6

LEMMA CallsStep == IInv /\ [Next]_vars => CallsActive'
<1> SUFFICES ASSUME IInv, [Next]_vars PROVE CallsActive'
  OBVIOUS
<1> DEFINE OnStack(j) == \E i \in DOMAIN stack : stack[i] = j
<1>1. /\ status \in [Jobs -> Status]
      /\ untold \in [Jobs -> SUBSET Jobs]
      /\ stack \in Seq(Jobs)
      /\ \A j \in Jobs : /\ untold[j] \subseteq Dependents(j)
                         /\ untold[j] # {} => status[j] \in Terminal
                         /\ untold[j] # {} => OnStack(j)
      /\ pc \notin {"complete", "exit"} => stack = <<>>
  BY DEF IInv, TypeOK, CallsActive
<1>2. ASSUME UNCHANGED callVars,
             \A j \in Jobs : status[j] \in Terminal => status'[j] \in Terminal,
             pc' = pc \/ stack = <<>>
      PROVE  CallsActive'
  BY <1>1, <1>2 DEF CallsActive, callVars, Dependents
<1>3. ASSUME NEW j \in Jobs, NEW s \in Terminal, NEW left \in [Jobs -> SUBSET Jobs],
             MarkCompleted(j, s, left),
             \A k \in Jobs : left[k] \subseteq untold[k],
             UNCHANGED pc, pc \in {"complete", "exit"}
      PROVE  CallsActive'
  <2>1. /\ status' = [status EXCEPT ![j] = s]
        /\ stack' = <<j>> \o stack
        /\ untold' = [left EXCEPT ![j] = Dependents(j)]
    BY <1>3 DEF MarkCompleted
  <2>2. ASSUME NEW k \in Jobs
        PROVE  /\ untold'[k] \subseteq Dependents(k)
               /\ untold'[k] # {} => status'[k] \in Terminal
               /\ untold'[k] # {} => OnStack(k)'
    <3>1. CASE k = j
      BY <1>1, <2>1, <3>1, StackOps
    <3>2. CASE k # j
      <4>1. untold'[k] \subseteq untold[k] /\ status'[k] = status[k]
        BY <1>1, <1>3, <2>1, <3>2
      <4>2. ASSUME OnStack(k) PROVE OnStack(k)'
        <5>1. \E i \in DOMAIN (<<j>> \o stack) : (<<j>> \o stack)[i] = k
          BY <1>1, <4>2, StackOps
        <5>2. QED BY <2>1, <5>1
      <4>3. QED BY <1>1, <4>1, <4>2
    <3>3. QED BY <3>1, <3>2
  <2>3. QED BY <1>3, <2>2 DEF CallsActive, Dependents
<1>4. CASE HandleCompletion
  <2>1. CASE status[Head(batch).job] \in Terminal
    BY <1>2, <1>4, <2>1 DEF HandleCompletion
  <2>2. CASE status[Head(batch).job] \notin Terminal
    <3>1. MarkCompleted(Head(batch).job, Head(batch).status, untold)
      BY <1>4, <2>2 DEF HandleCompletion
    <3>2. pc = "complete" /\ batch # <<>> /\ UNCHANGED pc
      BY <1>4 DEF HandleCompletion
    <3>3. QED BY <1>1, <1>3, <3>1, <3>2, CompletedWasRunning
  <2>3. QED BY <2>1, <2>2
<1>5. ASSUME NEW j \in Jobs, KillQueued(j) PROVE CallsActive'
  <2>1. pc = "exit" /\ UNCHANGED pc
    BY <1>5 DEF KillQueued
  <2>2. CASE status[j] \in Terminal
    BY <1>2, <1>5, <2>2 DEF KillQueued
  <2>3. CASE status[j] \notin Terminal
    <3>1. MarkCompleted(j, "KILLED", untold)
      BY <1>5, <2>3 DEF KillQueued
    <3>2. QED BY <1>1, <1>3, <2>1, <3>1 DEF Terminal
  <2>4. QED BY <2>2, <2>3
<1>6. ASSUME NEW j \in Jobs, NEW d \in Jobs, KillDependent(j, d)
      PROVE  CallsActive'
  <2>1. MarkCompleted(d, "KILLED", Told(j, d)) /\ UNCHANGED pc /\ stack # <<>>
    BY <1>6 DEF KillDependent, Calling
  <2>2. /\ Told(j, d) \in [Jobs -> SUBSET Jobs]
        /\ \A k \in Jobs : Told(j, d)[k] \subseteq untold[k]
    BY <1>1 DEF Told
  <2>3. pc \in {"complete", "exit"}
    BY <1>1, <2>1
  <2>4. QED BY <1>3, <2>1, <2>2, <2>3 DEF Terminal
<1>7. ASSUME NEW j \in Jobs, NEW d \in Jobs,
             ReadyDependent(j, d) \/ PassOverDependent(j, d)
      PROVE  CallsActive'
  <2>1. untold' = Told(j, d) /\ stack' = stack /\ pc' = pc
    BY <1>7 DEF ReadyDependent, PassOverDependent
  <2>2. \A k \in Jobs : untold'[k] \subseteq untold[k]
    BY <1>1, <2>1 DEF Told
  <2>3. \A k \in Jobs : status[k] \in Terminal => status'[k] \in Terminal
    BY <1>1, <1>7 DEF ReadyDependent, PassOverDependent, MarkReady, Terminal
  <2>4. QED BY <1>1, <2>1, <2>2, <2>3 DEF CallsActive, Dependents
<1>8. CASE DependentsUpdated
  <2>1. /\ stack # <<>> /\ untold[Head(stack)] = {} /\ stack' = Tail(stack)
        /\ UNCHANGED <<status, untold, pc>>
    BY <1>8 DEF DependentsUpdated
  <2>2. \A k \in Jobs : untold[k] # {} => OnStack(k)'
    BY <1>1, <2>1, StackOps
  <2>3. QED BY <1>1, <2>1, <2>2 DEF CallsActive, Dependents
<1>9. ASSUME UNCHANGED <<status, callVars>>, pc' = pc \/ stack = <<>>
      PROVE  CallsActive'
  BY <1>2, <1>9
<1>10. ASSUME \/ StartLoop \/ Submit \/ Submitted \/ AfterScheduling
              \/ WakeForCompletion \/ DrainCompletions \/ CompletionsHandled
              \/ HandleExitSignal \/ AwaitKills \/ KillsReturned
              \/ Signal \/ SetShutdownEvent \/ UNCHANGED vars
       PROVE  UNCHANGED <<status, callVars>> /\ (pc' = pc \/ stack = <<>>)
  BY <1>1, <1>10 DEF StartLoop, Submit, Submitted, AfterScheduling,
     WakeForCompletion, DrainCompletions, CompletionsHandled, HandleExitSignal,
     AwaitKills, KillsReturned, Signal, SetShutdownEvent, vars
<1>11. ASSUME NEW j \in Jobs,
              \/ SelectToLaunch(j) \/ SelectBlocked(j) \/ Requeue(j)
              \/ Accept(j) \/ Refuse(j)
       PROVE  UNCHANGED <<status, callVars, pc>>
  BY <1>11 DEF SelectToLaunch, SelectBlocked, Requeue, Accept, Refuse
<1>12. ASSUME NEW j \in Jobs, NEW s \in Outcomes,
              SubmitJobCompletion(j, s) \/ RepeatJobCompletion(j, s)
       PROVE  UNCHANGED <<status, callVars, pc>>
  BY <1>12 DEF SubmitJobCompletion, RepeatJobCompletion
<1>13. ASSUME NEW j \in Jobs, StartReady(j) PROVE CallsActive'
  <2>1. \A k \in Jobs : status[k] \in Terminal => status'[k] \in Terminal
    BY <1>1, <1>13 DEF StartReady, MarkReady, Terminal
  <2>2. QED BY <1>2, <1>13, <2>1 DEF StartReady
<1>14. ASSUME NEW j \in Jobs, MarkRunning(j) PROVE CallsActive'
  <2>1. status[j] = "QUEUED" /\ status' = [status EXCEPT ![j] = "RUNNING"]
    BY <1>14, HeldIsQueued DEF MarkRunning
  <2>2. \A k \in Jobs : status[k] \in Terminal => status'[k] \in Terminal
    BY <1>1, <2>1 DEF Terminal
  <2>3. QED BY <1>2, <1>14, <2>2 DEF MarkRunning
<1>15. QED
  BY <1>4, <1>5, <1>6, <1>7, <1>8, <1>9, <1>10, <1>11, <1>12, <1>13, <1>14
  DEF Next, SchedulerStep, UpdateDependent, Answer, Complete, Finished

(***************************************************************************)
(* What jobs wait for.                                                     *)
(***************************************************************************)
LEMMA FiniteAwaited ==
  ASSUME NEW d \in Jobs
  PROVE  /\ IsFiniteSet(Awaited(d)) /\ IsFiniteSet(Passed(d)) /\ IsFiniteSet(Deps[d])
         /\ Cardinality(Awaited(d)) = 0 <=> Awaited(d) = {}
<1>1. IsFiniteSet(Deps[d]) /\ Awaited(d) \in SUBSET Deps[d] /\ Passed(d) \in SUBSET Deps[d]
  BY FS_Subset DEF Awaited, Passed
<1>2. IsFiniteSet(Awaited(d)) /\ IsFiniteSet(Passed(d))
  BY <1>1, FS_Subset
<1>3. QED BY <1>1, <1>2, FS_EmptySet

LEMMA NoneRemain ==
  ASSUME DependenciesCounted, NEW d \in Jobs
  PROVE  remaining[d] = 0 <=> Awaited(d) = {}
BY FiniteAwaited DEF DependenciesCounted

LEMMA NoneRemainNext ==
  ASSUME DependenciesCounted', NEW d \in Jobs
  PROVE  remaining'[d] = 0 <=> Awaited(d)' = {}
<1>1. remaining'[d] = Cardinality(Awaited(d)')
  BY DEF DependenciesCounted
<1>2. IsFiniteSet(Deps[d]) /\ Awaited(d)' \in SUBSET Deps[d]
  BY FS_Subset DEF Awaited
<1>3. IsFiniteSet(Awaited(d)')
  BY <1>2, FS_Subset
<1>4. QED BY <1>1, <1>3, FS_EmptySet

Started == {"QUEUED", "RUNNING", "PASSED", "FAILED"}

LEMMA WaitsStep == IInv /\ [Next]_vars => WaitsForSomething'
<1> SUFFICES ASSUME IInv, [Next]_vars PROVE WaitsForSomething'
  OBVIOUS
<1>1. /\ status \in [Jobs -> Status]
      /\ \A j \in Jobs : /\ status[j] \in Started => Awaited(j) = {}
                         /\ status[j] = "SCHEDULED" /\ pc # "start" => Awaited(j) # {}
  BY DEF IInv, TypeOK, WaitsForSomething, Started
<1>2. DependenciesCounted /\ DependenciesCounted'
  BY CountsStep DEF IInv
<1>3. ASSUME \A d \in Jobs : Awaited(d)' = Awaited(d),
             \A d \in Jobs : /\ status'[d] \in Started =>
                                  status[d] \in Started \/ Awaited(d) = {}
                             /\ status'[d] = "SCHEDULED" /\ pc' # "start" =>
                                  Awaited(d) # {}
      PROVE  WaitsForSomething'
  BY <1>1, <1>3 DEF WaitsForSomething, Started
<1>4. ASSUME \A d \in Jobs : Steady(d), UNCHANGED status, pc # "start" \/ pc' = pc
      PROVE  WaitsForSomething'
  BY <1>1, <1>3, <1>4 DEF Steady
<1>5. ASSUME NEW j \in Jobs, NEW d \in Jobs, Tells(j, d), UNCHANGED pc,
             \A e \in Jobs \ {d} : status'[e] = status[e],
             status'[d] \in Started => Awaited(d)' = {},
             status'[d] = "SCHEDULED" => Awaited(d)' # {}
      PROVE  WaitsForSomething'
  BY <1>1, <1>5 DEF WaitsForSomething, Tells, Steady, Started
<1>6. ASSUME NEW j \in Jobs, StartReady(j) PROVE WaitsForSomething'
  <2>1. \A d \in Jobs : Steady(d)
    BY <1>6, SteadyStep
  <2>2. Awaited(j) = {}
    BY <1>2, <1>6, NoneRemain DEF StartReady
  <2>3. status' = [status EXCEPT ![j] = "QUEUED"] /\ pc = "start" /\ pc' = pc
    BY <1>6 DEF StartReady, MarkReady
  <2>4. QED BY <1>1, <1>3, <2>1, <2>2, <2>3 DEF Steady
<1>7. CASE StartLoop
  <2>1. \A d \in Jobs : Steady(d)
    BY <1>7, SteadyStep
  <2>2. \A d \in Jobs : status[d] = "SCHEDULED" => Awaited(d) # {}
    BY <1>2, <1>7, NoneRemain DEF StartLoop
  <2>3. QED BY <1>1, <1>3, <1>7, <2>1, <2>2 DEF StartLoop, Steady
<1>8. ASSUME NEW j \in Jobs, MarkRunning(j) PROVE WaitsForSomething'
  <2>1. \A d \in Jobs : Steady(d)
    BY <1>8, SteadyStep
  <2>2. status[j] = "QUEUED" /\ status' = [status EXCEPT ![j] = "RUNNING"]
    BY <1>8, HeldIsQueued DEF MarkRunning
  <2>3. pc = "mark" /\ pc' = pc
    BY <1>8 DEF MarkRunning
  <2>4. QED BY <1>1, <1>3, <2>1, <2>2, <2>3 DEF Steady, Started
<1>9. ASSUME NEW j \in Jobs, NEW s \in Terminal, \A d \in Jobs : Steady(d),
             status' = [status EXCEPT ![j] = s], UNCHANGED pc,
             status[j] \in Started
      PROVE  WaitsForSomething'
  BY <1>1, <1>3, <1>9 DEF Steady, Terminal, Started
<1>10. CASE HandleCompletion
  <2>1. \A d \in Jobs : Steady(d)
    BY <1>10, SteadyStep
  <2>2. pc = "complete" /\ batch # <<>> /\ UNCHANGED pc
    BY <1>10 DEF HandleCompletion
  <2>3. CASE status[Head(batch).job] \in Terminal
    BY <1>4, <1>10, <2>1, <2>2, <2>3 DEF HandleCompletion
  <2>4. CASE status[Head(batch).job] \notin Terminal
    <3>1. status' = [status EXCEPT ![Head(batch).job] = Head(batch).status]
      BY <1>10, <2>4 DEF HandleCompletion, MarkCompleted
    <3>2. /\ Head(batch).job \in Jobs
          /\ Head(batch).status \in Terminal
          /\ status[Head(batch).job] \in Started
      BY <2>2, <2>4, CompletedWasRunning DEF Started
    <3>3. QED BY <1>9, <2>1, <2>2, <3>1, <3>2
  <2>5. QED BY <2>3, <2>4
<1>11. ASSUME NEW j \in Jobs, KillQueued(j) PROVE WaitsForSomething'
  <2>1. \A d \in Jobs : Steady(d)
    BY <1>11, SteadyStep
  <2>2. status[j] = "QUEUED" /\ UNCHANGED pc
    BY <1>11, HeldIsQueued DEF KillQueued, IsTop
  <2>3. status' = [status EXCEPT ![j] = "KILLED"]
    BY <1>11, <2>2 DEF KillQueued, MarkCompleted, Terminal
  <2>4. QED BY <1>9, <2>1, <2>2, <2>3 DEF Terminal, Started
<1>12. ASSUME NEW j \in Jobs, NEW d \in Jobs, KillDependent(j, d)
       PROVE  WaitsForSomething'
  <2>1. Tells(j, d)
    BY <1>12, ToldStep
  <2>2. status' = [status EXCEPT ![d] = "KILLED"] /\ UNCHANGED pc
    BY <1>12 DEF KillDependent, MarkCompleted
  <2>3. QED BY <1>1, <1>5, <2>1, <2>2 DEF Started
<1>13. ASSUME NEW j \in Jobs, NEW d \in Jobs, ReadyDependent(j, d)
       PROVE  WaitsForSomething'
  <2>1. Tells(j, d)
    BY <1>13, ToldStep
  <2>2. status' = [status EXCEPT ![d] = "QUEUED"] /\ UNCHANGED pc /\ remaining'[d] = 0
    BY <1>13 DEF ReadyDependent, MarkReady, Decided
  <2>3. Awaited(d)' = {}
    BY <1>2, <2>2, NoneRemainNext
  <2>4. QED BY <1>1, <1>5, <2>1, <2>2, <2>3
<1>14. ASSUME NEW j \in Jobs, NEW d \in Jobs, PassOverDependent(j, d)
       PROVE  WaitsForSomething'
  <2>1. Calling(j, d) /\ Tells(j, d)
    BY <1>14, ToldStep
  <2>2. UNCHANGED <<status, pc>> /\ ~Decided(d) /\ (signal => status[d] \in Terminal)
    BY <1>14 DEF PassOverDependent
  <2>3. status[d] \in {"SCHEDULED", "KILLED"}
    BY <2>1, ToldIsNotReady
  <2>4. status[d] = "SCHEDULED" => remaining'[d] # 0
    BY <2>2, <2>3 DEF Decided, Terminal
  <2>5. status[d] = "SCHEDULED" => Awaited(d)' # {}
    BY <1>2, <2>4, NoneRemainNext
  <2>6. QED BY <1>1, <1>5, <2>1, <2>2, <2>3, <2>5 DEF Started
<1>15. ASSUME \/ Submit \/ Submitted \/ AfterScheduling
              \/ WakeForCompletion \/ DrainCompletions \/ CompletionsHandled
              \/ DependentsUpdated \/ HandleExitSignal \/ AwaitKills
              \/ KillsReturned \/ Signal \/ SetShutdownEvent
              \/ UNCHANGED vars
       PROVE  WaitsForSomething'
  <2>1. \A d \in Jobs : Steady(d)
    BY <1>15, SteadyStep
  <2>2. UNCHANGED status /\ (pc # "start" \/ pc' = pc)
    BY <1>15 DEF Submit, Submitted, AfterScheduling, WakeForCompletion,
       DrainCompletions, CompletionsHandled, DependentsUpdated,
       HandleExitSignal, AwaitKills, KillsReturned, Signal, SetShutdownEvent,
       vars
  <2>3. QED BY <1>4, <2>1, <2>2
<1>16. ASSUME NEW j \in Jobs,
              \/ SelectToLaunch(j) \/ SelectBlocked(j) \/ Requeue(j)
              \/ Accept(j) \/ Refuse(j)
              \/ \E s \in Outcomes : \/ SubmitJobCompletion(j, s)
                                     \/ RepeatJobCompletion(j, s)
       PROVE  WaitsForSomething'
  <2>1. \A d \in Jobs : Steady(d)
    BY <1>16, SteadyStep
  <2>2. UNCHANGED <<status, pc>>
    BY <1>16 DEF SelectToLaunch, SelectBlocked, Requeue, Accept, Refuse,
       SubmitJobCompletion, RepeatJobCompletion
  <2>3. QED BY <1>4, <2>1, <2>2
<1>17. QED
  BY <1>6, <1>7, <1>8, <1>10, <1>11, <1>12, <1>13, <1>14, <1>15, <1>16
  DEF Next, SchedulerStep, UpdateDependent, Answer, Complete, Finished

(***************************************************************************)
(* Where the scheduler is in its loop.                                     *)
(***************************************************************************)
LEMMA ConfinedStep == IInv /\ [Next]_vars => PassesConfined'
<1> SUFFICES ASSUME PassesConfined, [Next]_vars PROVE PassesConfined'
  BY DEF IInv
<1> USE DEF PassesConfined
<1>1. ASSUME UNCHANGED <<blocked, launching, pc>> PROVE PassesConfined'
  BY <1>1
<1>2. ASSUME \/ Signal \/ SetShutdownEvent \/ HandleCompletion
             \/ DependentsUpdated \/ UNCHANGED vars
      PROVE  UNCHANGED <<blocked, launching, pc>>
  BY <1>2 DEF Signal, SetShutdownEvent, HandleCompletion, DependentsUpdated,
     vars, heapVars
<1>3. ASSUME NEW j \in Jobs,
             \/ StartReady(j) \/ KillQueued(j) \/ Accept(j) \/ Refuse(j)
             \/ \E s \in Outcomes : \/ SubmitJobCompletion(j, s)
                                    \/ RepeatJobCompletion(j, s)
             \/ \E d \in Jobs : \/ ReadyDependent(j, d) \/ KillDependent(j, d)
                                \/ PassOverDependent(j, d)
      PROVE  UNCHANGED <<blocked, launching, pc>>
  BY <1>3 DEF StartReady, KillQueued, Accept, Refuse, SubmitJobCompletion,
     RepeatJobCompletion, ReadyDependent, KillDependent, PassOverDependent,
     heapVars
<1>4. ASSUME NEW j \in Jobs,
             \/ SelectToLaunch(j) \/ SelectBlocked(j) \/ MarkRunning(j) \/ Requeue(j)
      PROVE  PassesConfined'
  BY <1>4 DEF SelectToLaunch, SelectBlocked, MarkRunning, Requeue
<1>5. ASSUME \/ StartLoop \/ Submit \/ Submitted \/ AfterScheduling
             \/ WakeForCompletion \/ DrainCompletions \/ CompletionsHandled
             \/ HandleExitSignal \/ AwaitKills \/ KillsReturned
      PROVE  PassesConfined'
  BY <1>5 DEF StartLoop, Submit, Submitted, AfterScheduling,
     WakeForCompletion, DrainCompletions, CompletionsHandled,
     HandleExitSignal, AwaitKills, KillsReturned, heapVars
<1>6. QED
  BY <1>1, <1>2, <1>3, <1>4, <1>5
  DEF Next, SchedulerStep, UpdateDependent, Answer, Complete, Finished

LEMMA ShutdownStep == IInv /\ [Next]_vars => ShutdownOrdered'
<1> SUFFICES ASSUME IInv, [Next]_vars PROVE ShutdownOrdered'
  OBVIOUS
<1>1. ShutdownOrdered /\ PassesConfined /\ heap \in [Jobs -> Nat]
  BY DEF IInv, TypeOK
<1>2. ASSUME UNCHANGED <<signalVars, killRequested, heapVars>>, running' \subseteq running,
             pc' = pc \/ (pc' \notin {"start", "exit"} /\ (pc = "exit" => HeapIsEmpty))
      PROVE  ShutdownOrdered'
  <2>1. HeapIsEmpty' <=> HeapIsEmpty
    BY <1>2 DEF HeapIsEmpty, heapVars
  <2>2. QED BY <1>1, <1>2, <2>1 DEF ShutdownOrdered, PassesConfined, signalVars, heapVars
<1>3. ASSUME ~shutdownStarted, UNCHANGED <<signal, shutdownEvent, shutdownStarted>>,
             pc' = pc \/ pc' \notin {"start", "exit"}
      PROVE  ShutdownOrdered'
  BY <1>1, <1>3 DEF ShutdownOrdered
<1>4. ASSUME NEW j \in Jobs, MarkReady(j), ~signal, UNCHANGED <<signalVars, pc>>
      PROVE  ShutdownOrdered'
  BY <1>1, <1>3, <1>4 DEF ShutdownOrdered, signalVars
<1>5. ASSUME NEW j \in Jobs,
             \/ SelectToLaunch(j) \/ SelectBlocked(j) \/ MarkRunning(j) \/ Requeue(j)
      PROVE  ShutdownOrdered'
  <2>1. ~shutdownStarted
    <3>1. pc # "exit" /\ ~(HeapIsEmpty /\ launching = {})
      BY <1>1, <1>5 DEF SelectToLaunch, SelectBlocked, MarkRunning, Requeue, IsTop,
         HeapIsEmpty
    <3>2. QED BY <1>1, <3>1 DEF ShutdownOrdered
  <2>2. UNCHANGED <<signal, shutdownEvent, shutdownStarted, pc>>
    BY <1>5 DEF SelectToLaunch, SelectBlocked, MarkRunning, Requeue, signalVars
  <2>3. QED BY <1>3, <2>1, <2>2
<1>6. CASE Submit
  <2>1. CASE ~shutdownStarted
    BY <1>3, <1>6, <2>1 DEF Submit, signalVars
  <2>2. CASE shutdownStarted
    <3>1. HeapIsEmpty /\ blocked = {} /\ launching = {}
      BY <1>1, <1>6, <2>2 DEF ShutdownOrdered, Submit
    <3>2. HeapIsEmpty' /\ blocked' = {} /\ launching' = {}
      BY <1>6, <3>1 DEF Submit, HeapIsEmpty
    <3>3. QED BY <1>1, <1>6, <2>2, <3>2 DEF ShutdownOrdered, Submit, signalVars, loadVars
  <2>3. QED BY <2>1, <2>2
<1>7. CASE Signal
  <2>1. HeapIsEmpty' <=> HeapIsEmpty
    BY <1>7 DEF Signal, HeapIsEmpty, heapVars
  <2>2. QED BY <1>1, <1>7, <2>1 DEF Signal, ShutdownOrdered, Suspended, heapVars, loadVars
<1>8. CASE SetShutdownEvent
  <2>1. HeapIsEmpty' <=> HeapIsEmpty
    BY <1>8 DEF SetShutdownEvent, HeapIsEmpty, heapVars
  <2>2. QED BY <1>1, <1>8, <2>1 DEF SetShutdownEvent, ShutdownOrdered, heapVars, loadVars
<1>9. CASE HandleExitSignal
  <2>1. HeapIsEmpty' <=> HeapIsEmpty
    BY <1>9 DEF HandleExitSignal, HeapIsEmpty, heapVars
  <2>2. QED BY <1>1, <1>9, <2>1 DEF HandleExitSignal, ShutdownOrdered, heapVars, loadVars
<1>10. ASSUME NEW j \in Jobs, KillQueued(j) PROVE ShutdownOrdered'
  BY <1>1, <1>10 DEF KillQueued, ShutdownOrdered, MarkCompleted, signalVars, loadVars
<1>11. ASSUME NEW j \in Jobs, NEW d \in Jobs, ReadyDependent(j, d)
       PROVE  ShutdownOrdered'
  BY <1>4, <1>11 DEF ReadyDependent, Decided
<1>12. ASSUME NEW j \in Jobs, StartReady(j) PROVE ShutdownOrdered'
  BY <1>1, <1>4, <1>12 DEF StartReady, ShutdownOrdered
<1>13. ASSUME NEW j \in Jobs, NEW d \in Jobs,
              KillDependent(j, d) \/ PassOverDependent(j, d)
       PROVE  ShutdownOrdered'
  BY <1>2, <1>13 DEF KillDependent, PassOverDependent, MarkCompleted, loadVars
<1>14. CASE HandleCompletion
  BY <1>2, <1>14 DEF HandleCompletion, MarkCompleted, loadVars
<1>15. ASSUME \/ StartLoop \/ Submitted \/ AfterScheduling
              \/ WakeForCompletion \/ DrainCompletions \/ CompletionsHandled
              \/ DependentsUpdated \/ AwaitKills \/ KillsReturned \/ UNCHANGED vars
       PROVE  ShutdownOrdered'
  BY <1>2, <1>15 DEF StartLoop, Submitted, AfterScheduling,
     WakeForCompletion, DrainCompletions, CompletionsHandled,
     DependentsUpdated, AwaitKills, KillsReturned, vars, loadVars
<1>16. ASSUME NEW j \in Jobs,
              \/ Accept(j) \/ Refuse(j)
              \/ \E s \in Outcomes : \/ SubmitJobCompletion(j, s)
                                     \/ RepeatJobCompletion(j, s)
       PROVE  ShutdownOrdered'
  BY <1>2, <1>16 DEF Accept, Refuse, SubmitJobCompletion, RepeatJobCompletion, loadVars
<1>17. QED
  BY <1>5, <1>6, <1>7, <1>8, <1>9, <1>10, <1>11, <1>12, <1>13, <1>14, <1>15, <1>16
  DEF Next, SchedulerStep, UpdateDependent, Answer, Complete, Finished

(***************************************************************************)
(* What the backends hold.                                                 *)
(***************************************************************************)
Reported == {"ended", "repeated"}

(* Of each job, and of the completions that are on their way.              *)
OfferFollows(j) ==
  /\ offer[j] \in {"live", "ended", "repeated"} =>
       j \in launching \/ status[j] \in {"RUNNING"} \cup Terminal
  /\ offer[j] \in {"asked", "refused"} => j \in launching
  /\ j \in launching /\ pc = "select" => offer[j] = "none"
  /\ j \in launching /\ pc = "submit" => offer[j] # "none"
  /\ j \in launching /\ pc = "mark" => offer[j] \notin {"none", "asked"}

EventsReported ==
  /\ \A i \in DOMAIN queue : offer[queue[i].job] \in Reported
  /\ \A i \in DOMAIN batch : offer[batch[i].job] \in Reported
  /\ batch # <<>> => pc = "complete"

LEMMA OffersUnfold ==
  /\ OffersFollowLaunches <=> EventsReported /\ \A j \in Jobs : OfferFollows(j)
  /\ OffersFollowLaunches' <=> EventsReported' /\ \A j \in Jobs : OfferFollows(j)'
BY DEF OffersFollowLaunches, EventsReported, OfferFollows, Reported

LEMMA EventsStep == IInv /\ [Next]_vars => EventsReported'
<1> SUFFICES ASSUME IInv, [Next]_vars PROVE EventsReported'
  OBVIOUS
<1>1. /\ EventsReported
      /\ queue \in Seq(Completion) /\ batch \in Seq(Completion)
      /\ offer \in [Jobs -> Offer]
      /\ \A j \in launching : pc = "mark" => offer[j] \notin {"none", "asked"}
  BY OffersUnfold DEF IInv, TypeOK, OfferFollows
<1>2. /\ \A i \in DOMAIN queue : queue[i].job \in Jobs
      /\ \A i \in DOMAIN batch : batch[i].job \in Jobs
  <2>1. /\ \A i \in DOMAIN queue : queue[i] \in Completion
        /\ \A i \in DOMAIN batch : batch[i] \in Completion
    BY <1>1, LenProperties, ElementOfSeq
  <2>2. QED BY <2>1 DEF Completion
<1>3. ASSUME UNCHANGED <<queue, batch>>, pc' = pc \/ batch = <<>>,
             \A j \in Jobs : offer[j] \in Reported => offer'[j] \in Reported
      PROVE  EventsReported'
  BY <1>1, <1>2, <1>3 DEF EventsReported
<1>4. CASE DrainCompletions
  <2>1. batch' = queue /\ queue' = <<>> /\ pc' = "complete" /\ offer' = offer
    BY <1>4 DEF DrainCompletions
  <2>2. QED BY <1>1, <2>1 DEF EventsReported
<1>5. CASE HandleCompletion
  <2>1. /\ batch # <<>> /\ batch' = Tail(batch) /\ pc = "complete"
        /\ UNCHANGED <<queue, pc, offer>>
    BY <1>5 DEF HandleCompletion
  <2>2. /\ Len(batch') = Len(batch) - 1
        /\ \A n \in 1 .. Len(batch') : batch'[n] = batch[n + 1]
        /\ DOMAIN batch' = 1 .. Len(batch')
    BY <1>1, <2>1, HeadTailProperties, LenProperties
  <2>3. DOMAIN batch = 1 .. Len(batch) /\ Len(batch) \in Nat
    BY <1>1, LenProperties
  <2>4. ASSUME NEW n \in DOMAIN batch' PROVE offer[batch'[n].job] \in Reported
    <3>1. n + 1 \in DOMAIN batch /\ batch'[n] = batch[n + 1]
      BY <2>2, <2>3
    <3>2. QED BY <1>1, <3>1 DEF EventsReported
  <2>5. QED BY <1>1, <2>1, <2>4 DEF EventsReported
<1>6. ASSUME NEW j \in Jobs, NEW s \in Outcomes,
             SubmitJobCompletion(j, s) \/ RepeatJobCompletion(j, s)
      PROVE  EventsReported'
  <2>1. /\ queue' = Append(queue, [job |-> j, status |-> s])
        /\ offer[j] \in {"live", "ended"}
        /\ offer' = [offer EXCEPT ![j] = offer'[j]]
        /\ offer'[j] \in Reported
        /\ UNCHANGED <<pc, batch>>
    BY <1>1, <1>6 DEF SubmitJobCompletion, RepeatJobCompletion, Reported
  <2>2. \A k \in Jobs : offer[k] \in Reported => offer'[k] \in Reported
    BY <1>1, <2>1
  <2>3. [job |-> j, status |-> s] \in Completion
    BY DEF Completion, Terminal
  <2>4. /\ queue' \in Seq(Completion)
        /\ Len(queue') = Len(queue) + 1
        /\ \A i \in 1 .. Len(queue) : queue'[i] = queue[i]
        /\ queue'[Len(queue) + 1] = [job |-> j, status |-> s]
    BY <1>1, <2>1, <2>3, AppendProperties
  <2>5. /\ DOMAIN queue' = 1 .. Len(queue) + 1
        /\ DOMAIN queue = 1 .. Len(queue)
        /\ Len(queue) \in Nat
    BY <1>1, <2>4, LenProperties
  <2>6. ASSUME NEW i \in DOMAIN queue' PROVE offer'[queue'[i].job] \in Reported
    <3>1. CASE i = Len(queue) + 1
      BY <2>1, <2>4, <3>1
    <3>2. CASE i # Len(queue) + 1
      <4>1. i \in DOMAIN queue /\ queue'[i] = queue[i]
        BY <2>4, <2>5, <3>2
      <4>2. QED BY <1>1, <1>2, <2>2, <4>1 DEF EventsReported
    <3>3. QED BY <3>1, <3>2
  <2>7. QED BY <1>1, <1>2, <2>1, <2>2, <2>6 DEF EventsReported
<1>7. CASE Submit
  <2>1. \A j \in Jobs : offer[j] \in Reported => offer'[j] \in Reported
    <3>1. \A j \in launching : pc = "select" => offer[j] = "none"
      BY DEF IInv, TypeOK, OffersFollowLaunches
    <3>2. pc = "select" /\ offer' = [j \in Jobs |-> IF j \in launching THEN "asked" ELSE offer[j]]
      BY <1>7 DEF Submit
    <3>3. QED BY <3>1, <3>2 DEF Reported
  <2>2. UNCHANGED <<queue, batch>> /\ batch = <<>>
    BY <1>1, <1>7 DEF Submit, EventsReported
  <2>3. QED BY <1>3, <2>1, <2>2
<1>8. ASSUME NEW j \in Jobs, Requeue(j) \/ Accept(j) \/ Refuse(j)
      PROVE  EventsReported'
  <2>1. offer[j] \in {"refused", "asked"} /\ \E o \in Offer : offer' = [offer EXCEPT ![j] = o]
    BY <1>8 DEF Requeue, Accept, Refuse, Offer
  <2>2. UNCHANGED <<queue, batch, pc>>
    BY <1>8 DEF Requeue, Accept, Refuse
  <2>3. QED BY <1>1, <1>3, <2>1, <2>2 DEF Reported
<1>9. ASSUME UNCHANGED <<queue, batch, offer>>, pc' = pc \/ batch = <<>>
      PROVE  EventsReported'
  BY <1>3, <1>9
<1>10. ASSUME \/ StartLoop \/ Submitted \/ AfterScheduling
              \/ WakeForCompletion \/ CompletionsHandled
              \/ DependentsUpdated \/ HandleExitSignal \/ AwaitKills
              \/ KillsReturned \/ Signal \/ SetShutdownEvent \/ UNCHANGED vars
       PROVE  UNCHANGED <<queue, batch, offer>> /\ (pc' = pc \/ batch = <<>>)
  BY <1>1, <1>10 DEF StartLoop, Submitted, AfterScheduling,
     WakeForCompletion, CompletionsHandled, DependentsUpdated,
     HandleExitSignal, AwaitKills, KillsReturned, Signal, SetShutdownEvent,
     vars, EventsReported
<1>11. ASSUME NEW j \in Jobs,
              \/ StartReady(j) \/ SelectToLaunch(j) \/ SelectBlocked(j)
              \/ MarkRunning(j) \/ KillQueued(j)
              \/ \E d \in Jobs : \/ ReadyDependent(j, d) \/ KillDependent(j, d)
                                 \/ PassOverDependent(j, d)
       PROVE  UNCHANGED <<queue, batch, offer, pc>>
  BY <1>11 DEF StartReady, SelectToLaunch, SelectBlocked, MarkRunning,
     KillQueued, ReadyDependent, KillDependent, PassOverDependent
<1>12. QED
  BY <1>4, <1>5, <1>6, <1>7, <1>8, <1>9, <1>10, <1>11
  DEF Next, SchedulerStep, UpdateDependent, Answer, Complete, Finished

Active(s) == s \in {"RUNNING"} \cup Terminal

LEMMA OfferFollowsStep ==
  IInv /\ [Next]_vars => \A j \in Jobs : OfferFollows(j)'
<1> SUFFICES ASSUME IInv, [Next]_vars PROVE \A j \in Jobs : OfferFollows(j)'
  OBVIOUS
<1>1. /\ \A j \in Jobs : OfferFollows(j)
      /\ PassesConfined
      /\ status \in [Jobs -> Status] /\ offer \in [Jobs -> Offer]
      /\ launching \subseteq Jobs
  BY OffersUnfold DEF IInv, TypeOK
<1>2. ASSUME UNCHANGED <<offer, launching>>,
             \A k \in Jobs : Active(status[k]) => Active(status'[k]),
             pc' = pc \/ launching = {} \/ pc' \notin {"select", "submit", "mark"}
      PROVE  \A j \in Jobs : OfferFollows(j)'
  BY <1>1, <1>2 DEF OfferFollows, Active
<1>3. ASSUME NEW k \in Jobs, status[k] = "SCHEDULED",
             \E s \in Status : status' = [status EXCEPT ![k] = s]
      PROVE  \A j \in Jobs : Active(status[j]) => Active(status'[j])
  BY <1>1, <1>3 DEF Active, Terminal
<1>4. ASSUME NEW k \in Jobs, NEW s \in Terminal, status' = [status EXCEPT ![k] = s]
      PROVE  \A j \in Jobs : Active(status[j]) => Active(status'[j])
  BY <1>1, <1>4 DEF Active
<1>5. ASSUME \/ StartLoop \/ AfterScheduling \/ WakeForCompletion
             \/ DrainCompletions \/ CompletionsHandled \/ DependentsUpdated
             \/ HandleExitSignal \/ AwaitKills \/ KillsReturned
             \/ Signal \/ SetShutdownEvent \/ UNCHANGED vars
      PROVE  \A j \in Jobs : OfferFollows(j)'
  <2>1. UNCHANGED <<offer, launching, status>>
    BY <1>5 DEF StartLoop, AfterScheduling, WakeForCompletion,
       DrainCompletions, CompletionsHandled, DependentsUpdated,
       HandleExitSignal, AwaitKills, KillsReturned, Signal, SetShutdownEvent,
       vars, heapVars
  <2>2. pc' = pc \/ launching = {} \/ pc' \notin {"select", "submit", "mark"}
    BY <1>1, <1>5 DEF StartLoop, AfterScheduling, WakeForCompletion,
       DrainCompletions, CompletionsHandled, DependentsUpdated,
       HandleExitSignal, AwaitKills, KillsReturned, Signal, SetShutdownEvent,
       vars, PassesConfined
  <2>3. QED BY <1>2, <2>1, <2>2
<1>6. ASSUME NEW k \in Jobs, StartReady(k) \/ \E i \in Jobs : ReadyDependent(i, k)
      PROVE  \A j \in Jobs : OfferFollows(j)'
  <2>1. MarkReady(k) /\ UNCHANGED <<offer, launching, pc>>
    BY <1>6 DEF StartReady, ReadyDependent
  <2>2. QED BY <1>2, <1>3, <2>1 DEF MarkReady, Status
<1>7. CASE HandleCompletion
  <2>1. pc = "complete" /\ batch # <<>>
    BY <1>7 DEF HandleCompletion
  <2>2. Head(batch).job \in Jobs /\ Head(batch).status \in Terminal
    BY <2>1, CompletedWasRunning
  <2>3. \A j \in Jobs : Active(status[j]) => Active(status'[j])
    BY <1>4, <1>7, <2>2 DEF HandleCompletion, MarkCompleted
  <2>4. QED BY <1>2, <1>7, <2>3 DEF HandleCompletion, heapVars
<1>8. ASSUME NEW k \in Jobs, KillQueued(k) \/ \E i \in Jobs : KillDependent(i, k)
      PROVE  \A j \in Jobs : OfferFollows(j)'
  <2>1. UNCHANGED <<offer, launching, pc>>
    BY <1>8 DEF KillQueued, KillDependent, heapVars
  <2>2. UNCHANGED status \/ status' = [status EXCEPT ![k] = "KILLED"]
    BY <1>8 DEF KillQueued, KillDependent, MarkCompleted
  <2>3. QED BY <1>2, <1>4, <2>1, <2>2 DEF Terminal
<1>9. ASSUME NEW k \in Jobs, SelectBlocked(k) \/ \E i \in Jobs : PassOverDependent(i, k)
      PROVE  \A j \in Jobs : OfferFollows(j)'
  <2>1. UNCHANGED <<offer, launching, status, pc>>
    BY <1>9 DEF SelectBlocked, PassOverDependent, heapVars
  <2>2. QED BY <1>2, <2>1
<1>10. ASSUME NEW k \in Jobs, SelectToLaunch(k)
       PROVE  \A j \in Jobs : OfferFollows(j)'
  <2>1. /\ heap[k] > 0 /\ pc = "select" /\ launching' = launching \cup {k}
        /\ UNCHANGED <<status, pc, offer>>
    BY <1>10 DEF SelectToLaunch, IsTop
  <2>2. status[k] = "QUEUED" /\ (k \in launching => heap[k] = 0)
    BY <2>1, HeldIsQueued
  <2>3. k \notin launching
    BY <2>1, <2>2
  <2>4. offer[k] = "none"
    BY <1>1, <2>2, <2>3 DEF OfferFollows, Offer, Terminal
  <2>5. QED BY <1>1, <2>1, <2>4 DEF OfferFollows
<1>11. CASE Submit
  <2>1. /\ pc = "select" /\ pc' \in {"mark", "submit"}
        /\ launching # {} => pc' = "submit"
        /\ offer' = [j \in Jobs |-> IF j \in launching THEN "asked" ELSE offer[j]]
        /\ UNCHANGED <<status, launching>>
    BY <1>11 DEF Submit
  <2>2. QED BY <1>1, <2>1 DEF OfferFollows
<1>12. CASE Submitted
  <2>1. /\ pc = "submit" /\ pc' = "mark" /\ \A j \in launching : offer[j] # "asked"
        /\ UNCHANGED <<status, launching, offer>>
    BY <1>12 DEF Submitted, heapVars
  <2>2. QED BY <1>1, <2>1 DEF OfferFollows
<1>13. ASSUME NEW k \in Jobs, MarkRunning(k)
       PROVE  \A j \in Jobs : OfferFollows(j)'
  <2>1. /\ pc = "mark" /\ k \in launching /\ offer[k] # "refused"
        /\ launching' = launching \ {k}
        /\ status' = [status EXCEPT ![k] = "RUNNING"]
        /\ UNCHANGED <<offer, pc>>
    BY <1>13 DEF MarkRunning
  <2>2. QED BY <1>1, <2>1 DEF OfferFollows
<1>14. ASSUME NEW k \in Jobs, Requeue(k)
       PROVE  \A j \in Jobs : OfferFollows(j)'
  <2>1. /\ pc = "mark" /\ launching' = launching \ {k}
        /\ offer' = [offer EXCEPT ![k] = "none"]
        /\ UNCHANGED <<status, pc>>
    BY <1>14 DEF Requeue
  <2>2. QED BY <1>1, <2>1 DEF OfferFollows
<1>15. ASSUME NEW k \in Jobs, Accept(k) \/ Refuse(k)
       PROVE  \A j \in Jobs : OfferFollows(j)'
  <2>1. /\ pc = "submit" /\ offer[k] = "asked"
        /\ \E o \in {"live", "refused"} : offer' = [offer EXCEPT ![k] = o]
        /\ UNCHANGED <<status, launching, pc>>
    BY <1>15 DEF Accept, Refuse, heapVars
  <2>2. QED BY <1>1, <2>1 DEF OfferFollows
<1>16. ASSUME NEW k \in Jobs, \E s \in Outcomes : \/ SubmitJobCompletion(k, s)
                                                   \/ RepeatJobCompletion(k, s)
       PROVE  \A j \in Jobs : OfferFollows(j)'
  <2>1. /\ pc \in Suspended /\ offer[k] \in {"live", "ended"}
        /\ \E o \in {"ended", "repeated"} : offer' = [offer EXCEPT ![k] = o]
        /\ UNCHANGED <<status, launching, pc>>
    BY <1>16 DEF SubmitJobCompletion, RepeatJobCompletion, heapVars
  <2>2. QED BY <1>1, <2>1 DEF OfferFollows, Suspended
<1>17. QED
  BY <1>5, <1>6, <1>7, <1>8, <1>9, <1>10, <1>11, <1>12, <1>13, <1>14, <1>15, <1>16
  DEF Next, SchedulerStep, UpdateDependent, Answer, Complete, Finished

LEMMA DoneStep ==
  ASSUME IInv, [Next]_vars, pc' = "done"
  PROVE  running' = {} /\ HeapIsEmpty'
<1>1. CASE AfterScheduling
  <2>1. running = {} /\ HeapIsEmpty /\ UNCHANGED <<running, heap>>
    BY <1>1 DEF AfterScheduling, heapVars, loadVars
  <2>2. QED BY <2>1 DEF HeapIsEmpty
<1>2. CASE UNCHANGED <<running, heap, pc>>
  BY <1>2 DEF IInv, LoopBounded, HeapIsEmpty
<1>3. ASSUME Signal \/ SetShutdownEvent \/ DependentsUpdated \/ UNCHANGED vars
      PROVE  UNCHANGED <<running, heap, pc>>
  BY <1>3 DEF Signal, SetShutdownEvent, DependentsUpdated, vars, heapVars, loadVars
<1>4. ASSUME NEW j \in Jobs,
             \/ Accept(j) \/ Refuse(j)
             \/ \E s \in Outcomes : \/ SubmitJobCompletion(j, s)
                                    \/ RepeatJobCompletion(j, s)
             \/ \E d \in Jobs : PassOverDependent(j, d)
      PROVE  UNCHANGED <<running, heap, pc>>
  BY <1>4 DEF Accept, Refuse, SubmitJobCompletion, RepeatJobCompletion,
     PassOverDependent, heapVars, loadVars
<1>5. ASSUME \/ StartLoop \/ Submit \/ Submitted \/ WakeForCompletion
             \/ DrainCompletions \/ HandleCompletion \/ CompletionsHandled
             \/ HandleExitSignal \/ AwaitKills \/ KillsReturned
      PROVE  pc' # "done"
  BY <1>5 DEF StartLoop, Submit, Submitted, WakeForCompletion,
     DrainCompletions, HandleCompletion, CompletionsHandled,
     HandleExitSignal, AwaitKills, KillsReturned
<1>6. ASSUME NEW j \in Jobs,
             \/ StartReady(j) \/ SelectToLaunch(j) \/ SelectBlocked(j)
             \/ MarkRunning(j) \/ Requeue(j) \/ KillQueued(j)
      PROVE  pc' # "done"
  BY <1>6 DEF StartReady, SelectToLaunch, SelectBlocked, MarkRunning, Requeue, KillQueued
<1>7. ASSUME NEW j \in Jobs, NEW d \in Jobs, ReadyDependent(j, d) \/ KillDependent(j, d)
      PROVE  pc' # "done"
  <2>1. pc \in {"complete", "exit"}
    BY <1>7 DEF ReadyDependent, KillDependent, Calling, IInv, CallsActive
  <2>2. QED BY <1>7, <2>1 DEF ReadyDependent, KillDependent
<1>8. QED
  BY <1>1, <1>2, <1>3, <1>4, <1>5, <1>6, <1>7
  DEF Next, SchedulerStep, UpdateDependent, Answer, Complete, Finished

LEMMA BoundedStep == IInv /\ [Next]_vars => LoopBounded'
<1> SUFFICES ASSUME IInv, [Next]_vars, pc' = "start"
             PROVE  \A j \in Jobs : status'[j] \in {"SCHEDULED", "QUEUED"}
  BY DoneStep DEF LoopBounded
<1>1. /\ pc = "start" => \A j \in Jobs : status[j] \in {"SCHEDULED", "QUEUED"}
      /\ pc = "start" => stack = <<>>
      /\ status \in [Jobs -> Status]
  BY DEF IInv, TypeOK, LoopBounded, CallsActive
<1>2. CASE UNCHANGED vars
  BY <1>1, <1>2 DEF vars
<1>3. ASSUME NEW k \in Jobs, StartReady(k)
      PROVE  \A j \in Jobs : status'[j] \in {"SCHEDULED", "QUEUED"}
  BY <1>1, <1>3 DEF StartReady, MarkReady
<1>4. ASSUME \/ StartLoop \/ Submit \/ Submitted \/ AfterScheduling
             \/ WakeForCompletion \/ DrainCompletions \/ HandleCompletion
             \/ CompletionsHandled \/ DependentsUpdated \/ HandleExitSignal
             \/ AwaitKills \/ KillsReturned \/ Signal \/ SetShutdownEvent
      PROVE  pc' # "start"
  BY <1>1, <1>4 DEF StartLoop, Submit, Submitted, AfterScheduling,
     WakeForCompletion, DrainCompletions, HandleCompletion,
     CompletionsHandled, DependentsUpdated, HandleExitSignal, AwaitKills,
     KillsReturned, Signal, SetShutdownEvent, Suspended
<1>5. ASSUME NEW j \in Jobs,
             \/ SelectToLaunch(j) \/ SelectBlocked(j) \/ MarkRunning(j) \/ Requeue(j)
             \/ KillQueued(j) \/ Accept(j) \/ Refuse(j)
             \/ \E s \in Outcomes : \/ SubmitJobCompletion(j, s)
                                    \/ RepeatJobCompletion(j, s)
             \/ \E d \in Jobs : \/ ReadyDependent(j, d) \/ KillDependent(j, d)
                                \/ PassOverDependent(j, d)
      PROVE  pc' # "start"
  BY <1>1, <1>5 DEF SelectToLaunch, SelectBlocked, MarkRunning, Requeue,
     KillQueued, Accept, Refuse, SubmitJobCompletion, RepeatJobCompletion,
     ReadyDependent, KillDependent, PassOverDependent, Calling, Suspended
<1>6. QED
  BY <1>2, <1>3, <1>4, <1>5
  DEF Next, SchedulerStep, UpdateDependent, Answer, Complete, Finished

(***************************************************************************)
(* The invariant, and what follows from it.                                *)
(***************************************************************************)
LEMMA InvariantInit == Init => IInv
<1> SUFFICES ASSUME Init PROVE IInv OBVIOUS
<1>1. TypeOK
  BY TypeInit
<1>2. /\ \A j \in Jobs : status[j] = "SCHEDULED" /\ untold[j] = {}
      /\ \A j \in Jobs : heap[j] = 0 /\ passing[j] = 0 /\ offer[j] = "none"
      /\ \A j \in Jobs : remaining[j] = Cardinality(Deps[j])
      /\ running = {} /\ launching = {} /\ blocked = {} /\ killRequested = {}
      /\ pc = "start" /\ stack = <<>> /\ queue = <<>> /\ batch = <<>>
      /\ signal = FALSE /\ shutdownEvent = "unset" /\ shutdownStarted = FALSE
  BY DEF Init
<1>3. DependenciesCounted
  <2>1. \A d \in Jobs : Awaited(d) = Deps[d] /\ Passed(d) = {}
    BY <1>2 DEF Awaited, Passed, Terminal
  <2>2. QED BY <1>2, <2>1, FS_EmptySet DEF DependenciesCounted
<1>4. QueuedJobsHeldOnce
  BY <1>2 DEF QueuedJobsHeldOnce, Count
<1>5. RunningMatches /\ CallsActive /\ WaitsForSomething /\ PassesConfined
  BY <1>2 DEF RunningMatches, CallsActive, WaitsForSomething, PassesConfined
<1>6. OffersFollowLaunches
  BY <1>2 DEF OffersFollowLaunches
<1>7. ShutdownOrdered /\ LoopBounded
  BY <1>2 DEF ShutdownOrdered, LoopBounded
<1>8. QED BY <1>1, <1>3, <1>4, <1>5, <1>6, <1>7 DEF IInv

LEMMA InvariantStep == IInv /\ [Next]_vars => IInv'
<1> SUFFICES ASSUME IInv, [Next]_vars PROVE IInv' OBVIOUS
<1>1. TypeOK' /\ DependenciesCounted' /\ QueuedJobsHeldOnce'
  BY TypeStep, CountsStep, HeldOnceStep DEF IInv
<1>2. RunningMatches' /\ CallsActive' /\ WaitsForSomething' /\ PassesConfined'
  BY RunningStep, CallsStep, WaitsStep, ConfinedStep
<1>3. OffersFollowLaunches'
  BY OffersUnfold, EventsStep, OfferFollowsStep
<1>4. ShutdownOrdered' /\ LoopBounded'
  BY ShutdownStep, BoundedStep
<1>5. QED BY <1>1, <1>2, <1>3, <1>4 DEF IInv

(* The invariant holds in every reachable state.                           *)
THEOREM InvariantHolds == Spec => []IInv
<1>1. QED BY InvariantInit, InvariantStep, PTL DEF Spec

(* The dependency counters of every job agree with the statuses of its     *)
(* dependencies: _update_completed_job_deps() tells each dependent of each *)
(* job that ends once, whatever the order of the completions.              *)
THEOREM CountersAreRight == Spec => []DependenciesCounted
<1>1. IInv => DependenciesCounted
  BY DEF IInv
<1>2. QED BY <1>1, InvariantHolds, PTL

(* No queued job is lost or held twice by the heap, a pass of              *)
(* _get_jobs_to_launch() and a pass of _schedule_ready_jobs().             *)
THEOREM QueueIsRight == Spec => []QueuedJobsHeldOnce
<1>1. IInv => QueuedJobsHeldOnce
  BY DEF IInv
<1>2. QED BY <1>1, InvariantHolds, PTL

(* _handle_exit_signal() leaves nothing to launch, and asks whatever runs  *)
(* to stop.                                                                *)
THEOREM ShutdownIsComplete == Spec => []ShutdownReachesEveryJob
<1>1. IInv => ShutdownReachesEveryJob
  BY DEF IInv, ShutdownOrdered, ShutdownReachesEveryJob
<1>2. QED BY <1>1, InvariantHolds, PTL

LEMMA NoneLeft == IInv => NoJobForgotten
<1> SUFFICES ASSUME IInv, pc = "done" PROVE \A j \in Jobs : status[j] \in Terminal
  BY DEF NoJobForgotten
<1> DEFINE S == {j \in Jobs : status[j] \notin Terminal}
<1>1. ASSUME NEW j \in S PROVE status[j] = "SCHEDULED"
  <2>1. status[j] \in {"SCHEDULED", "QUEUED", "RUNNING"} /\ j \in Jobs
    BY DEF IInv, TypeOK, Status
  <2>2. status[j] # "RUNNING"
    BY <2>1 DEF IInv, LoopBounded, RunningMatches
  <2>3. heap[j] = 0 /\ j \notin blocked /\ j \notin launching
    BY <2>1 DEF IInv, LoopBounded, HeapIsEmpty, PassesConfined
  <2>4. heap[j] + Count(j \in blocked) + Count(j \in launching) = Count(status[j] = "QUEUED")
    BY <2>1 DEF IInv, QueuedJobsHeldOnce
  <2>5. status[j] # "QUEUED"
    BY <2>3, <2>4 DEF Count
  <2>6. QED BY <2>1, <2>2, <2>5
<1>2. \A p \in Jobs : untold[p] = {}
  BY EmptySeq, LenProperties DEF IInv, CallsActive
<1>3. SUFFICES ASSUME S # {} PROVE FALSE
  OBVIOUS
<1>4. PICK j \in S : Deps[j] \cap S = {}
  BY <1>3, AcyclicAssumption
<1>5. status[j] = "SCHEDULED" /\ Awaited(j) # {}
  BY <1>1 DEF IInv, WaitsForSomething
<1>6. PICK p \in Deps[j] : status[p] \notin Terminal \/ j \in untold[p]
  BY <1>5 DEF Awaited
<1>7. p \in Jobs /\ p \in S
  BY <1>2, <1>6
<1>8. QED BY <1>4, <1>6, <1>7

(* run() returns a final status for every job: in an acyclic graph none is *)
(* left behind because a job that it depends on was never told to it.      *)
THEOREM NoneForgotten == Spec => []NoJobForgotten
<1>1. QED BY NoneLeft, InvariantHolds, PTL

LEMMA OnlyReadyQueues ==
  ASSUME IInv, [Next]_vars, signal, NEW j \in Jobs, status[j] # "QUEUED"
  PROVE  status'[j] # "QUEUED"
<1>1. status \in [Jobs -> Status]
  BY DEF IInv, TypeOK
<1>2. CASE UNCHANGED status
  BY <1>2
<1>3. ASSUME NEW k \in Jobs, NEW s \in {"RUNNING"} \cup Terminal,
             status' = [status EXCEPT ![k] = s]
      PROVE  status'[j] # "QUEUED"
  BY <1>1, <1>3 DEF Terminal
<1>4. ASSUME NEW k \in Jobs, StartReady(k) \/ \E i \in Jobs : ReadyDependent(i, k)
      PROVE  FALSE
  BY <1>4 DEF StartReady, ReadyDependent, Decided, IInv, ShutdownOrdered
<1>5. ASSUME NEW k \in Jobs,
             \/ MarkRunning(k) \/ KillQueued(k) \/ \E i \in Jobs : KillDependent(i, k)
      PROVE  status'[j] # "QUEUED"
  BY <1>2, <1>3, <1>5 DEF MarkRunning, KillQueued, KillDependent, MarkCompleted, Terminal
<1>6. CASE HandleCompletion
  BY <1>2, <1>3, <1>6, CompletedWasRunning DEF HandleCompletion, MarkCompleted
<1>7. ASSUME \/ StartLoop \/ Submit \/ Submitted \/ AfterScheduling
             \/ WakeForCompletion \/ DrainCompletions \/ CompletionsHandled
             \/ DependentsUpdated \/ HandleExitSignal \/ AwaitKills
             \/ KillsReturned \/ Signal \/ SetShutdownEvent \/ UNCHANGED vars
      PROVE  UNCHANGED status
  BY <1>7 DEF StartLoop, Submit, Submitted, AfterScheduling,
     WakeForCompletion, DrainCompletions, CompletionsHandled,
     DependentsUpdated, HandleExitSignal, AwaitKills, KillsReturned, Signal,
     SetShutdownEvent, vars
<1>8. ASSUME NEW k \in Jobs,
             \/ SelectToLaunch(k) \/ SelectBlocked(k) \/ Requeue(k)
             \/ Accept(k) \/ Refuse(k)
             \/ \E s \in Outcomes : \/ SubmitJobCompletion(k, s)
                                    \/ RepeatJobCompletion(k, s)
             \/ \E d \in Jobs : PassOverDependent(k, d)
      PROVE  UNCHANGED status
  BY <1>8 DEF SelectToLaunch, SelectBlocked, Requeue, Accept, Refuse,
     SubmitJobCompletion, RepeatJobCompletion, PassOverDependent
<1>9. QED
  BY <1>2, <1>4, <1>5, <1>6, <1>7, <1>8
  DEF Next, SchedulerStep, UpdateDependent, Answer, Complete, Finished

(* From the moment a signal is received no job becomes ready, whatever     *)
(* completes before the main loop acts on the signal.                      *)
THEOREM SignalStopsReadying == Spec => NothingReadiedAfterSignal
<1>1. IInv /\ [Next]_vars =>
        [signal => \A j \in Jobs : status[j] # "QUEUED" => status'[j] # "QUEUED"]_vars
  BY OnlyReadyQueues
<1>2. QED BY <1>1, InvariantHolds, PTL DEF Spec, NothingReadiedAfterSignal

(***************************************************************************)
(* The scheduler implements JobLifecycle.                                  *)
(***************************************************************************)
LEMMA AllOrSomePassed ==
  ASSUME NEW d \in Jobs, NEW P \in SUBSET Deps[d], Deps[d] # {},
         NEW n, n = Cardinality(P)
  PROVE  /\ n = Cardinality(Deps[d]) <=> P = Deps[d]
         /\ n > 0 <=> P # {}
<1>1. IsFiniteSet(Deps[d]) /\ IsFiniteSet(P)
  BY FS_Subset
<1>2. Cardinality(P) = Cardinality(Deps[d]) => P = Deps[d]
  BY <1>1, FS_Subset
<1>3. Cardinality(P) \in Nat /\ Cardinality(Deps[d]) \in Nat
  BY <1>1, FS_CardinalityType
<1>4. Cardinality(P) = 0 <=> P = {}
  BY <1>1, FS_EmptySet
<1>5. QED BY <1>2, <1>3, <1>4

(* When the last dependency of d has been counted, what is counted decides *)
(* as JobLifecycle does.                                                   *)
LEMMA CountsDecide ==
  ASSUME IInv, IInv', NEW j \in Jobs, NEW d \in Jobs, Calling(j, d), Tells(j, d),
         Decided(d)
  PROVE  /\ Lifecycle!Settled(d)
         /\ Lifecycle!Allowed(d) <=> EnoughPassed(d)
<1>1. remaining'[d] = 0 /\ status[d] = "SCHEDULED"
  BY DEF Decided
<1>2. Awaited(d)' = {}
  BY <1>1, NoneRemainNext DEF IInv
<1>3. Awaited(d) = {j} /\ Deps[d] # {} /\ j \in Deps[d]
  BY <1>2 DEF Tells, Awaited
<1>4. status[j] \in Terminal
  BY DEF Calling, IInv, CallsActive
<1>5. \A p \in Deps[d] : status[p] \in Terminal
  BY <1>3, <1>4 DEF Awaited
<1>6. passing'[d] = Cardinality(Passed(d)')
  BY DEF IInv, DependenciesCounted
<1>7. Passed(d)' = {p \in Deps[d] : status[p] = "PASSED"}
  <2>1. Passed(d) = {p \in Deps[d] : status[p] = "PASSED" /\ p # j}
    <3>1. \A p \in Deps[d] \ {j} : d \notin untold[p]
      BY <1>3 DEF Awaited
    <3>2. d \in untold[j]
      BY DEF Calling
    <3>3. QED BY <3>1, <3>2 DEF Passed
  <2>2. QED BY <1>3, <2>1 DEF Tells
<1>8. Passed(d)' \in SUBSET Deps[d]
  BY <1>7
<1>9. /\ passing'[d] = Cardinality(Deps[d]) <=> Passed(d)' = Deps[d]
      /\ passing'[d] > 0 <=> Passed(d)' # {}
  BY <1>3, <1>6, <1>8, AllOrSomePassed
<1>10. Lifecycle!Settled(d)
  BY <1>5 DEF Lifecycle!Settled, Lifecycle!Terminal, Terminal
<1>11. Lifecycle!Allowed(d) <=> EnoughPassed(d)
  <2>1. Passed(d)' = Deps[d] <=> \A p \in Deps[d] : status[p] = "PASSED"
    BY <1>7
  <2>2. Passed(d)' # {} <=> \E p \in Deps[d] : status[p] = "PASSED"
    BY <1>7
  <2>3. NeedsAll[d] \in BOOLEAN
    OBVIOUS
  <2>4. QED BY <1>3, <1>9, <1>10, <2>1, <2>2, <2>3 DEF Lifecycle!Allowed, EnoughPassed
<1>12. QED BY <1>10, <1>11

LEMMA LifecycleInit == Init => Lifecycle!Init
BY DEF Init, Lifecycle!Init

LEMMA LifecycleStep ==
  ASSUME IInv, IInv', [Next]_vars
  PROVE  [Lifecycle!Next]_<<status, signal, shutdownStarted>>
<1> USE DEF Lifecycle!Next
<1>1. ASSUME UNCHANGED <<status, signal, shutdownStarted>>
      PROVE  [Lifecycle!Next]_<<status, signal, shutdownStarted>>
  BY <1>1
<1>2. ASSUME NEW j \in Jobs, StartReady(j) PROVE Lifecycle!Queue(j)
  <2>1. /\ pc = "start" /\ remaining[j] = 0 /\ status[j] = "SCHEDULED"
        /\ status' = [status EXCEPT ![j] = "QUEUED"]
        /\ UNCHANGED <<signal, shutdownStarted>>
    BY <1>2 DEF StartReady, MarkReady, signalVars
  <2>2. Awaited(j) = {}
    BY <2>1, NoneRemain DEF IInv
  <2>3. \A p \in Deps[j] : status[p] \in Terminal /\ status[p] \in {"SCHEDULED", "QUEUED"}
    BY <2>1, <2>2 DEF Awaited, IInv, LoopBounded
  <2>4. Deps[j] = {}
    BY <2>3 DEF Terminal
  <2>5. Lifecycle!Allowed(j)
    BY <2>4 DEF Lifecycle!Allowed, Lifecycle!Settled
  <2>6. QED BY <2>1, <2>5 DEF Lifecycle!Queue, Lifecycle!Become
<1>3. ASSUME NEW j \in Jobs, NEW d \in Jobs, ReadyDependent(j, d)
      PROVE  Lifecycle!Queue(d)
  <2>1. Calling(j, d) /\ Tells(j, d)
    BY <1>3, ToldStep
  <2>2. /\ Decided(d) /\ EnoughPassed(d) /\ status[d] = "SCHEDULED"
        /\ status' = [status EXCEPT ![d] = "QUEUED"]
        /\ UNCHANGED <<signal, shutdownStarted>>
    BY <1>3 DEF ReadyDependent, MarkReady, signalVars
  <2>3. status \in [Jobs -> Status]
    BY DEF IInv, TypeOK
  <2>4. Lifecycle!Allowed(d)
    BY <2>1, <2>2, <2>3, CountsDecide
  <2>5. QED BY <2>2, <2>4 DEF Lifecycle!Queue, Lifecycle!Become
<1>4. ASSUME NEW j \in Jobs, NEW d \in Jobs, KillDependent(j, d)
      PROVE  Lifecycle!Cancel(d)
  <2>1. Calling(j, d) /\ Tells(j, d)
    BY <1>4, ToldStep
  <2>2. /\ status' = [status EXCEPT ![d] = "KILLED"]
        /\ UNCHANGED <<signal, shutdownStarted>>
    BY <1>4 DEF KillDependent, MarkCompleted, signalVars
  <2>3. status \in [Jobs -> Status]
    BY DEF IInv, TypeOK
  <2>4. CASE Decided(d) /\ ~EnoughPassed(d)
    <3>1. Lifecycle!RuledOut(d)
      BY <2>1, <2>2, <2>3, <2>4, CountsDecide DEF Lifecycle!RuledOut
    <3>2. QED BY <2>2, <2>4, <3>1 DEF Decided, Lifecycle!Cancel, Lifecycle!Become
  <2>5. CASE signal /\ status[d] \notin Terminal
    <3>1. status[d] = "SCHEDULED" /\ j \in Awaited(d)
      BY <2>1, <2>5, ToldIsNotReady DEF Terminal
    <3>2. j \in Deps[d] /\ status[j] \in Terminal
      BY <2>1, <3>1 DEF Awaited, Calling, IInv, CallsActive
    <3>3. QED BY <2>2, <2>5, <3>1, <3>2
              DEF Lifecycle!Cancel, Lifecycle!Become, Lifecycle!Terminal, Terminal
  <2>6. QED BY <1>4, <2>4, <2>5 DEF KillDependent
<1>5. ASSUME NEW j \in Jobs, MarkRunning(j) PROVE Lifecycle!Launch(j)
  <2>1. /\ j \in launching /\ pc = "mark"
        /\ status' = [status EXCEPT ![j] = "RUNNING"]
        /\ UNCHANGED <<signal, shutdownStarted>>
    BY <1>5 DEF MarkRunning, signalVars
  <2>2. status[j] = "QUEUED" /\ ~shutdownStarted
    BY <2>1, HeldIsQueued DEF IInv, ShutdownOrdered
  <2>3. QED BY <2>1, <2>2 DEF Lifecycle!Launch, Lifecycle!Become
<1>6. CASE HandleCompletion
  <2>1. pc = "complete" /\ batch # <<>> /\ UNCHANGED <<signal, shutdownStarted>>
    BY <1>6 DEF HandleCompletion, signalVars
  <2>2. /\ Head(batch).job \in Jobs /\ Head(batch).status \in Terminal
        /\ status[Head(batch).job] \in {"RUNNING"} \cup Terminal
    BY <2>1, CompletedWasRunning
  <2>3. CASE status[Head(batch).job] \in Terminal
    BY <1>1, <1>6, <2>1, <2>3 DEF HandleCompletion
  <2>4. CASE status[Head(batch).job] \notin Terminal
    <3>1. status' = [status EXCEPT ![Head(batch).job] = Head(batch).status]
      BY <1>6, <2>4 DEF HandleCompletion, MarkCompleted
    <3>2. Lifecycle!Finish(Head(batch).job)
      BY <2>1, <2>2, <2>4, <3>1
      DEF Lifecycle!Finish, Lifecycle!Become, Lifecycle!Terminal, Terminal
    <3>3. QED BY <2>2, <3>2
  <2>5. QED BY <2>3, <2>4
<1>7. ASSUME NEW j \in Jobs, KillQueued(j) PROVE Lifecycle!Cancel(j)
  <2>1. /\ pc = "exit" /\ heap[j] > 0 /\ UNCHANGED <<signal, shutdownStarted>>
    BY <1>7 DEF KillQueued, IsTop, signalVars
  <2>2. status[j] = "QUEUED" /\ shutdownStarted
    BY <2>1, HeldIsQueued DEF IInv, ShutdownOrdered
  <2>3. status' = [status EXCEPT ![j] = "KILLED"]
    BY <1>7, <2>2 DEF KillQueued, MarkCompleted, Terminal
  <2>4. QED BY <2>1, <2>2, <2>3 DEF Lifecycle!Cancel, Lifecycle!Become
<1>8. CASE Signal
  BY <1>8 DEF Signal, Lifecycle!Signal
<1>9. CASE HandleExitSignal
  <2>1. signal
    BY <1>9 DEF HandleExitSignal, IInv, ShutdownOrdered
  <2>2. QED BY <1>9, <2>1 DEF HandleExitSignal, Lifecycle!Close
<1>10. ASSUME \/ StartLoop \/ Submit \/ Submitted \/ AfterScheduling
              \/ WakeForCompletion \/ DrainCompletions \/ CompletionsHandled
              \/ DependentsUpdated \/ AwaitKills \/ KillsReturned
              \/ SetShutdownEvent \/ UNCHANGED vars
       PROVE  UNCHANGED <<status, signal, shutdownStarted>>
  BY <1>10 DEF StartLoop, Submit, Submitted, AfterScheduling,
     WakeForCompletion, DrainCompletions, CompletionsHandled,
     DependentsUpdated, AwaitKills, KillsReturned, SetShutdownEvent, vars,
     signalVars
<1>11. ASSUME NEW j \in Jobs,
              \/ SelectToLaunch(j) \/ SelectBlocked(j) \/ Requeue(j)
              \/ Accept(j) \/ Refuse(j)
              \/ \E s \in Outcomes : \/ SubmitJobCompletion(j, s)
                                     \/ RepeatJobCompletion(j, s)
              \/ \E d \in Jobs : PassOverDependent(j, d)
       PROVE  UNCHANGED <<status, signal, shutdownStarted>>
  BY <1>11 DEF SelectToLaunch, SelectBlocked, Requeue, Accept, Refuse,
     SubmitJobCompletion, RepeatJobCompletion, PassOverDependent, signalVars
<1>12. QED
  BY <1>1, <1>2, <1>3, <1>4, <1>5, <1>6, <1>7, <1>8, <1>9, <1>10, <1>11
  DEF Next, SchedulerStep, UpdateDependent, Answer, Complete, Finished

(* The life that observers of the scheduler see each job live is one that  *)
(* JobLifecycle allows.                                                    *)
THEOREM SchedulerImplementsLifecycle == Spec => ImplementsLifecycle
<1>1. IInv /\ IInv' /\ [Next]_vars => [Lifecycle!Next]_<<status, signal, shutdownStarted>>
  BY LifecycleStep
<1>2. QED
  BY <1>1, LifecycleInit, InvariantHolds, PTL
  DEF Spec, ImplementsLifecycle, Lifecycle!Spec, Lifecycle!vars

Facts == INSTANCE JobLifecycleProofs WITH shutdown <- signal, closing <- shutdownStarted

(* Hence the scheduler runs no job before its dependencies have ended with *)
(* results that allow it to run, and never takes a result back.            *)
THEOREM SchedulerRespectsOrder == Spec => []Facts!DependenciesRespected
<1>1. Facts!Spec => []Facts!DependenciesRespected
  BY Facts!OrderRespected
<1>2. Lifecycle!Init => Facts!Init
  BY DEF Facts!Init, Lifecycle!Init
<1>3. [Lifecycle!Next]_<<status, signal, shutdownStarted>> =>
        [Facts!Next]_<<status, signal, shutdownStarted>>
  BY DEF Lifecycle!Next, Lifecycle!Queue, Lifecycle!Launch, Lifecycle!Finish,
     Lifecycle!Cancel, Lifecycle!Signal, Lifecycle!Close, Lifecycle!Become,
     Lifecycle!Allowed, Lifecycle!RuledOut, Lifecycle!Settled, Lifecycle!Terminal,
     Facts!Next, Facts!Queue, Facts!Launch, Facts!Finish, Facts!Cancel,
     Facts!Signal, Facts!Close, Facts!Become, Facts!Allowed, Facts!RuledOut,
     Facts!Settled, Facts!Terminal
<1>4. QED
  BY <1>1, <1>2, <1>3, SchedulerImplementsLifecycle, PTL
  DEF ImplementsLifecycle, Lifecycle!Spec, Lifecycle!vars, Facts!Spec, Facts!vars

-----------------------------------------------------------------------------
LEMMA ContractStep == IInv /\ [Next]_vars => [Contract!Next]_offer
<1> SUFFICES ASSUME IInv, [Next]_vars, offer' # offer PROVE Contract!Next
  BY DEF vars
<1> USE DEF Contract!Ask, Contract!Requeue, Contract!Answer, Contract!Report,
        Contract!Repeat, Contract!Moves
<1>1. /\ offer \in [Jobs -> Offer] /\ offer' \in [Jobs -> Contract!Offer]
      /\ launching \subseteq Jobs
      /\ \A j \in launching : pc = "select" => offer[j] = "none"
  BY TypeStep DEF IInv, TypeOK, OffersFollowLaunches, Offer, Contract!Offer
<1>2. CASE Submit
  <2>1. /\ pc = "select"
        /\ offer' = [j \in Jobs |-> IF j \in launching THEN "asked" ELSE offer[j]]
    BY <1>2 DEF Submit
  <2>2. QED BY <1>1, <2>1 DEF Contract!Next
<1>3. ASSUME NEW j \in Jobs, Requeue(j) PROVE Contract!Next
  BY <1>1, <1>3 DEF Requeue, Contract!Next
<1>4. ASSUME NEW j \in Jobs,
             \/ Accept(j) \/ Refuse(j)
             \/ \E s \in Outcomes : SubmitJobCompletion(j, s) \/ RepeatJobCompletion(j, s)
      PROVE  Contract!Next
  BY <1>1, <1>4 DEF Accept, Refuse, SubmitJobCompletion, RepeatJobCompletion, Contract!Next
<1>5. QED
  BY <1>2, <1>3, <1>4 DEF Next, SchedulerStep, UpdateDependent, Answer, Complete,
     Finished, vars, StartLoop, Submitted, AfterScheduling, WakeForCompletion,
     DrainCompletions, HandleCompletion, CompletionsHandled, ReadyDependent,
     KillDependent, PassOverDependent, DependentsUpdated, HandleExitSignal,
     AwaitKills, KillsReturned, StartReady, SelectToLaunch, SelectBlocked,
     MarkRunning, KillQueued, Signal, SetShutdownEvent

(* Whatever the backends answer, no job is submitted to one that has it or  *)
(* has completed it: the scheduler is a client as BackendContract asks.     *)
THEOREM SchedulerKeepsContract == Spec => KeepsContract
<1>1. Init => Contract!Init
  BY DEF Init, Contract!Init
<1>2. QED BY <1>1, ContractStep, InvariantHolds, PTL DEF Spec, KeepsContract, Contract!Spec
=============================================================================
