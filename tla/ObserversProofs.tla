--------------------------- MODULE ObserversProofs ---------------------------
(***************************************************************************)
(* Theorems about Observers, for every graph of jobs and every assignment  *)
(* of jobs to targets.                                                     *)
(***************************************************************************)
EXTENDS Observers, JobLifecycleProofs, FiniteSetTheorems

USE TargetsAssumption

-----------------------------------------------------------------------------
(* What the observers see of a step: one job that has not ended changes its *)
(* status.                                                                 *)

Moves(j, s) == /\ j \in Jobs /\ s \in Status
               /\ status[j] \notin Terminal /\ s # status[j] /\ s # "SCHEDULED"
               /\ status' = [status EXCEPT ![j] = s]

LEMMA ChangesMove ==
  ASSUME TypeOK, NEW j \in Jobs, Launched(j) \/ Changed(j)
  PROVE  \E s \in Status : Moves(j, s)
<1>1. \E s \in Status : /\ status' = [status EXCEPT ![j] = s] /\ s # "SCHEDULED"
                        /\ status[j] \notin Terminal /\ s # status[j]
  BY DEF TypeOK, Launched, Changed, Queue, Launch, Finish, Cancel, Become, Status, Terminal
<1>2. QED BY <1>1 DEF Moves

LEMMA StepsOfLifecycle == [ObsNext]_obsVars => [Next]_vars
BY DEF ObsNext, obsVars, Launched, Changed, Signalled, Pause, Tick, Stop, Over, Next, vars

-----------------------------------------------------------------------------
(* Counting.                                                               *)

LEMMA SetsAreFinite ==
  ASSUME NEW t, NEW S
  PROVE  /\ InStatus(t, S) \in SUBSET JobsOf(t)
         /\ IsFiniteSet(JobsOf(t)) /\ IsFiniteSet(InStatus(t, S))
         /\ Cardinality(InStatus(t, S)) \in Nat /\ Total(t) \in Nat
<1>1. IsFiniteSet(JobsOf(t))
  <2>1. JobsOf(t) \in SUBSET Jobs BY DEF JobsOf
  <2>2. QED BY <2>1, FS_Subset
<1>2. InStatus(t, S) \in SUBSET JobsOf(t)
  BY DEF InStatus
<1>3. IsFiniteSet(InStatus(t, S))
  BY <1>1, <1>2, FS_Subset
<1>4. QED BY <1>1, <1>2, <1>3, FS_CardinalityType DEF Total

(* One change of status moves one job between the sets that are counted.    *)
LEMMA CountMoves ==
  ASSUME TypeOK, NEW j, NEW s, Moves(j, s), NEW t, NEW S
  PROVE  Cardinality(InStatus(t, S))' =
           Cardinality(InStatus(t, S))
             + (IF TargetOf[j] = t /\ s \in S /\ status[j] \notin S THEN 1 ELSE 0)
             - (IF TargetOf[j] = t /\ s \notin S /\ status[j] \in S THEN 1 ELSE 0)
<1> DEFINE I == InStatus(t, S)
<1>0. IsFiniteSet(I) /\ Cardinality(I) \in Nat
  BY SetsAreFinite
<1>1. /\ Cardinality(I \cup {j}) = IF j \in I THEN Cardinality(I) ELSE Cardinality(I) + 1
      /\ Cardinality(I \ {j}) = IF j \in I THEN Cardinality(I) - 1 ELSE Cardinality(I)
  BY <1>0, FS_AddElement, FS_RemoveElement
<1>2. j \in I <=> TargetOf[j] = t /\ status[j] \in S
  BY DEF InStatus, JobsOf, Moves
<1>3. I' = IF TargetOf[j] # t THEN I ELSE IF s \in S THEN I \cup {j} ELSE I \ {j}
  BY DEF InStatus, JobsOf, Moves, TypeOK
<1>4. CASE TargetOf[j] # t
  BY <1>0, <1>3, <1>4
<1>5. CASE TargetOf[j] = t /\ s \in S
  BY <1>0, <1>1, <1>2, <1>3, <1>5
<1>6. CASE TargetOf[j] = t /\ s \notin S
  BY <1>0, <1>1, <1>2, <1>3, <1>6
<1>7. QED BY <1>4, <1>5, <1>6

LEMMA EndedCounted ==
  ASSUME NEW t
  PROVE  Cardinality(InStatus(t, Terminal)) >= Total(t) <=> Ended(t)
<1>1. /\ InStatus(t, Terminal) \in SUBSET JobsOf(t) /\ IsFiniteSet(JobsOf(t))
      /\ Cardinality(InStatus(t, Terminal)) \in Nat /\ Total(t) \in Nat
  BY SetsAreFinite
<1>2. /\ Cardinality(InStatus(t, Terminal)) <= Total(t)
      /\ Total(t) = Cardinality(InStatus(t, Terminal)) => JobsOf(t) = InStatus(t, Terminal)
  BY <1>1, FS_Subset DEF Total
<1>3. Cardinality(InStatus(t, Terminal)) >= Total(t) <=> JobsOf(t) = InStatus(t, Terminal)
  BY <1>1, <1>2 DEF Total
<1>4. JobsOf(t) = InStatus(t, Terminal) <=> Ended(t)
  BY DEF InStatus, Ended
<1>5. QED BY <1>3, <1>4

(* The same in the next state.                                              *)
LEMMA EndedCountedNext ==
  (\A t : Cardinality(InStatus(t, Terminal)) >= Total(t) <=> Ended(t))'
<1>1. \A t : Cardinality(InStatus(t, Terminal)) >= Total(t) <=> Ended(t)
  BY EndedCounted
<1>2. QED BY <1>1, PTL

-----------------------------------------------------------------------------
(* The inductive invariant.  LastRowsTrue is not inductive: that the row of *)
(* a target stays true when the target is not printed any more holds only  *)
(* because its jobs have ended.                                            *)

DoneTargetsEnded == targetDone \subseteq {t \in Targets : Ended(t)}

ObsInv == ObsTypeOK /\ CountsFollow /\ LastRowsTrue /\ DoneTargetsEnded

LEMMA InvInit == ObsInit => ObsInv
<1> SUFFICES ASSUME ObsInit PROVE ObsInv
  OBVIOUS
<1>1. \A t \in Targets : Total(t) \in Nat
  BY SetsAreFinite
<1>2. ObsTypeOK
  <2>1. counts \in [Targets -> [Status -> Nat]] /\ numFinished \in [Targets -> Nat]
    BY <1>1 DEF ObsInit
  <2>2. lastRow \in [Targets -> [Status -> Int]]
    BY DEF ObsInit, NoRow
  <2>3. TypeOK
    BY DEF ObsInit, Init, TypeOK, Status
  <2>4. shown \in [Targets -> SUBSET Jobs] /\ linked \in [Jobs -> {"none"} \cup Status]
    BY DEF ObsInit
  <2>5. QED BY <2>1, <2>2, <2>3, <2>4 DEF ObsInit, ObsTypeOK
<1>3. \A t : InStatus(t, {"SCHEDULED"}) = JobsOf(t)
  BY DEF ObsInit, Init, InStatus, JobsOf
<1>4. \A t, S : "SCHEDULED" \notin S => InStatus(t, S) = {}
  BY DEF ObsInit, Init, InStatus, JobsOf
<1>5. CountsFollow
  <2>1. \A t, S : "SCHEDULED" \notin S => Cardinality(InStatus(t, S)) = 0
    BY <1>4, FS_EmptySet
  <2>2. \A t : Cardinality(InStatus(t, {"SCHEDULED"})) = Total(t)
    BY <1>3 DEF Total
  <2>3. \A t \in Targets : counts[t] = TrueRow(t)
    BY <2>1, <2>2 DEF ObsInit, TrueRow
  <2>4. QED BY <1>4, <2>1, <2>3 DEF ObsInit, CountsFollow, Terminal
<1>6. \A t \in Targets : ~Ended(t)
  BY DEF ObsInit, Init, Ended, JobsOf, Terminal
<1>7. QED BY <1>2, <1>5, <1>6 DEF ObsInit, ObsInv, LastRowsTrue, DoneTargetsEnded

(* Where no job changes, nothing that is counted changes.                   *)
LEMMA SameStatus ==
  ASSUME status' = status
  PROVE  \A t : /\ TrueRow(t)' = TrueRow(t) /\ (Ended(t)' <=> Ended(t))
                /\ \A S : InStatus(t, S)' = InStatus(t, S)
BY DEF TrueRow, Ended, InStatus, JobsOf

(* Printing keeps the rows true, as the counts are.                         *)
LEMMA PrintedTrue ==
  ASSUME CountsFollow', ObsTypeOK, NEW u \in BOOLEAN, NEW q \in BOOLEAN, UpdateTargets(u, q),
         \A t \in targetDone : lastRow[t] = TrueRow(t)' /\ Ended(t)'
  PROVE  /\ \A t \in targetDone' : lastRow'[t] = TrueRow(t)' /\ Ended(t)'
         /\ u /\ ~q => \A t \in Targets : lastRow'[t] = TrueRow(t)'
         /\ targetDone' \subseteq Targets
<1>1. \A t \in Targets : counts'[t] = TrueRow(t)' /\ (IsDone(t) <=> Ended(t)')
  BY EndedCountedNext DEF CountsFollow, IsDone, Total, JobsOf
<1>2. QED BY <1>1 DEF UpdateTargets, ObsTypeOK

(* A change of status keeps the counts.                                     *)
LEMMA CountsStep ==
  ASSUME ObsTypeOK, CountsFollow, NEW j, NEW s, Moves(j, s),
         CountChange(TargetOf[j], j, status[j], status'[j])
  PROVE  CountsFollow'
<1> DEFINE t0 == TargetOf[j]
<1>0. /\ TypeOK /\ j \in Jobs /\ t0 \in Targets /\ s \in Status /\ status[j] \in Status
      /\ status'[j] = s /\ s # status[j] /\ status[j] \notin Terminal
  BY DEF ObsTypeOK, TypeOK, Moves
<1> SUFFICES ASSUME NEW t \in Targets
             PROVE  /\ counts'[t] = TrueRow(t)'
                    /\ shown'[t] = InStatus(t, {"RUNNING"})'
                    /\ numFinished'[t] = Cardinality(InStatus(t, Terminal))'
  BY DEF CountsFollow
<1>1. counts'[t] = TrueRow(t)'
  <2>1. \A r \in Status : counts[t][r] = Cardinality(InStatus(t, {r}))
    BY DEF CountsFollow, TrueRow
  <2>2. \A r \in Status : Cardinality(InStatus(t, {r})) \in Nat
    BY SetsAreFinite
  <2>3. \A r \in Status : Cardinality(InStatus(t, {r}))' =
           Cardinality(InStatus(t, {r})) + (IF t0 = t /\ s = r THEN 1 ELSE 0)
                                         - (IF t0 = t /\ status[j] = r THEN 1 ELSE 0)
    <3> SUFFICES ASSUME NEW r \in Status
                 PROVE  Cardinality(InStatus(t, {r}))' =
           Cardinality(InStatus(t, {r})) + (IF t0 = t /\ s = r THEN 1 ELSE 0)
                                         - (IF t0 = t /\ status[j] = r THEN 1 ELSE 0)
      OBVIOUS
    <3>1. Cardinality(InStatus(t, {r}))' =
           Cardinality(InStatus(t, {r}))
             + (IF t0 = t /\ s \in {r} /\ status[j] \notin {r} THEN 1 ELSE 0)
             - (IF t0 = t /\ s \notin {r} /\ status[j] \in {r} THEN 1 ELSE 0)
      BY <1>0, CountMoves
    <3>2. QED BY <1>0, <2>2, <3>1
  <2>4. \A r \in Status : counts'[t][r] =
           counts[t][r] + (IF t0 = t /\ s = r THEN 1 ELSE 0)
                        - (IF t0 = t /\ status[j] = r THEN 1 ELSE 0)
    <3>1. \A r \in Status : counts[t][r] \in Nat
      BY DEF ObsTypeOK
    <3>2. counts \in [Targets -> [Status -> Nat]]
      BY DEF ObsTypeOK
    <3>3. CASE t = t0
      BY <1>0, <3>1, <3>2, <3>3 DEF CountChange
    <3>4. CASE t # t0
      BY <1>0, <3>1, <3>2, <3>4 DEF CountChange
    <3>5. QED BY <3>3, <3>4
  <2>5. counts'[t] = [r \in Status |-> counts'[t][r]]
    BY <1>0 DEF CountChange, ObsTypeOK
  <2>6. QED BY <2>1, <2>3, <2>4, <2>5 DEF TrueRow
<1>2. shown'[t] = InStatus(t, {"RUNNING"})'
  <2>1. InStatus(t, {"RUNNING"})' =
          IF t0 # t THEN InStatus(t, {"RUNNING"})
          ELSE IF s = "RUNNING" THEN InStatus(t, {"RUNNING"}) \cup {j}
          ELSE InStatus(t, {"RUNNING"}) \ {j}
    BY <1>0 DEF InStatus, JobsOf, Moves, TypeOK
  <2>2. shown[t] = InStatus(t, {"RUNNING"}) /\ shown \in [Targets -> SUBSET Jobs]
    BY DEF CountsFollow, ObsTypeOK
  <2>3. status[j] # "RUNNING" => j \notin InStatus(t, {"RUNNING"})
    BY DEF InStatus
  <2>4. QED BY <1>0, <2>1, <2>2, <2>3 DEF CountChange
<1>3. numFinished'[t] = Cardinality(InStatus(t, Terminal))'
  <2>1. numFinished[t] = Cardinality(InStatus(t, Terminal)) /\ numFinished[t] \in Nat
    BY DEF CountsFollow, ObsTypeOK
  <2>2. Cardinality(InStatus(t, Terminal))' =
          Cardinality(InStatus(t, Terminal)) + (IF t0 = t /\ s \in Terminal THEN 1 ELSE 0)
    BY <1>0, <2>1, CountMoves
  <2>3. QED BY <1>0, <2>1, <2>2 DEF CountChange, ObsTypeOK
<1>4. QED BY <1>1, <1>2, <1>3

(* What the rows of a change of status rest on: a target that is done has   *)
(* no job left to change.                                                   *)
LEMMA RowsStand ==
  ASSUME ObsTypeOK, LastRowsTrue, DoneTargetsEnded, NEW j, NEW s, Moves(j, s)
  PROVE  /\ \A t : Ended(t) => TrueRow(t)' = TrueRow(t) /\ Ended(t)'
         /\ \A t : t # TargetOf[j] => (Ended(t)' <=> Ended(t))
         /\ ~Ended(TargetOf[j])
         /\ \A t \in targetDone : lastRow[t] = TrueRow(t)' /\ Ended(t)'
<1>1. ~Ended(TargetOf[j])
  BY DEF Ended, JobsOf, Moves
<1>2. \A t : t # TargetOf[j] => \A k \in JobsOf(t) : status'[k] = status[k]
  BY DEF JobsOf, Moves, ObsTypeOK, TypeOK
<1>3. \A t : t # TargetOf[j] => (Ended(t)' <=> Ended(t))
  BY <1>2 DEF Ended, JobsOf
<1>4. \A t : t # TargetOf[j] => TrueRow(t)' = TrueRow(t)
  <2>1. \A t, S : t # TargetOf[j] => InStatus(t, S)' = InStatus(t, S)
    BY <1>2 DEF InStatus, JobsOf
  <2>2. QED BY <2>1 DEF TrueRow
<1>5. QED BY <1>1, <1>3, <1>4 DEF LastRowsTrue, DoneTargetsEnded, ObsTypeOK

LEMMA ChangeStep ==
  ASSUME ObsInv, NEW j \in Jobs, Launched(j) \/ Changed(j)
  PROVE  CountsFollow' /\ LastRowsTrue' /\ DoneTargetsEnded'
<1>0. ObsTypeOK /\ CountsFollow /\ LastRowsTrue /\ DoneTargetsEnded /\ TypeOK
  BY DEF ObsInv, ObsTypeOK
<1>1. PICK s \in Status : Moves(j, s)
  BY <1>0, ChangesMove
<1>2. Notify(j) /\ UpdateStatus(j) /\ ~stopped /\ stopped' = stopped /\ everyEvent' = everyEvent
  BY DEF Launched, Changed, Notify
<1>3. CountChange(TargetOf[j], j, status[j], status'[j])
  BY <1>2 DEF UpdateStatus
<1>4. CountsFollow'
  BY <1>0, <1>1, <1>3, CountsStep
<1>5. TargetOf[j] \in Targets
  OBVIOUS
<1>6. /\ \A t : t # TargetOf[j] => (Ended(t)' <=> Ended(t))
      /\ ~Ended(TargetOf[j])
      /\ \A t \in targetDone : lastRow[t] = TrueRow(t)' /\ Ended(t)'
  BY <1>0, <1>1, RowsStand
<1>7. CASE everyEvent /\ UpdateTargets(FALSE, paused) /\ UNCHANGED finishTimed
  <2>1. \A t \in targetDone' : lastRow'[t] = TrueRow(t)' /\ Ended(t)'
    BY <1>0, <1>4, <1>6, <1>7, PrintedTrue DEF ObsTypeOK
  <2>2. targetDone' \subseteq Targets
    BY <1>0, <1>7 DEF UpdateTargets, ObsTypeOK
  <2>3. QED BY <1>0, <1>2, <1>4, <1>7, <2>1, <2>2 DEF LastRowsTrue, DoneTargetsEnded
<1>8. CASE /\ ~everyEvent
           /\ finishTimed' = IF IsDone(TargetOf[j]) THEN finishTimed \cup {TargetOf[j]}
                             ELSE finishTimed
           /\ UNCHANGED <<targetDone, lastRow>>
  <2>1. IsDone(TargetOf[j]) <=> Ended(TargetOf[j])'
    BY <1>4, <1>5, EndedCountedNext DEF CountsFollow, IsDone, Total, JobsOf
  <2>2. \A t \in Targets : t \in finishTimed' <=> ~everyEvent' /\ Ended(t)'
    BY <1>0, <1>2, <1>5, <1>6, <1>8, <2>1 DEF LastRowsTrue
  <2>3. QED BY <1>0, <1>2, <1>4, <1>6, <1>8, <2>2 DEF LastRowsTrue, DoneTargetsEnded
<1>9. QED BY <1>2, <1>7, <1>8 DEF UpdateStatus

(* Printing when no job changes.                                            *)
LEMMA PrintStep ==
  ASSUME ObsInv, Pause \/ Tick \/ Stop
  PROVE  CountsFollow' /\ LastRowsTrue' /\ DoneTargetsEnded'
<1>0. ObsTypeOK /\ CountsFollow /\ LastRowsTrue /\ DoneTargetsEnded
  BY DEF ObsInv
<1>1. /\ status' = status /\ everyEvent' = everyEvent /\ finishTimed' = finishTimed
      /\ UNCHANGED countVars /\ ~stopped
      /\ \/ \E u, q \in BOOLEAN : UpdateTargets(u, q) /\ (stopped' => u /\ ~q)
         \/ UNCHANGED <<targetDone, lastRow, stopped>>
  <2>1. CASE Pause BY <2>1 DEF Pause, Close
  <2>2. CASE Tick BY <1>0, <2>2 DEF Tick, vars, ObsTypeOK
  <2>3. CASE Stop BY <2>3 DEF Stop, vars
  <2>4. QED BY <2>1, <2>2, <2>3
<1>2. \A t : /\ TrueRow(t)' = TrueRow(t) /\ (Ended(t)' <=> Ended(t))
             /\ \A S : InStatus(t, S)' = InStatus(t, S)
  BY <1>1, SameStatus
<1>3. CountsFollow'
  BY <1>0, <1>1, <1>2 DEF CountsFollow, countVars
<1>4. \A t \in targetDone : lastRow[t] = TrueRow(t)' /\ Ended(t)'
  BY <1>0, <1>2 DEF LastRowsTrue, DoneTargetsEnded, ObsTypeOK
<1>5. CASE \E u, q \in BOOLEAN : UpdateTargets(u, q) /\ (stopped' => u /\ ~q)
  <2>1. PICK u \in BOOLEAN, q \in BOOLEAN : UpdateTargets(u, q) /\ (stopped' => u /\ ~q)
    BY <1>5
  <2>2. /\ \A t \in targetDone' : lastRow'[t] = TrueRow(t)' /\ Ended(t)'
        /\ u /\ ~q => \A t \in Targets : lastRow'[t] = TrueRow(t)'
        /\ targetDone' \subseteq Targets
    BY <1>0, <1>3, <1>4, <2>1, PrintedTrue
  <2>3. QED BY <1>0, <1>1, <1>2, <1>3, <2>1, <2>2 DEF LastRowsTrue, DoneTargetsEnded
<1>6. CASE UNCHANGED <<targetDone, lastRow, stopped>>
  BY <1>0, <1>1, <1>2, <1>3, <1>4, <1>6 DEF LastRowsTrue, DoneTargetsEnded
<1>7. QED BY <1>1, <1>5, <1>6

LEMMA QuietStep ==
  ASSUME ObsInv, Signalled \/ UNCHANGED obsVars
  PROVE  CountsFollow' /\ LastRowsTrue' /\ DoneTargetsEnded'
<1>1. /\ status' = status
      /\ UNCHANGED <<everyEvent, countVars, rowVars, stopped>>
  BY DEF Signalled, Signal, obsVars, vars
<1>2. QED BY <1>1, SameStatus
          DEF ObsInv, CountsFollow, LastRowsTrue, DoneTargetsEnded, countVars, rowVars

LEMMA CountsAreNatural ==
  (\A t, S : Cardinality(InStatus(t, S)) \in Nat)'
<1>1. \A t, S : Cardinality(InStatus(t, S)) \in Nat
  BY SetsAreFinite
<1>2. QED BY <1>1, PTL

(* What is counted is never negative because it counts something.           *)
LEMMA TypeOfCounts ==
  ASSUME ObsTypeOK, CountsFollow', NEW j, NEW t0, NEW old, NEW new,
         CountChange(t0, j, old, new)
  PROVE  /\ counts' \in [Targets -> [Status -> Nat]]
         /\ numFinished' \in [Targets -> Nat]
         /\ shown' \in [Targets -> SUBSET Jobs]
<1>1. \A t \in Targets : /\ counts'[t] \in [Status -> Nat]
                        /\ numFinished'[t] \in Nat
                        /\ shown'[t] \in SUBSET Jobs
  <2> SUFFICES ASSUME NEW t \in Targets
               PROVE  /\ counts'[t] \in [Status -> Nat]
                      /\ numFinished'[t] \in Nat
                      /\ shown'[t] \in SUBSET Jobs
    OBVIOUS
  <2>1. \A S : Cardinality(InStatus(t, S))' \in Nat
    BY CountsAreNatural
  <2>2. counts'[t] = [s \in Status |-> Cardinality(InStatus(t, {s}))']
    BY DEF CountsFollow, TrueRow
  <2>3. numFinished'[t] \in Nat
    BY <2>1 DEF CountsFollow
  <2>4. shown'[t] \in SUBSET Jobs
    BY DEF CountsFollow, InStatus, JobsOf
  <2>5. QED BY <2>1, <2>2, <2>3, <2>4
<1>2. /\ counts' = [t \in Targets |-> counts'[t]]
      /\ numFinished' = [t \in Targets |-> numFinished'[t]]
      /\ shown' = [t \in Targets |-> shown'[t]]
  BY DEF CountChange, ObsTypeOK
<1>3. QED BY <1>1, <1>2

LEMMA TypeOfRows ==
  ASSUME ObsTypeOK, counts' \in [Targets -> [Status -> Nat]], NEW u, NEW q, UpdateTargets(u, q)
  PROVE  lastRow' \in [Targets -> [Status -> Int]] /\ targetDone' \subseteq Targets
<1>1. \A t \in Targets : counts'[t] \in [Status -> Int] /\ lastRow[t] \in [Status -> Int]
  BY DEF ObsTypeOK
<1>2. QED BY <1>1 DEF UpdateTargets, ObsTypeOK

LEMMA ObsTypeStep ==
  ASSUME ObsInv, [ObsNext]_obsVars, CountsFollow'
  PROVE  ObsTypeOK'
<1>0. ObsTypeOK
  BY DEF ObsInv
<1>1. TypeOK'
  BY <1>0, StepsOfLifecycle, TypeStep DEF ObsTypeOK
<1>2. ASSUME NEW j \in Jobs, Launched(j) \/ Changed(j) PROVE ObsTypeOK'
  <2>0. Notify(j) /\ status'[j] \in Status /\ odirs' \subseteq Jobs
    BY <1>0, <1>1, <1>2 DEF Launched, Changed, TypeOK, ObsTypeOK
  <2>1. CountChange(TargetOf[j], j, status[j], status'[j])
    BY <2>0 DEF Notify, UpdateStatus
  <2>2. /\ counts' \in [Targets -> [Status -> Nat]]
        /\ numFinished' \in [Targets -> Nat]
        /\ shown' \in [Targets -> SUBSET Jobs]
    BY <1>0, <2>1, TypeOfCounts
  <2>3. /\ lastRow' \in [Targets -> [Status -> Int]]
        /\ targetDone' \subseteq Targets
        /\ finishTimed' \subseteq Targets
    <3>1. CASE UpdateTargets(FALSE, paused) /\ UNCHANGED finishTimed
      BY <1>0, <2>2, <3>1, TypeOfRows DEF ObsTypeOK
    <3>2. CASE /\ finishTimed' \in {finishTimed \cup {TargetOf[j]}, finishTimed}
               /\ UNCHANGED <<targetDone, lastRow>>
      BY <1>0, <3>2 DEF ObsTypeOK
    <3>3. QED BY <2>0, <3>1, <3>2 DEF Notify, UpdateStatus
  <2>4. linked' \in [Jobs -> {"none"} \cup Status] /\ links' \subseteq [job : Jobs, dir : Status]
    <3>1. LinkOutput(j, status'[j])
      BY <2>0 DEF Notify
    <3>2. /\ linked' = linked \/ linked' = [linked EXCEPT ![j] = status'[j]]
          /\ links' \subseteq links \cup {Link(j, status'[j])}
      BY <3>1 DEF LinkOutput
    <3>3. Link(j, status'[j]) \in [job : Jobs, dir : Status]
      BY <2>0 DEF Link
    <3>4. QED BY <1>0, <2>0, <3>2, <3>3 DEF ObsTypeOK
  <2>5. UNCHANGED <<everyEvent, makesOutput, paused, stopped>>
    BY <2>0 DEF Notify
  <2>6. QED BY <1>0, <1>1, <2>0, <2>2, <2>3, <2>4, <2>5 DEF ObsTypeOK
<1>3. CASE Signalled \/ UNCHANGED obsVars
  BY <1>0, <1>1, <1>3 DEF Signalled, obsVars, countVars, rowVars, linkVars, ObsTypeOK
<1>4. CASE Pause \/ Tick \/ Stop
  <2>1. /\ UNCHANGED <<everyEvent, makesOutput, countVars, finishTimed, linkVars>>
        /\ paused' \in BOOLEAN /\ stopped' \in BOOLEAN
    BY <1>0, <1>4 DEF Pause, Tick, Stop, ObsTypeOK
  <2>2. lastRow' \in [Targets -> [Status -> Int]] /\ targetDone' \subseteq Targets
    <3>1. CASE UNCHANGED <<targetDone, lastRow>>
      BY <1>0, <3>1 DEF ObsTypeOK
    <3>2. CASE \E u, q : UpdateTargets(u, q)
      <4>1. counts' \in [Targets -> [Status -> Nat]]
        BY <1>0, <2>1 DEF ObsTypeOK, countVars
      <4>2. QED BY <1>0, <3>2, <4>1, TypeOfRows
    <3>3. QED BY <1>4, <3>1, <3>2 DEF Pause, Tick, Stop
  <2>3. QED BY <1>0, <1>1, <2>1, <2>2 DEF ObsTypeOK, countVars, linkVars
<1>5. QED BY <1>2, <1>3, <1>4 DEF ObsNext, Over

LEMMA ObsInvStep == ObsInv /\ [ObsNext]_obsVars => ObsInv'
<1> SUFFICES ASSUME ObsInv, [ObsNext]_obsVars PROVE ObsInv'
  OBVIOUS
<1>1. CountsFollow' /\ LastRowsTrue' /\ DoneTargetsEnded'
  BY ChangeStep, PrintStep, QuietStep DEF ObsNext, Over
<1>2. QED BY <1>1, ObsTypeStep DEF ObsInv

LEMMA ObsInvariant == ObsSpec => []ObsInv
BY InvInit, ObsInvStep, PTL DEF ObsSpec

(* The observers' state keeps its types, whatever the graph.                *)
THEOREM ObsTypeCorrect == ObsSpec => []ObsTypeOK
<1>1. ObsInv => ObsTypeOK BY DEF ObsInv
<1>2. QED BY <1>1, ObsInvariant, PTL

(* The counts of the status printer, adjusted at each change, never drift   *)
(* from the statuses of the jobs.                                          *)
THEOREM CountsCorrect == ObsSpec => []CountsFollow
<1>1. ObsInv => CountsFollow BY DEF ObsInv
<1>2. QED BY <1>1, ObsInvariant, PTL

(* A row that is printed for the last time is true for good, at whatever    *)
(* point the printer is paused or the run ends.                             *)
THEOREM LastRowsCorrect == ObsSpec => []LastRowsTrue
<1>1. ObsInv => LastRowsTrue BY DEF ObsInv
<1>2. QED BY <1>1, ObsInvariant, PTL

-----------------------------------------------------------------------------
(* The links.  LinksFollow rests on the log manager's own record of them,   *)
(* and on a job that runs having its output directory if the backend makes  *)
(* any: then the old link can be removed when the job ends.                 *)

LinksInv ==
  /\ ObsTypeOK
  /\ LinksFollow
  /\ \A j \in Jobs : linked[j] = IF HasLinkDir(status[j]) THEN status[j] ELSE "none"
  /\ makesOutput => \A j \in Jobs : status[j] = "RUNNING" => j \in odirs

LEMMA LinksInit == ObsInit => LinksInv
<1> SUFFICES ASSUME ObsInit PROVE LinksInv
  OBVIOUS
<1>1. ObsTypeOK
  BY InvInit DEF ObsInv
<1>2. \A j \in Jobs : ~HasLinkDir(status[j]) /\ status[j] # "RUNNING"
  BY DEF ObsInit, Init, HasLinkDir, Terminal
<1>3. QED BY <1>1, <1>2 DEF ObsInit, LinksInv, LinksFollow, Followed

(* A job that neither runs nor has ended has no link.                       *)
LEMMA NoLinkBefore ==
  ASSUME LinksFollow, NEW j \in Jobs, ~HasLinkDir(status[j]), NEW l \in links
  PROVE  l.job # j
<1>1. \A s : HasLinkDir(s) <=> s \in Terminal \/ s = "RUNNING"
  BY DEF HasLinkDir
<1>2. CASE l \in Followed
  BY <1>2 DEF Followed, Link
<1>3. CASE l \notin Followed
  BY <1>1, <1>3 DEF LinksFollow
<1>4. QED BY <1>2, <1>3

(* Where a job gets a new link, the other jobs keep theirs, and its own old  *)
(* one goes if it leads to an output directory.                             *)
LEMMA Relinked ==
  ASSUME LinksInv, NEW j \in Jobs, NEW s \in Status, HasLinkDir(s), Moves(j, s), s # status[j],
         links' = (links \cup {Link(j, s)}) \ {l \in {Link(j, linked[j])} : j \in odirs},
         UNCHANGED makesOutput, odirs' = odirs \/ makesOutput
  PROVE  LinksFollow'
<1>0. TypeOK /\ links \subseteq [job : Jobs, dir : Status] /\ LinksFollow /\ status[j] \notin Terminal
  BY DEF LinksInv, ObsTypeOK, Moves
<1>1. \A k \in Jobs : status'[k] = IF k = j THEN s ELSE status[k]
  BY <1>0 DEF TypeOK, Moves
<1>2. Followed' = {l \in Followed : l.job # j} \cup {Link(j, s)}
  <2>1. \A k \in Jobs \ {j} : Link(k, status'[k]) = Link(k, status[k]) /\ Link(k, status[k]).job # j
    BY <1>1 DEF Link
  <2>2. \A l \in Followed : l.job # j =>
          \E k \in Jobs \ {j} : HasLinkDir(status[k]) /\ l = Link(k, status[k])
    BY DEF Followed, Link
  <2>3. \A l \in Followed' : l = Link(j, s) \/
          \E k \in Jobs \ {j} : HasLinkDir(status[k]) /\ l = Link(k, status[k])
    BY <1>1 DEF Followed, HasLinkDir
  <2>4. \A k \in Jobs \ {j} : HasLinkDir(status[k]) => Link(k, status[k]) \in Followed' \cap Followed
    BY <1>1, <2>1 DEF Followed, HasLinkDir
  <2>5. Link(j, s) \in Followed'
    BY <1>1 DEF Followed, HasLinkDir
  <2>6. QED BY <2>1, <2>2, <2>3, <2>4, <2>5
<1>3. \A l \in links : l.job # j => l \in links'
  BY DEF Link
<1>4. Link(j, s) \in links'
  BY DEF LinksInv, Link, HasLinkDir, Terminal
<1>5. Followed' \subseteq links'
  BY <1>0, <1>2, <1>3, <1>4 DEF LinksFollow
<1>6. ASSUME NEW l \in links' \ Followed'
      PROVE  /\ l.dir = "RUNNING" /\ status'[l.job] \in Terminal
             /\ ~makesOutput' /\ l.job \notin odirs'
  <2>1. l \in links /\ l # Link(j, s)
    BY <1>2, <1>6
  <2>2. CASE l.job # j
    <3>1. l \notin Followed
      BY <1>2, <1>6, <2>2
    <3>2. /\ l.dir = "RUNNING" /\ status[l.job] \in Terminal
          /\ ~makesOutput /\ l.job \notin odirs /\ l.job \in Jobs
      BY <1>0, <2>1, <3>1 DEF LinksFollow
    <3>3. QED BY <1>1, <2>2, <3>2
  <2>3. CASE l.job = j
    <3>1. HasLinkDir(status[j])
      BY <1>0, <2>1, <2>3, NoLinkBefore
    <3>2. status[j] = "RUNNING" /\ s \in Terminal
      BY <1>0, <3>1 DEF HasLinkDir
    <3>3. l = Link(j, "RUNNING")
      <4>1. l \in Followed \/ l.dir = "RUNNING"
        BY <1>0, <2>1 DEF LinksFollow
      <4>2. l.dir = "RUNNING"
        BY <2>3, <3>2, <4>1 DEF Followed, Link
      <4>3. QED BY <1>0, <2>1, <2>3, <4>2 DEF Link
    <3>4. linked[j] = "RUNNING"
      BY <3>1, <3>2 DEF LinksInv
    <3>5. j \notin odirs
      BY <1>6, <3>3, <3>4
    <3>6. ~makesOutput
      BY <3>2, <3>5 DEF LinksInv
    <3>7. QED BY <1>1, <2>3, <3>2, <3>3, <3>5, <3>6 DEF Link
  <2>4. QED BY <2>2, <2>3
<1>7. QED BY <1>5, <1>6 DEF LinksFollow

LEMMA LinksStep == LinksInv /\ ObsTypeOK' /\ [ObsNext]_obsVars => LinksInv'
<1> SUFFICES ASSUME LinksInv, ObsTypeOK', [ObsNext]_obsVars PROVE LinksInv'
  OBVIOUS
<1>1. ASSUME NEW j \in Jobs, Launched(j) \/ Changed(j) PROVE LinksInv'
  <2>0. TypeOK
    BY DEF LinksInv, ObsTypeOK
  <2>1. PICK s \in Status : Moves(j, s)
    BY <1>1, <2>0, ChangesMove
  <2>2. /\ LinkOutput(j, s) /\ status' = [status EXCEPT ![j] = s]
        /\ UNCHANGED makesOutput /\ odirs \subseteq odirs' /\ (odirs' = odirs \/ makesOutput)
        /\ makesOutput /\ s = "RUNNING" => j \in odirs'
    BY <1>1, <2>0, <2>1
       DEF Launched, Changed, Notify, Moves, TypeOK, Queue, Finish, Cancel, Become, Terminal
  <2>3. \A k \in Jobs : status'[k] = IF k = j THEN s ELSE status[k]
    BY <2>0, <2>2 DEF TypeOK
  <2>4. makesOutput' => \A k \in Jobs : status'[k] = "RUNNING" => k \in odirs'
    BY <2>2, <2>3 DEF LinksInv
  <2>5. status[j] \notin Terminal /\ s # status[j] /\ (~HasLinkDir(s) => s = "QUEUED")
    BY <2>1 DEF Moves, HasLinkDir, Status
  <2>6. linked[j] # s \/ ~HasLinkDir(s)
    BY <2>5 DEF LinksInv, HasLinkDir, Terminal
  <2>7. \A k \in Jobs : linked'[k] = IF HasLinkDir(status'[k]) THEN status'[k] ELSE "none"
    <3>1. CASE HasLinkDir(s)
      BY <2>2, <2>3, <2>6, <3>1 DEF LinkOutput, LinksInv, ObsTypeOK
    <3>2. CASE ~HasLinkDir(s)
      <4>1. linked[j] = "none"
        BY <2>0, <2>2, <2>5, <3>2, <1>1
           DEF LinksInv, HasLinkDir, Launched, Changed, Queue, Launch, Finish, Cancel,
               Become, TypeOK, Terminal
      <4>2. QED BY <2>2, <2>3, <3>2, <4>1 DEF LinkOutput, LinksInv
    <3>3. QED BY <3>1, <3>2
  <2>8. LinksFollow'
    <3>1. CASE HasLinkDir(s)
      <4>1. links' = (links \cup {Link(j, s)}) \ {l \in {Link(j, linked[j])} : j \in odirs}
        BY <2>2, <2>6, <3>1 DEF LinkOutput
      <4>2. QED BY <2>1, <2>2, <2>5, <3>1, <4>1, Relinked
    <3>2. CASE ~HasLinkDir(s)
      <4>1. links' = links /\ s = "QUEUED"
        BY <2>2, <2>5, <3>2 DEF LinkOutput
      <4>2. ~HasLinkDir(status[j])
        BY <2>0, <2>2, <2>5, <3>2, <1>1
           DEF HasLinkDir, Launched, Changed, Queue, Launch, Finish, Cancel,
               Become, TypeOK, Terminal
      <4>3. Followed' = Followed
        BY <2>3, <3>2, <4>2 DEF Followed, HasLinkDir, Link
      <4>4. odirs' = odirs
        BY <1>1, <2>0, <2>2, <4>1 DEF Launched, Changed, Launch, Become, TypeOK
      <4>5. \A l \in links : l.job \in Jobs /\ (status[l.job] \in Terminal => status'[l.job] \in Terminal)
        BY <2>3, <2>5 DEF LinksInv, ObsTypeOK
      <4>6. QED BY <2>2, <4>1, <4>3, <4>4, <4>5 DEF LinksInv, LinksFollow
    <3>3. QED BY <3>1, <3>2
  <2>9. QED BY <2>4, <2>7, <2>8 DEF LinksInv
<1>2. CASE Signalled \/ Pause \/ Tick \/ Stop \/ UNCHANGED obsVars
  <2>1. status' = status /\ makesOutput' = makesOutput /\ UNCHANGED linkVars
    BY <1>2 DEF Signalled, Signal, Pause, Close, Tick, Stop, obsVars, vars
  <2>2. QED BY <2>1 DEF LinksInv, LinksFollow, Followed, linkVars
<1>3. QED BY <1>1, <1>2 DEF ObsNext, Over

(* Each job that runs or has ended is linked under its status, and no link   *)
(* of an earlier status is left behind that leads to an output directory;   *)
(* with a backend that makes them (log_manager.py:49-66, all but the fake   *)
(* one), no such link is left behind at all.                                *)
THEOREM LinksCorrect == ObsSpec => [](LinksFollow /\ (makesOutput => links = Followed))
<1>1. LinksInv => LinksFollow /\ (makesOutput => links = Followed)
  BY DEF LinksInv, LinksFollow
<1>2. QED BY <1>1, LinksInit, LinksStep, ObsTypeCorrect, PTL DEF ObsSpec

(* The observers see what the scheduler does: their specification has no    *)
(* behaviour that the life of the jobs has not.                             *)
THEOREM ObserversOnlyWatch == ObsSpec => Spec
<1>1. ObsInit => Init
  BY DEF ObsInit
<1>2. QED BY <1>1, StepsOfLifecycle, PTL DEF ObsSpec, Spec
=============================================================================
