------------------------ MODULE SchedulerLimitsProofs ------------------------
(***************************************************************************)
(* Theorems about the load that Scheduler accounts for and the limits it   *)
(* keeps, for every job graph, set of backends and limits that its         *)
(* assumptions allow.                                                      *)
(***************************************************************************)
EXTENDS SchedulerProofs, FiniteSetTheorems, WellFoundedInduction, TLAPS

-----------------------------------------------------------------------------
(* Sums over finite sets, for what is accounted for.  Induction over the    *)
(* subsets of a finite set takes the form of a smallest set among those for *)
(* which a fact fails.                                                     *)

(* Every family of subsets of a finite set has a smallest one.             *)
LEMMA SmallestSet ==
  ASSUME NEW S, IsFiniteSet(S), NEW F \in SUBSET SUBSET S, F # {}
  PROVE  \E T \in F : \A U \in F : U \subseteq T => U = T
<1>1. IsWellFoundedOn(StrictSubsetOrdering(S), SUBSET S)
  BY FS_StrictSubsetOrderingWellFounded, FS_FiniteSubsetsOfFinite
<1>2. \E T \in F : \A U \in F : <<U, T>> \notin StrictSubsetOrdering(S)
  BY <1>1, WFMin
<1>3. QED BY <1>2 DEF StrictSubsetOrdering

(* f sums the weights w over every subset of A, in whatever order.         *)
IsSum(f, w, A) ==
  /\ f \in [SUBSET A -> Int]
  /\ f[{}] = 0
  /\ \A T \in SUBSET A : \A x \in T : f[T] = w[x] + f[T \ {x}]

LEMMA SumExtends ==
  ASSUME NEW A, NEW w \in [A -> Int], NEW x \in A, NEW f, IsSum(f, w, A \ {x})
  PROVE  \E g : IsSum(g, w, A)
<1> DEFINE B == A \ {x}
           g == [T \in SUBSET A |-> IF x \in T THEN w[x] + f[T \ {x}] ELSE f[T]]
<1>1. /\ f \in [SUBSET B -> Int] /\ f[{}] = 0
      /\ \A T \in SUBSET B : \A y \in T : f[T] = w[y] + f[T \ {y}]
  BY DEF IsSum
<1>2. \A T \in SUBSET A : T \ {x} \in SUBSET B
  OBVIOUS
<1>3. g \in [SUBSET A -> Int]
  BY <1>1, <1>2
<1>4. g[{}] = 0
  BY <1>1
<1>5. ASSUME NEW T \in SUBSET A, NEW y \in T PROVE g[T] = w[y] + g[T \ {y}]
  <2>1. T \ {y} \in SUBSET A
    OBVIOUS
  <2>2. CASE y = x
    BY <2>1, <2>2
  <2>3. CASE y # x /\ x \notin T
    BY <1>1, <2>1, <2>3
  <2>4. CASE y # x /\ x \in T
    <3>1. (T \ {x}) \ {y} = (T \ {y}) \ {x}
      OBVIOUS
    <3>2. f[T \ {x}] = w[y] + f[(T \ {y}) \ {x}]
      <4>1. T \ {x} \in SUBSET B /\ y \in T \ {x}
        BY <1>2, <2>4
      <4>2. f[T \ {x}] = w[y] + f[(T \ {x}) \ {y}]
        BY <1>1, <4>1
      <4>3. QED BY <3>1, <4>2
    <3>3. g[T] = w[x] + f[T \ {x}] /\ g[T \ {y}] = w[x] + f[(T \ {y}) \ {x}]
      BY <2>1, <2>4
    <3>4. /\ w[x] \in Int /\ w[y] \in Int
          /\ f[T \ {x}] \in Int /\ f[(T \ {y}) \ {x}] \in Int
      BY <1>1, <1>2, <2>1
    <3> HIDE DEF g
    <3>5. QED BY <3>2, <3>3, <3>4
  <2>5. QED BY <2>2, <2>3, <2>4
<1> HIDE DEF g
<1>6. QED BY <1>3, <1>4, <1>5 DEF IsSum

LEMMA SumExists ==
  ASSUME NEW S, IsFiniteSet(S), NEW w \in [S -> Int]
  PROVE  \E f : IsSum(f, w, S)
<1> DEFINE Bad == {A \in SUBSET S : ~ \E f : IsSum(f, w, A)}
<1>1. ASSUME Bad # {} PROVE FALSE
  <2>1. Bad \in SUBSET SUBSET S
    OBVIOUS
  <2>2. PICK A \in Bad : \A U \in Bad : U \subseteq A => U = A
    <3> HIDE DEF Bad
    <3>1. QED BY <1>1, <2>1, SmallestSet
  <2>3. A # {}
    <3>1. IsSum([T \in SUBSET {} |-> 0], w, {})
      BY DEF IsSum
    <3>2. QED BY <3>1
  <2>4. PICK x \in A : TRUE
    BY <2>3
  <2>5. \E f : IsSum(f, w, A \ {x})
    <3>1. A \ {x} \notin Bad
      BY <2>2, <2>4
    <3>2. QED BY <3>1
  <2>6. IsFiniteSet(A) /\ A \in SUBSET S
    BY FS_Subset
  <2> DEFINE v == [a \in A |-> w[a]]
  <2>7. v \in [A -> Int] /\ \A f, B : B \subseteq A => (IsSum(f, v, B) <=> IsSum(f, w, B))
    BY <2>6 DEF IsSum
  <2>8. \E f : IsSum(f, v, A)
    <3>1. \E f : IsSum(f, v, A \ {x})
      BY <2>5, <2>7
    <3> HIDE DEF v
    <3>2. QED BY <2>7, <3>1, SumExtends
  <2>9. QED BY <2>7, <2>8
<1>2. S \notin Bad
  BY <1>1
<1>3. QED BY <1>2

(* The sum that MapThenSumSet of FiniteSetsExt computes takes the elements  *)
(* of a set in the order in which CHOOSE gives them.                       *)
Chosen(s) == CHOOSE x \in s : TRUE
SumsByChoice(h, w, S) ==
  h = [s \in SUBSET S |-> IF s = {} THEN 0 ELSE w[Chosen(s)] + h[s \ {Chosen(s)}]]

LEMMA ChoiceExists ==
  ASSUME NEW S, NEW w \in [S -> Int], NEW f, IsSum(f, w, S)
  PROVE  SumsByChoice(f, w, S)
<1>1. ASSUME NEW s \in SUBSET S, s # {}
      PROVE  f[s] = w[Chosen(s)] + f[s \ {Chosen(s)}]
  <2>1. Chosen(s) \in s
    BY <1>1 DEF Chosen
  <2>2. QED BY <2>1 DEF IsSum
<1>2. f \in [SUBSET S -> Int] /\ f[{}] = 0
  BY DEF IsSum
<1>3. QED BY <1>1, <1>2 DEF SumsByChoice

LEMMA ChoiceUnique ==
  ASSUME NEW S, IsFiniteSet(S), NEW w \in [S -> Int], NEW f, IsSum(f, w, S),
         NEW h, SumsByChoice(h, w, S)
  PROVE  h[S] = f[S]
<1>1. \A s \in SUBSET S :
        h[s] = IF s = {} THEN 0 ELSE w[Chosen(s)] + h[s \ {Chosen(s)}]
  BY DEF SumsByChoice
<1>2. \A s \in SUBSET S :
        f[s] = IF s = {} THEN 0 ELSE w[Chosen(s)] + f[s \ {Chosen(s)}]
  BY ChoiceExists DEF SumsByChoice
<1> DEFINE Bad == {s \in SUBSET S : h[s] # f[s]}
<1>3. ASSUME Bad # {} PROVE FALSE
  <2>1. Bad \in SUBSET SUBSET S
    OBVIOUS
  <2>2. PICK T \in Bad : \A U \in Bad : U \subseteq T => U = T
    <3> HIDE DEF Bad
    <3>1. QED BY <1>3, <2>1, SmallestSet
  <2>3. T # {}
    BY <1>1, <1>2
  <2>4. Chosen(T) \in T
    BY <2>3 DEF Chosen
  <2>5. T \ {Chosen(T)} \notin Bad /\ T \ {Chosen(T)} \in SUBSET S
    BY <2>2, <2>4
  <2>6. QED BY <1>1, <1>2, <2>3, <2>5
<1>4. QED BY <1>3

-----------------------------------------------------------------------------

(* The amount of r that the jobs in S need.                                *)
Load(r, S) == MapThenSumSet(LAMBDA j : Needs[j][r], S)
Weights(r, S) == [j \in S |-> Needs[j][r]]

LEMMA WeightsType ==
  ASSUME NEW r \in Resources, NEW S \in SUBSET Jobs
  PROVE  /\ Weights(r, S) \in [S -> Int]
         /\ IsFiniteSet(S)
         /\ \A j \in S : Weights(r, S)[j] = Needs[j][r] /\ Needs[j][r] \in Nat
<1>1. \A j \in S : Needs[j][r] \in Nat
  BY LimitsAssumption
<1>2. IsFiniteSet(S)
  BY JobsAssumption, FS_Subset
<1>3. QED BY <1>1, <1>2 DEF Weights

(* The fold by which the community modules add up is such a sum.           *)
LEMMA LoadIsSum ==
  ASSUME NEW r \in Resources, NEW S \in SUBSET Jobs, NEW f, IsSum(f, Weights(r, S), S)
  PROVE  Load(r, S) = f[S]
<1> DEFINE Rec(h) == h = [s \in SUBSET S |-> IF s = {} THEN 0
                            ELSE Needs[CHOOSE x \in s : TRUE][r]
                                   + h[s \ {CHOOSE x \in s : TRUE}]]
           h == CHOOSE h : Rec(h)
<1>1. Load(r, S) = h[S]
  BY DEF Load, MapThenSumSet, MapThenFoldSet
<1>2. \A g : Rec(g) <=> SumsByChoice(g, Weights(r, S), S)
  <2> SUFFICES ASSUME NEW g PROVE Rec(g) <=> SumsByChoice(g, Weights(r, S), S)
    OBVIOUS
  <2>1. \A s \in SUBSET S : s # {} => Weights(r, S)[Chosen(s)] = Needs[Chosen(s)][r]
    <3>1. \A s \in SUBSET S : s # {} => Chosen(s) \in S
      BY DEF Chosen
    <3>2. QED BY <3>1, WeightsType
  <2>2. [s \in SUBSET S |-> IF s = {} THEN 0 ELSE Weights(r, S)[Chosen(s)] + g[s \ {Chosen(s)}]]
          = [s \in SUBSET S |-> IF s = {} THEN 0 ELSE Needs[Chosen(s)][r] + g[s \ {Chosen(s)}]]
    BY <2>1
  <2>3. QED BY <2>2 DEF SumsByChoice, Chosen
<1>3. Weights(r, S) \in [S -> Int] /\ IsFiniteSet(S)
  BY WeightsType
<1>4. Rec(h)
  <2>1. Rec(f)
    <3>1. SumsByChoice(f, Weights(r, S), S)
      BY <1>3, ChoiceExists
    <3> HIDE DEF Rec
    <3>2. QED BY <1>2, <3>1
  <2> HIDE DEF Rec
  <2>2. QED BY <2>1
<1>5. SumsByChoice(h, Weights(r, S), S)
  BY <1>2, <1>4
<1> HIDE DEF h
<1>6. QED BY <1>1, <1>3, <1>5, ChoiceUnique

LEMMA LoadOf ==
  ASSUME NEW r \in Resources
  PROVE  /\ Load(r, {}) = 0
         /\ \A S \in SUBSET Jobs : Load(r, S) \in Int
         /\ \A S \in SUBSET Jobs : \A j \in S :
              Load(r, S) = Needs[j][r] + Load(r, S \ {j})
<1>1. PICK f : IsSum(f, Weights(r, Jobs), Jobs)
  BY JobsAssumption, WeightsType, SumExists
<1>2. /\ f \in [SUBSET Jobs -> Int] /\ f[{}] = 0
      /\ \A T \in SUBSET Jobs : \A j \in T : f[T] = Needs[j][r] + f[T \ {j}]
  BY <1>1, WeightsType DEF IsSum
<1>3. \A S \in SUBSET Jobs : Load(r, S) = f[S]
  <2> SUFFICES ASSUME NEW S \in SUBSET Jobs PROVE Load(r, S) = f[S]
    OBVIOUS
  <2> DEFINE g == [T \in SUBSET S |-> f[T]]
  <2>1. IsSum(g, Weights(r, S), S)
    BY <1>2, WeightsType DEF IsSum
  <2>2. Load(r, S) = g[S]
    <3> HIDE DEF g
    <3>1. QED BY <2>1, LoadIsSum
  <2>3. QED BY <2>2
<1>4. QED BY <1>2, <1>3

(***************************************************************************)
(* What a step may do to the load: nothing, or to one job at a time what   *)
(* these five say.                                                         *)
(***************************************************************************)
LoadSame == UNCHANGED <<running, launching, perBackend, usage>>

Selected(j) ==
  /\ pc = "select" /\ pc' = pc /\ SlotsLeft /\ CanLaunch(j)
  /\ IsTop(j)
  /\ j \notin launching /\ j \notin running
  /\ launching' = launching \cup {j}
  /\ TryAllocate(j)
  /\ UNCHANGED <<running, perBackend, blocked, status>>

MarkedRunning(j) ==
  /\ pc = "mark" /\ pc' = pc
  /\ j \in launching /\ j \notin running
  /\ launching' = launching \ {j}
  /\ running' = running \cup {j}
  /\ perBackend' = [perBackend EXCEPT ![BackendOf[j]] = @ + 1]
  /\ UNCHANGED usage

Refused(j) ==
  /\ pc = "mark" /\ pc' = pc
  /\ j \in launching /\ j \notin running
  /\ launching' = launching \ {j}
  /\ Release(j)
  /\ UNCHANGED <<running, perBackend>>

Ended(j) ==
  /\ pc # "select" /\ pc' = pc
  /\ j \in running /\ j \notin launching
  /\ running' = running \ {j}
  /\ perBackend' = [perBackend EXCEPT ![BackendOf[j]] = @ - 1]
  /\ Release(j)
  /\ UNCHANGED launching

LEMMA LaunchingNotRunning ==
  ASSUME IInv, NEW j \in Jobs
  PROVE  /\ j \in launching \/ heap[j] > 0 => j \notin running
         /\ heap[j] > 0 => j \notin launching /\ j \notin blocked
<1>1. running = {k \in Jobs : status[k] = "RUNNING"} /\ heap[j] \in Nat
  BY DEF IInv, RunningMatches, TypeOK
<1>2. j \in launching \/ heap[j] > 0 => status[j] = "QUEUED"
  BY HeldIsQueued
<1>3. ASSUME heap[j] > 0 PROVE j \notin launching /\ j \notin blocked
  <2>1. heap[j] + Count(j \in blocked) + Count(j \in launching) = 1
    BY <1>3, HeldIsQueued
  <2>2. QED BY <1>1, <1>3, <2>1 DEF Count
<1>4. QED BY <1>1, <1>2, <1>3

(* A job that completes outside of `complete` is not a running one, or the *)
(* call that completes it is made while completions are handled.           *)
LEMMA CompletedLoad ==
  ASSUME IInv, pc # "select", UNCHANGED <<pc, launching>>,
         NEW j \in Jobs, NEW s, NEW left, MarkCompleted(j, s, left)
  PROVE  LoadSame \/ Ended(j)
<1>1. CASE j \in running
  BY <1>1, LaunchingNotRunning DEF MarkCompleted, Ended
<1>2. CASE j \notin running
  BY <1>2 DEF MarkCompleted, LoadSame
<1>3. QED BY <1>1, <1>2

LEMMA LoadStep ==
  ASSUME IInv, [Next]_vars
  PROVE  LoadSame \/ \E j \in Jobs : Selected(j) \/ MarkedRunning(j) \/ Refused(j) \/ Ended(j)
<1>1. ASSUME \/ StartLoop \/ Submit \/ Submitted \/ AfterScheduling
             \/ WakeForCompletion \/ DrainCompletions \/ CompletionsHandled
             \/ DependentsUpdated \/ HandleExitSignal \/ AwaitKills
             \/ KillsReturned \/ Signal \/ SetShutdownEvent
             \/ UNCHANGED vars
      PROVE  LoadSame
  BY <1>1 DEF StartLoop, Submit, Submitted, AfterScheduling, WakeForCompletion,
     DrainCompletions, CompletionsHandled, DependentsUpdated, HandleExitSignal,
     AwaitKills, KillsReturned, Signal, SetShutdownEvent, vars, loadVars, heapVars,
     LoadSame
<1>2. ASSUME NEW j \in Jobs, StartReady(j) \/ SelectBlocked(j) \/ Accept(j) \/ Refuse(j)
      PROVE  LoadSame
  BY <1>2 DEF StartReady, SelectBlocked, Accept, Refuse, loadVars, heapVars, LoadSame
<1>3. ASSUME NEW j \in Jobs, NEW s \in Outcomes,
             SubmitJobCompletion(j, s) \/ RepeatJobCompletion(j, s)
      PROVE  LoadSame
  BY <1>3 DEF SubmitJobCompletion, RepeatJobCompletion, loadVars, heapVars, LoadSame
<1>4. ASSUME NEW j \in Jobs, NEW d \in Jobs, ReadyDependent(j, d) \/ PassOverDependent(j, d)
      PROVE  LoadSame
  BY <1>4 DEF ReadyDependent, PassOverDependent, loadVars, heapVars, LoadSame
<1>5. ASSUME NEW j \in Jobs, SelectToLaunch(j) PROVE Selected(j)
  <2>1. heap[j] > 0
    BY <1>5 DEF SelectToLaunch, IsTop
  <2>2. QED BY <1>5, <2>1, LaunchingNotRunning DEF SelectToLaunch, Selected
<1>6. ASSUME NEW j \in Jobs, MarkRunning(j) PROVE MarkedRunning(j)
  BY <1>6, LaunchingNotRunning DEF MarkRunning, MarkedRunning
<1>7. ASSUME NEW j \in Jobs, Requeue(j) PROVE Refused(j)
  BY <1>7, LaunchingNotRunning DEF Requeue, Refused
<1>8. CASE HandleCompletion
  <2>1. CASE status[Head(batch).job] \in Terminal
    BY <1>8, <2>1 DEF HandleCompletion, loadVars, heapVars, LoadSame
  <2>2. CASE status[Head(batch).job] \notin Terminal
    <3>1. /\ MarkCompleted(Head(batch).job, Head(batch).status, untold)
          /\ pc = "complete" /\ UNCHANGED <<pc, launching>>
      BY <1>8, <2>2 DEF HandleCompletion, heapVars
    <3>2. Head(batch).job \in Jobs
      BY <1>8, CompletedWasRunning DEF HandleCompletion
    <3>3. QED BY <3>1, <3>2, CompletedLoad
  <2>3. QED BY <2>1, <2>2
<1>9. ASSUME NEW j \in Jobs, NEW d \in Jobs, KillDependent(j, d)
      PROVE  LoadSame \/ Ended(d)
  <2>1. stack # <<>> /\ UNCHANGED <<pc, launching>> /\ MarkCompleted(d, "KILLED", Told(j, d))
    BY <1>9 DEF KillDependent, Calling, heapVars
  <2>2. pc # "select"
    BY <2>1 DEF IInv, CallsActive
  <2>3. QED BY <2>1, <2>2, CompletedLoad
<1>10. ASSUME NEW j \in Jobs, KillQueued(j) PROVE LoadSame \/ Ended(j)
  <2>1. CASE status[j] \in Terminal
    BY <1>10, <2>1 DEF KillQueued, loadVars, LoadSame
  <2>2. CASE status[j] \notin Terminal
    BY <1>10, <2>2, CompletedLoad DEF KillQueued
  <2>3. QED BY <2>1, <2>2
<1>11. QED
  BY <1>1, <1>2, <1>3, <1>4, <1>5, <1>6, <1>7, <1>8, <1>9, <1>10
  DEF Next, SchedulerStep, UpdateDependent, Answer, Complete, Finished

(***************************************************************************)
(* The accounts.                                                           *)
(***************************************************************************)
BackendsCounted == \A b \in Backends : perBackend[b] = Cardinality(OnBackend(b, running))
UsageCounted == \A r \in Resources : usage[r] = Load(r, running \cup launching)

LEMMA FiniteLoads ==
  ASSUME TypeOK
  PROVE  /\ running \in SUBSET Jobs /\ launching \in SUBSET Jobs
         /\ IsFiniteSet(running) /\ IsFiniteSet(launching)
         /\ IsFiniteSet(running \cup launching)
         /\ \A b : /\ IsFiniteSet(OnBackend(b, running))
                  /\ IsFiniteSet(OnBackend(b, running \cup launching))
<1>1. running \in SUBSET Jobs /\ launching \in SUBSET Jobs
  BY DEF TypeOK
<1>2. \A S \in SUBSET Jobs : IsFiniteSet(S)
  BY JobsAssumption, FS_Subset
<1>3. QED BY <1>1, <1>2 DEF OnBackend

(* One job more, or one less, in the jobs on a backend.                    *)
LEMMA OneMore ==
  ASSUME NEW S \in SUBSET Jobs, NEW j \in Jobs, j \notin S, NEW b
  PROVE  Cardinality(OnBackend(b, S \cup {j})) =
           Cardinality(OnBackend(b, S)) + (IF b = BackendOf[j] THEN 1 ELSE 0)
<1>1. IsFiniteSet(OnBackend(b, S)) /\ j \notin OnBackend(b, S)
  BY JobsAssumption, FS_Subset DEF OnBackend
<1>2. OnBackend(b, S \cup {j}) =
        IF b = BackendOf[j] THEN OnBackend(b, S) \cup {j} ELSE OnBackend(b, S)
  BY DEF OnBackend
<1>3. Cardinality(OnBackend(b, S)) \in Nat
  BY <1>1, FS_CardinalityType
<1>4. Cardinality(OnBackend(b, S) \cup {j}) = Cardinality(OnBackend(b, S)) + 1
  BY <1>1, FS_AddElement
<1>5. QED BY <1>2, <1>3, <1>4

LEMMA OneLess ==
  ASSUME NEW S \in SUBSET Jobs, NEW j \in S, NEW b
  PROVE  Cardinality(OnBackend(b, S \ {j})) =
           Cardinality(OnBackend(b, S)) - (IF b = BackendOf[j] THEN 1 ELSE 0)
<1> DEFINE T == S \ {j}
<1>1. T \in SUBSET Jobs /\ j \notin T /\ T \cup {j} = S
  OBVIOUS
<1>2. Cardinality(OnBackend(b, T)) \in Nat
  BY <1>1, JobsAssumption, FS_Subset, FS_CardinalityType DEF OnBackend
<1> HIDE DEF T
<1>3. Cardinality(OnBackend(b, S)) =
        Cardinality(OnBackend(b, T)) + (IF b = BackendOf[j] THEN 1 ELSE 0)
  BY <1>1, OneMore
<1>4. QED BY <1>2, <1>3 DEF T

LEMMA BackendsStep ==
  ASSUME IInv, BackendsCounted, [Next]_vars
  PROVE  BackendsCounted'
<1>1. TypeOK
  BY DEF IInv
<1>2. running \in SUBSET Jobs /\ perBackend \in [Backends -> Int]
  BY <1>1 DEF TypeOK
<1>3. ASSUME UNCHANGED <<running, perBackend>> PROVE BackendsCounted'
  BY <1>3 DEF BackendsCounted, OnBackend
<1>4. ASSUME NEW j \in Jobs, MarkedRunning(j) PROVE BackendsCounted'
  <2> SUFFICES ASSUME NEW b \in Backends
               PROVE  perBackend'[b] = Cardinality(OnBackend(b, running)')
    BY DEF BackendsCounted
  <2>1. OnBackend(b, running)' = OnBackend(b, running \cup {j})
    BY <1>4 DEF MarkedRunning, OnBackend
  <2>2. perBackend'[b] = perBackend[b] + (IF b = BackendOf[j] THEN 1 ELSE 0)
    BY <1>2, <1>4 DEF MarkedRunning
  <2>3. perBackend[b] = Cardinality(OnBackend(b, running))
    BY DEF BackendsCounted
  <2>4. j \notin running
    BY <1>4 DEF MarkedRunning
  <2>5. QED BY <1>2, <2>1, <2>2, <2>3, <2>4, OneMore
<1>5. ASSUME NEW j \in Jobs, Ended(j) PROVE BackendsCounted'
  <2> SUFFICES ASSUME NEW b \in Backends
               PROVE  perBackend'[b] = Cardinality(OnBackend(b, running)')
    BY DEF BackendsCounted
  <2>1. OnBackend(b, running)' = OnBackend(b, running \ {j})
    BY <1>5 DEF Ended, OnBackend
  <2>2. perBackend'[b] = perBackend[b] - (IF b = BackendOf[j] THEN 1 ELSE 0)
    BY <1>2, <1>5 DEF Ended
  <2>3. perBackend[b] = Cardinality(OnBackend(b, running))
    BY DEF BackendsCounted
  <2>4. j \in running
    BY <1>5 DEF Ended
  <2>5. QED BY <1>2, <2>1, <2>2, <2>3, <2>4, OneLess
<1>6. QED BY <1>3, <1>4, <1>5, LoadStep DEF LoadSame, Selected, Refused

(* One job more, or one less, in the jobs whose needs are added up.        *)
LEMMA LoadMore ==
  ASSUME NEW r \in Resources, NEW S \in SUBSET Jobs, NEW j \in Jobs, j \notin S
  PROVE  Load(r, S \cup {j}) = Load(r, S) + Needs[j][r]
<1> DEFINE T == S \cup {j}
<1>1. T \in SUBSET Jobs /\ j \in T /\ T \ {j} = S
  OBVIOUS
<1>2. Needs[j][r] \in Int
  BY LimitsAssumption
<1> HIDE DEF T
<1>3. Load(r, T) = Needs[j][r] + Load(r, S) /\ Load(r, S) \in Int
  BY <1>1, LoadOf
<1>4. QED BY <1>2, <1>3 DEF T

LEMMA LoadLess ==
  ASSUME NEW r \in Resources, NEW S \in SUBSET Jobs, NEW j \in S
  PROVE  Load(r, S \ {j}) = Load(r, S) - Needs[j][r]
<1> DEFINE T == S \ {j}
<1>1. T \in SUBSET Jobs /\ Needs[j][r] \in Int
  BY LimitsAssumption
<1>2. Load(r, S) = Needs[j][r] + Load(r, T) /\ Load(r, T) \in Int
  BY <1>1, LoadOf
<1> HIDE DEF T
<1>3. QED BY <1>1, <1>2 DEF T

LEMMA UsageStep ==
  ASSUME IInv, UsageCounted, [Next]_vars
  PROVE  UsageCounted'
<1>1. /\ running \in SUBSET Jobs /\ launching \in SUBSET Jobs
      /\ running \cup launching \in SUBSET Jobs
  BY DEF IInv, TypeOK
<1> SUFFICES ASSUME NEW r \in Resources
             PROVE  (usage[r] = Load(r, running \cup launching))'
  BY DEF UsageCounted
<1>2. usage[r] = Load(r, running \cup launching)
  BY DEF UsageCounted
<1>3. ASSUME (running \cup launching)' = running \cup launching, usage'[r] = usage[r]
      PROVE  (usage[r] = Load(r, running \cup launching))'
  BY <1>2, <1>3
<1>4. ASSUME NEW j \in Jobs, Selected(j)
      PROVE  (usage[r] = Load(r, running \cup launching))'
  <2>1. (running \cup launching)' = (running \cup launching) \cup {j}
    BY <1>4 DEF Selected
  <2>2. j \notin running \cup launching
    BY <1>4 DEF Selected
  <2>3. usage'[r] = usage[r] + Needs[j][r]
    BY <1>4 DEF Selected, TryAllocate
  <2>4. Load(r, (running \cup launching) \cup {j}) = Load(r, running \cup launching) + Needs[j][r]
    BY <1>1, <2>2, LoadMore
  <2>5. usage'[r] = Load(r, (running \cup launching) \cup {j})
    BY <1>2, <2>3, <2>4
  <2>6. QED BY <2>1, <2>5
<1>5. ASSUME NEW j \in Jobs, Refused(j) \/ Ended(j)
      PROVE  (usage[r] = Load(r, running \cup launching))'
  <2>1. (running \cup launching)' = (running \cup launching) \ {j}
    BY <1>5 DEF Refused, Ended
  <2>2. j \in running \cup launching
    BY <1>5 DEF Refused, Ended
  <2>3. usage'[r] = usage[r] - Needs[j][r]
    BY <1>5 DEF Refused, Ended, Release
  <2>4. Load(r, (running \cup launching) \ {j}) = Load(r, running \cup launching) - Needs[j][r]
    BY <1>1, <2>2, LoadLess
  <2>5. usage'[r] = Load(r, (running \cup launching) \ {j})
    BY <1>2, <2>3, <2>4
  <2>6. QED BY <2>1, <2>5
<1>6. ASSUME LoadSame \/ \E j \in Jobs : MarkedRunning(j)
      PROVE  (running \cup launching)' = running \cup launching /\ usage'[r] = usage[r]
  BY <1>6 DEF LoadSame, MarkedRunning
<1>7. QED BY <1>3, <1>4, <1>5, <1>6, LoadStep

(***************************************************************************)
(* The limits.                                                             *)
(***************************************************************************)
SlotsKept == MaxParallelism > 0 => Cardinality(running \cup launching) <= MaxParallelism
BackendsKept == \A b \in Backends :
  BackendMax[b] > 0 => Cardinality(OnBackend(b, running \cup launching)) <= BackendMax[b]
UsageKept == \A r \in Resources : usage[r] <= Limit[r]

LEMMA LimitsParts == LimitsRespected <=> SlotsKept /\ BackendsKept /\ UsageKept
BY DEF LimitsRespected, SlotsKept, BackendsKept, UsageKept

(* What is counted apart for running and launching jobs adds up.           *)
LEMMA ActiveCounts ==
  ASSUME IInv
  PROVE  /\ Cardinality(running \cup launching) = Cardinality(running) + Cardinality(launching)
         /\ \A b : Cardinality(OnBackend(b, running \cup launching)) =
                     Cardinality(OnBackend(b, running)) + Cardinality(OnBackend(b, launching))
<1>1. TypeOK /\ launching \in SUBSET Jobs
  BY DEF IInv, TypeOK
<1>2. running \cap launching = {}
  BY <1>1, LaunchingNotRunning
<1>3. ASSUME NEW S, NEW T, IsFiniteSet(S), IsFiniteSet(T), S \cap T = {}
      PROVE  Cardinality(S \cup T) = Cardinality(S) + Cardinality(T)
  <2>1. Cardinality(S) \in Nat /\ Cardinality(T) \in Nat /\ Cardinality({}) = 0
    BY <1>3, FS_CardinalityType, FS_EmptySet
  <2>2. Cardinality(S \cup T) = Cardinality(S) + Cardinality(T) - Cardinality(S \cap T)
    BY <1>3, FS_Union
  <2>3. Cardinality(S \cap T) = 0
    BY <1>3, <2>1
  <2>4. QED BY <2>1, <2>2, <2>3
<1>4. IsFiniteSet(running) /\ IsFiniteSet(launching)
  BY <1>1, FiniteLoads
<1>5. ASSUME NEW b
      PROVE  Cardinality(OnBackend(b, running \cup launching)) =
               Cardinality(OnBackend(b, running)) + Cardinality(OnBackend(b, launching))
  <2>1. /\ OnBackend(b, running \cup launching) = OnBackend(b, running) \cup OnBackend(b, launching)
        /\ OnBackend(b, running) \cap OnBackend(b, launching) = {}
        /\ OnBackend(b, running) \subseteq running
        /\ OnBackend(b, launching) \subseteq launching
    BY <1>2 DEF OnBackend
  <2>2. IsFiniteSet(OnBackend(b, running)) /\ IsFiniteSet(OnBackend(b, launching))
    BY <1>4, <2>1, FS_Subset
  <2>3. QED BY <1>3, <2>1, <2>2
<1>6. QED BY <1>2, <1>3, <1>4, <1>5

(* A job is selected only while there is room for one more.                *)
LEMMA SelectedFits ==
  ASSUME IInv, BackendsCounted, LimitsRespected, NEW j \in Jobs, Selected(j)
  PROVE  LimitsRespected'
<1> DEFINE active == running \cup launching
<1>1. TypeOK /\ active \in SUBSET Jobs /\ usage \in [Resources -> Int]
  BY DEF IInv, TypeOK
<1>2. (running \cup launching)' = active \cup {j} /\ j \notin active
  BY DEF Selected
<1>3. IsFiniteSet(active)
  BY <1>1, FiniteLoads
<1>4. SlotsKept'
  <2> SUFFICES ASSUME MaxParallelism > 0
               PROVE  Cardinality(running \cup launching)' <= MaxParallelism
    BY DEF SlotsKept
  <2>1. Cardinality(running) + Cardinality(launching) < MaxParallelism
    BY DEF Selected, SlotsLeft
  <2>2. Cardinality(active) < MaxParallelism /\ Cardinality(active) \in Nat
    BY <1>3, <2>1, ActiveCounts, FS_CardinalityType
  <2> HIDE DEF active
  <2>3. Cardinality(active \cup {j}) = Cardinality(active) + 1
    BY <1>2, <1>3, FS_AddElement
  <2>4. Cardinality((running \cup launching)') = Cardinality(active \cup {j})
    BY <1>2
  <2>5. MaxParallelism \in Nat
    BY LimitsAssumption
  <2>6. QED BY <2>2, <2>3, <2>4, <2>5
<1>5. BackendsKept'
  <2> SUFFICES ASSUME NEW b \in Backends, BackendMax[b] > 0
               PROVE  Cardinality(OnBackend(b, running \cup launching))' <= BackendMax[b]
    BY DEF BackendsKept
  <2>1. Cardinality(OnBackend(b, active)) \in Nat /\ BackendMax[b] \in Nat
    BY <1>1, FiniteLoads, FS_CardinalityType, LimitsAssumption
  <2>2. Cardinality(OnBackend(b, active)) <= BackendMax[b]
    BY DEF LimitsRespected
  <2>3. b = BackendOf[j] => Cardinality(OnBackend(b, active)) < BackendMax[b]
    <3> SUFFICES ASSUME b = BackendOf[j]
                 PROVE  Cardinality(OnBackend(b, active)) < BackendMax[b]
      OBVIOUS
    <3>1. perBackend[b] + Cardinality({k \in launching : BackendOf[k] = b}) < BackendMax[b]
      BY DEF Selected, CanLaunch, BackendHasRoom
    <3>2. perBackend[b] = Cardinality(OnBackend(b, running))
      BY DEF BackendsCounted
    <3>3. OnBackend(b, launching) = {k \in launching : BackendOf[k] = b}
      BY DEF OnBackend
    <3>4. QED BY <3>1, <3>2, <3>3, ActiveCounts
  <2>4. OnBackend(b, running \cup launching)' = OnBackend(b, active \cup {j})
    BY <1>2 DEF OnBackend
  <2> HIDE DEF active
  <2>5. Cardinality(OnBackend(b, active \cup {j})) =
          Cardinality(OnBackend(b, active)) + (IF b = BackendOf[j] THEN 1 ELSE 0)
    BY <1>1, <1>2, OneMore
  <2>6. QED BY <2>1, <2>2, <2>3, <2>4, <2>5
<1>6. UsageKept'
  <2> SUFFICES ASSUME NEW r \in Resources PROVE usage'[r] <= Limit[r]
    BY DEF UsageKept
  <2>1. usage'[r] = usage[r] + Needs[j][r]
    BY DEF Selected, TryAllocate
  <2>2. Needs[j][r] > 0 => usage[r] + Needs[j][r] <= Limit[r]
    BY DEF Selected, CanLaunch, CanAllocate
  <2>3. usage[r] <= Limit[r] /\ usage[r] \in Int
    BY <1>1 DEF LimitsRespected
  <2>4. Needs[j][r] \in Nat /\ Limit[r] \in Nat
    BY LimitsAssumption
  <2>5. QED BY <2>1, <2>2, <2>3, <2>4
<1>7. QED
  <2>1. (LimitsRespected <=> SlotsKept /\ BackendsKept /\ UsageKept)'
    BY LimitsParts, PTL
  <2>2. QED BY <1>4, <1>5, <1>6, <2>1

(* No other step makes the load any bigger.                                *)
LEMMA LighterFits ==
  ASSUME IInv, LimitsRespected,
         (running \cup launching)' \subseteq running \cup launching,
         \A r \in Resources : usage'[r] <= usage[r] /\ usage'[r] \in Int
  PROVE  LimitsRespected'
<1> DEFINE active == running \cup launching
           after == (running \cup launching)'
<1>1. TypeOK /\ usage \in [Resources -> Int]
  BY DEF IInv, TypeOK
<1>2. after \subseteq active /\ IsFiniteSet(active)
  BY <1>1, FiniteLoads
<1>3. ASSUME NEW S, IsFiniteSet(S), NEW T \in SUBSET S, NEW n \in Nat, Cardinality(S) <= n
      PROVE  Cardinality(T) <= n
  <2>1. Cardinality(T) <= Cardinality(S) /\ IsFiniteSet(T)
    BY <1>3, FS_Subset
  <2>2. QED BY <1>3, <2>1, FS_CardinalityType
<1>4. SlotsKept'
  BY <1>2, <1>3, LimitsAssumption DEF SlotsKept, LimitsRespected
<1>5. BackendsKept'
  <2> SUFFICES ASSUME NEW b \in Backends, BackendMax[b] > 0
               PROVE  Cardinality(OnBackend(b, running \cup launching)') <= BackendMax[b]
    BY DEF BackendsKept
  <2>1. OnBackend(b, running \cup launching)' \subseteq OnBackend(b, active)
    BY <1>2 DEF OnBackend
  <2>2. Cardinality(OnBackend(b, active)) <= BackendMax[b]
    BY DEF LimitsRespected
  <2>3. IsFiniteSet(OnBackend(b, active)) /\ BackendMax[b] \in Nat
    BY <1>1, FiniteLoads, LimitsAssumption
  <2> HIDE DEF active
  <2>4. QED BY <1>3, <2>1, <2>2, <2>3
<1>6. UsageKept'
  BY <1>1, LimitsAssumption DEF UsageKept, LimitsRespected
<1>7. QED
  <2>1. (LimitsRespected <=> SlotsKept /\ BackendsKept /\ UsageKept)'
    BY LimitsParts, PTL
  <2>2. QED BY <1>4, <1>5, <1>6, <2>1

LEMMA LimitsStep ==
  ASSUME IInv, BackendsCounted, LimitsRespected, [Next]_vars
  PROVE  LimitsRespected'
<1>1. usage \in [Resources -> Int]
  BY DEF IInv, TypeOK
<1>2. ASSUME NEW j \in Jobs, Selected(j) PROVE LimitsRespected'
  BY <1>2, SelectedFits
<1>3. ASSUME NEW j \in Jobs, Refused(j) \/ Ended(j) PROVE LimitsRespected'
  <2>1. (running \cup launching)' \subseteq running \cup launching
    BY <1>3 DEF Refused, Ended
  <2>2. ASSUME NEW r \in Resources PROVE usage'[r] <= usage[r] /\ usage'[r] \in Int
    <3>1. usage'[r] = usage[r] - Needs[j][r]
      BY <1>3 DEF Refused, Ended, Release
    <3>2. usage[r] \in Int /\ Needs[j][r] \in Nat
      BY <1>1, LimitsAssumption
    <3>3. QED BY <3>1, <3>2
  <2>3. QED BY <2>1, <2>2, LighterFits
<1>4. ASSUME LoadSame \/ \E j \in Jobs : MarkedRunning(j) PROVE LimitsRespected'
  <2>1. (running \cup launching)' \subseteq running \cup launching /\ usage' = usage
    BY <1>4 DEF LoadSame, MarkedRunning
  <2>2. \A r \in Resources : usage'[r] <= usage[r] /\ usage'[r] \in Int
    BY <1>1, <2>1
  <2>3. QED BY <2>1, <2>2, LighterFits
<1>5. QED BY <1>2, <1>3, <1>4, LoadStep

(***************************************************************************)
(* The order in which jobs are chosen.  A job that was passed over stays   *)
(* out of reach until the pass ends: nothing is released meanwhile.        *)
(***************************************************************************)
BlockedStayBlocked == pc = "select" => \A j \in blocked : ~CanLaunch(j)

LEMMA SelectingStep ==
  ASSUME IInv, [Next]_vars, pc' = "select"
  PROVE  \/ launching' = {} /\ blocked' = {}
         \/ pc = "select" /\ UNCHANGED <<heapVars, loadVars, status>>
         \/ pc = "select" /\ \E j \in Jobs : SelectToLaunch(j) \/ SelectBlocked(j)
<1>1. CASE pc # "select"
  <2>1. blocked = {} /\ (pc # "mark" /\ pc # "submit" => launching = {})
    BY <1>1 DEF IInv, PassesConfined
  <2>2. CASE StartLoop \/ AfterScheduling \/ CompletionsHandled \/ HandleExitSignal
             \/ AwaitKills \/ KillsReturned
    BY <2>1, <2>2 DEF StartLoop, AfterScheduling, CompletionsHandled, HandleExitSignal,
       AwaitKills, KillsReturned, heapVars
  <2>3. CASE UNCHANGED pc
    BY <1>1, <2>3
  <2>4. CASE Submit \/ Submitted \/ WakeForCompletion \/ DrainCompletions
    BY <2>4 DEF Submit, Submitted, WakeForCompletion, DrainCompletions
  <2>5. QED BY <2>2, <2>3, <2>4
    DEF Next, SchedulerStep, UpdateDependent, Answer, Complete, Finished,
        HandleCompletion, ReadyDependent, KillDependent, PassOverDependent,
        DependentsUpdated, StartReady, SelectToLaunch, SelectBlocked, MarkRunning,
        Requeue, KillQueued, Signal, SetShutdownEvent, Accept, Refuse,
        SubmitJobCompletion, RepeatJobCompletion, vars
<1>2. CASE pc = "select"
  <2>1. stack = <<>> /\ pc \notin Suspended
    BY <1>2 DEF IInv, CallsActive, Suspended
  <2>2. CASE UNCHANGED vars
    BY <1>2, <2>2 DEF vars, heapVars, loadVars
  <2>3. CASE Submit
    BY <2>3 DEF Submit
  <2>4. QED BY <1>2, <2>1, <2>2, <2>3
    DEF Next, SchedulerStep, UpdateDependent, Answer, Complete, Finished, Calling,
        StartLoop, Submitted, AfterScheduling, WakeForCompletion, DrainCompletions,
        CompletionsHandled, HandleExitSignal, AwaitKills, KillsReturned,
        HandleCompletion, ReadyDependent, KillDependent, PassOverDependent,
        DependentsUpdated, StartReady, MarkRunning, Requeue, KillQueued, Signal,
        SetShutdownEvent, Accept, Refuse, SubmitJobCompletion, RepeatJobCompletion
<1>3. QED BY <1>1, <1>2

(* A job that cannot be launched cannot be once another has been chosen.   *)
LEMMA StillBlocked ==
  ASSUME TypeOK, NEW k \in Jobs, SelectToLaunch(k), NEW j \in Jobs, ~CanLaunch(j)
  PROVE  ~CanLaunch(j)'
<1>1. /\ usage \in [Resources -> Int] /\ perBackend \in [Backends -> Int]
      /\ launching \in SUBSET Jobs
  BY DEF TypeOK
<1>2. /\ launching' = launching \cup {k} /\ perBackend' = perBackend
      /\ usage' = [r \in Resources |-> usage[r] + Needs[k][r]]
  BY DEF SelectToLaunch, TryAllocate
<1>3. BackendOf[j] \in Backends
  BY LimitsAssumption
<1>4. CASE ~BackendHasRoom(BackendOf[j])
  <2> DEFINE b == BackendOf[j]
             S == {i \in launching : BackendOf[i] = b}
             T == {i \in launching \cup {k} : BackendOf[i] = b}
  <2>1. T \in SUBSET Jobs /\ S \in SUBSET T
    BY <1>1
  <2>2. IsFiniteSet(T) /\ IsFiniteSet(S)
    BY <2>1, JobsAssumption, FS_Subset
  <2>3. Cardinality(S) <= Cardinality(T)
    <3> HIDE DEF S, T
    <3>1. QED BY <2>1, <2>2, FS_Subset
  <2>4. Cardinality(S) \in Nat /\ Cardinality(T) \in Nat
    BY <2>2, FS_CardinalityType
  <2>5. BackendMax[b] > 0 /\ ~(perBackend[b] + Cardinality(S) < BackendMax[b])
    BY <1>4 DEF BackendHasRoom
  <2>6. {i \in launching' : BackendOf[i] = b} = T
    BY <1>2
  <2>7. perBackend[b] \in Int /\ BackendMax[b] \in Nat
    BY <1>1, <1>3, LimitsAssumption
  <2>8. ~(perBackend[b] + Cardinality(T) < BackendMax[b])
    <3> HIDE DEF S, T
    <3>1. QED BY <2>3, <2>4, <2>5, <2>7
  <2>9. ~BackendHasRoom(b)'
    BY <1>2, <2>5, <2>6, <2>8 DEF BackendHasRoom
  <2>10. QED BY <2>9 DEF CanLaunch
<1>5. CASE ~CanAllocate(j)
  <2>1. PICK r \in Resources : Needs[j][r] > 0 /\ ~(usage[r] + Needs[j][r] <= Limit[r])
    BY <1>5 DEF CanAllocate
  <2>2. Needs[j][r] \in Nat /\ Needs[k][r] \in Nat /\ usage[r] \in Int /\ Limit[r] \in Nat
    BY <1>1, LimitsAssumption
  <2>3. usage'[r] = usage[r] + Needs[k][r]
    BY <1>2
  <2>4. ~(usage'[r] + Needs[j][r] <= Limit[r])
    BY <2>1, <2>2, <2>3
  <2>5. QED BY <2>1, <2>4 DEF CanLaunch, CanAllocate
<1>6. QED BY <1>4, <1>5 DEF CanLaunch

LEMMA BlockedStep ==
  ASSUME IInv, BlockedStayBlocked, [Next]_vars
  PROVE  BlockedStayBlocked'
<1> SUFFICES ASSUME pc' = "select", NEW j \in blocked'
             PROVE  ~CanLaunch(j)'
  BY DEF BlockedStayBlocked
<1>1. TypeOK /\ blocked \subseteq Jobs
  BY DEF IInv, TypeOK
<1>2. CASE pc = "select" /\ UNCHANGED <<heapVars, loadVars, status>>
  BY <1>2 DEF BlockedStayBlocked, heapVars, loadVars, CanLaunch, BackendHasRoom, CanAllocate
<1>3. ASSUME pc = "select", NEW k \in Jobs, SelectToLaunch(k) PROVE ~CanLaunch(j)'
  <2>1. j \in blocked
    BY <1>3 DEF SelectToLaunch
  <2>2. QED BY <1>1, <1>3, <2>1, StillBlocked DEF BlockedStayBlocked
<1>4. ASSUME pc = "select", NEW k \in Jobs, SelectBlocked(k) PROVE ~CanLaunch(j)'
  <2>1. ~CanLaunch(j)
    BY <1>4 DEF SelectBlocked, BlockedStayBlocked
  <2>2. QED BY <1>4, <2>1 DEF SelectBlocked, loadVars, CanLaunch, BackendHasRoom, CanAllocate
<1>5. QED BY <1>2, <1>3, <1>4, SelectingStep

LEMMA PrioritiesStep ==
  ASSUME IInv, IInv', BlockedStayBlocked, BlockedStayBlocked', PrioritiesRespected, [Next]_vars
  PROVE  PrioritiesRespected'
<1> SUFFICES ASSUME pc' = "select", NEW k \in launching', NEW j \in Jobs,
                    status'[j] = "QUEUED", Rank[j] < Rank[k]
             PROVE  j \in launching' \/ (j \in blocked' /\ ~CanLaunch(j)')
  BY DEF PrioritiesRespected
<1>1. j \in blocked' => ~CanLaunch(j)'
  BY DEF BlockedStayBlocked
<1>2. CASE pc = "select" /\ UNCHANGED <<heapVars, loadVars, status>>
  <2>1. j \in launching \/ j \in blocked
    BY <1>2 DEF PrioritiesRespected, heapVars
  <2>2. QED BY <1>1, <1>2, <2>1 DEF heapVars
<1>3. ASSUME pc = "select", NEW i \in Jobs, SelectToLaunch(i)
      PROVE  j \in launching' \/ j \in blocked'
  <2>1. /\ launching' = launching \cup {i} /\ blocked' = blocked /\ status' = status
        /\ IsTop(i)
    BY <1>3 DEF SelectToLaunch
  <2>2. CASE k \in launching
    BY <1>3, <2>1, <2>2 DEF PrioritiesRespected
  <2>3. CASE k = i
    <3>1. Rank[j] \in Nat /\ Rank[k] \in Nat
      BY <2>3, RankAssumption
    <3>2. heap[j] \in Nat /\ ~(heap[j] > 0)
      <4>1. heap[j] \in Nat
        BY DEF IInv, TypeOK
      <4>2. heap[j] > 0 => Rank[j] >= Rank[i]
        BY <2>1, <3>1 DEF IsTop
      <4>3. QED BY <2>3, <3>1, <4>1, <4>2
    <3>3. heap[j] + Count(j \in blocked) + Count(j \in launching) = 1
      <4>1. status[j] = "QUEUED"
        BY <2>1
      <4>2. heap[j] + Count(j \in blocked) + Count(j \in launching) = Count(status[j] = "QUEUED")
        BY DEF IInv, QueuedJobsHeldOnce
      <4>3. QED BY <4>1, <4>2 DEF Count
    <3>4. QED BY <2>1, <3>2, <3>3 DEF Count
  <2>4. QED BY <2>1, <2>2, <2>3
<1>4. ASSUME pc = "select", NEW i \in Jobs, SelectBlocked(i)
      PROVE  j \in launching' \/ j \in blocked'
  BY <1>4 DEF SelectBlocked, PrioritiesRespected
<1>5. QED BY <1>1, <1>2, <1>3, <1>4, SelectingStep

(***************************************************************************)
(* The theorems.                                                           *)
(***************************************************************************)
LInv == /\ IInv
        /\ BackendsCounted
        /\ UsageCounted
        /\ LimitsRespected
        /\ BlockedStayBlocked
        /\ PrioritiesRespected

LEMMA LoadInit == Init => LInv
<1> SUFFICES ASSUME Init PROVE LInv
  OBVIOUS
<1>1. IInv
  BY InvariantInit
<1>2. /\ running = {} /\ launching = {} /\ pc = "start"
      /\ usage = [r \in Resources |-> 0] /\ perBackend = [b \in Backends |-> 0]
  BY DEF Init
<1>3. running \cup launching = {} /\ \A b : OnBackend(b, {}) = {}
  BY <1>2 DEF OnBackend
<1>4. BackendsCounted
  <2>1. ASSUME NEW b PROVE Cardinality(OnBackend(b, running)) = 0
    <3>1. OnBackend(b, running) = {}
      BY <1>2 DEF OnBackend
    <3>2. QED BY <3>1, FS_EmptySet
  <2>2. QED BY <1>2, <2>1 DEF BackendsCounted
<1>5. UsageCounted
  <2> SUFFICES ASSUME NEW r \in Resources PROVE usage[r] = Load(r, running \cup launching)
    BY DEF UsageCounted
  <2>1. Load(r, running \cup launching) = Load(r, {})
    BY <1>3
  <2>2. QED BY <1>2, <2>1, LoadOf
<1>6. LimitsRespected
  <2>1. SlotsKept
    <3>1. Cardinality(running \cup launching) = 0
      BY <1>3, FS_EmptySet
    <3>2. QED BY <3>1, LimitsAssumption DEF SlotsKept
  <2>2. BackendsKept
    <3>1. ASSUME NEW b PROVE Cardinality(OnBackend(b, running \cup launching)) = 0
      <4>1. OnBackend(b, running \cup launching) = {}
        BY <1>3 DEF OnBackend
      <4>2. QED BY <4>1, FS_EmptySet
    <3>2. \A b \in Backends : BackendMax[b] \in Nat
      BY LimitsAssumption
    <3>3. QED BY <3>1, <3>2 DEF BackendsKept
  <2>3. UsageKept
    BY <1>2, LimitsAssumption DEF UsageKept
  <2>4. QED BY <2>1, <2>2, <2>3, LimitsParts
<1>7. BlockedStayBlocked /\ PrioritiesRespected
  BY <1>2 DEF BlockedStayBlocked, PrioritiesRespected
<1>8. QED BY <1>1, <1>4, <1>5, <1>6, <1>7 DEF LInv

LEMMA LoadInvStep == LInv /\ [Next]_vars => LInv'
<1> SUFFICES ASSUME LInv, [Next]_vars PROVE LInv'
  OBVIOUS
<1>1. IInv /\ IInv'
  BY InvariantStep DEF LInv
<1>2. BackendsCounted' /\ UsageCounted'
  BY <1>1, BackendsStep, UsageStep DEF LInv
<1>3. LimitsRespected'
  BY <1>1, LimitsStep DEF LInv
<1>4. BlockedStayBlocked'
  BY <1>1, BlockedStep DEF LInv
<1>5. PrioritiesRespected'
  BY <1>1, <1>4, PrioritiesStep DEF LInv
<1>6. QED BY <1>1, <1>2, <1>3, <1>4, <1>5 DEF LInv

(* The counters of the load and what they count agree at every step, the    *)
(* limits hold, and a job that was passed over did not and does not fit.   *)
THEOREM LoadInvariantHolds == Spec => []LInv
<1>1. QED BY LoadInit, LoadInvStep, PTL DEF Spec

(* _running, _running_per_backend and ResourceManager._usage are at every  *)
(* moment what the statuses and the jobs being launched add up to.         *)
THEOREM LoadIsAccounted == Spec => []LoadAccounted
<1>1. LInv => LoadAccounted
  BY DEF LInv, IInv, RunningMatches, BackendsCounted, UsageCounted, Load, LoadAccounted
<1>2. QED BY <1>1, LoadInvariantHolds, PTL

(* Neither max_parallelism, nor that of a backend, nor a resource limit is *)
(* ever exceeded, by running and launching jobs together.                  *)
THEOREM LimitsAreRespected == Spec => []LimitsRespected
<1>1. LInv => LimitsRespected
  BY DEF LInv
<1>2. QED BY <1>1, LoadInvariantHolds, PTL

(* _get_jobs_to_launch() passes over a ready job only when it does not fit.*)
THEOREM PrioritiesAreRespected == Spec => []PrioritiesRespected
<1>1. LInv => PrioritiesRespected
  BY DEF LInv
<1>2. QED BY <1>1, LoadInvariantHolds, PTL

(* With nothing running, every job fits: what validate_jobs() establishes  *)
(* keeps the scheduler from waiting for resources that nobody holds.       *)
THEOREM SomethingFits == Spec => []LimitsNeverBlockAll
<1>1. LInv => LimitsNeverBlockAll
  <2> SUFFICES ASSUME LInv, pc = "select", running = {}, launching = {}, NEW j \in blocked
               PROVE  FALSE
    BY DEF LimitsNeverBlockAll
  <2>1. j \in Jobs /\ ~CanLaunch(j)
    BY DEF LInv, IInv, TypeOK, BlockedStayBlocked
  <2>2. running \cup launching = {} /\ \A b : OnBackend(b, {}) = {}
    BY DEF OnBackend
  <2>3. CanAllocate(j)
    <3> SUFFICES ASSUME NEW r \in Resources PROVE usage[r] + Needs[j][r] <= Limit[r]
      BY DEF CanAllocate
    <3>1. usage[r] = 0
      BY <2>2, LoadOf DEF LInv, UsageCounted
    <3>2. Needs[j][r] \in Nat /\ Limit[r] \in Nat /\ Needs[j][r] <= Limit[r]
      BY <2>1, LimitsAssumption, FitsAssumption
    <3>3. QED BY <3>1, <3>2
  <2>4. BackendHasRoom(BackendOf[j])
    <3>1. BackendOf[j] \in Backends
      BY <2>1, LimitsAssumption
    <3>2. perBackend[BackendOf[j]] = 0
      BY <2>2, <3>1, FS_EmptySet DEF LInv, BackendsCounted
    <3>3. {k \in launching : BackendOf[k] = BackendOf[j]} = {}
      OBVIOUS
    <3>4. Cardinality({k \in launching : BackendOf[k] = BackendOf[j]}) = 0
      BY <3>3, FS_EmptySet
    <3>5. QED BY <3>2, <3>4 DEF BackendHasRoom
  <2>5. QED BY <2>1, <2>3, <2>4 DEF CanLaunch
<1>2. QED BY <1>1, LoadInvariantHolds, PTL
=============================================================================
