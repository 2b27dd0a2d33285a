------------------------- MODULE InstrumentationProofs -------------------------
(***************************************************************************)
(* Theorems about Instrumentation: what a run measures of its jobs, for    *)
(* every graph of jobs and however its clock and its samples go.           *)
(***************************************************************************)
EXTENDS Instrumentation, JobLifecycleProofs, SequenceTheorems

(***************************************************************************)
(* The inductive invariant.                                                *)
(***************************************************************************)
Times == Nat \cup {None}
Counts == [count : Nat, peak : Nat]

Types ==
  /\ TypeOK
  /\ stage \in {"begin", "start", "run", "end", "stop", "done", "admin", "aborted"}
  /\ clock \in Nat
  /\ window \in [start : Times, end : Times]
  /\ heard \in Seq(Jobs)
  /\ sampler \in {"off", "loop", "read", "counted"}
  /\ read \in Nat
  /\ total \in Counts

(* How far a run is, and what it has by then.                              *)
StageInv ==
  /\ stage \in {"begin", "start", "admin", "aborted"} => \A j \in Jobs : status[j] = "SCHEDULED"
  /\ stage \in {"run", "end", "stop", "done"} => window.start \in Nat /\ window.start <= clock
  /\ stage \in {"end", "stop", "done"} =>
       (\A j \in Jobs : status[j] \in Terminal) /\ window.end = clock
  /\ stage = "done" => report = Collected /\ sampler = "off"
  /\ ToSet(heard) = {j \in Jobs : status[j] # "SCHEDULED"}

(* The times of a job that has changed its status.                         *)
TimeInv(j) ==
  /\ times[j] \in [start : Times, end : Times]
  /\ status[j] = "QUEUED" => times[j].start = None
  /\ status[j] \in {"RUNNING", "PASSED", "FAILED"} => times[j].start \in Nat
  /\ status[j] \in {"QUEUED", "RUNNING"} => times[j].end = None
  /\ status[j] \in Terminal => times[j].end \in Nat /\ times[j].end <= clock
  /\ times[j].start # None =>
       /\ Allowed(j)
       /\ window.start <= times[j].start /\ times[j].start <= clock
       /\ times[j].end # None => times[j].start < times[j].end
       /\ \A d \in Deps[j] : times[d].end <= times[j].start

TimesInv ==
  "timing" \in chosen =>
    /\ DOMAIN times = {j \in Jobs : status[j] # "SCHEDULED"}
    /\ \A j \in DOMAIN times : TimeInv(j)

(* The samples of a job, wherever they are kept.                           *)
SamplesOf(j) == IF j \in DOMAIN finished THEN finished[j] ELSE running[j]
Sampled == DOMAIN finished \cup DOMAIN running

(* One sample is counted for the system and not yet for the jobs.          *)
Pending == IF sampler = "counted" THEN 1 ELSE 0

SampleInv(j) ==
  /\ SamplesOf(j) \in Counts
  /\ SamplesOf(j).count + Pending <= total.count
  /\ SamplesOf(j).peak <= total.peak
  /\ SamplesOf(j).count > 0 => Settled(j)
  /\ \A d \in Deps[j] \cap Sampled :
       SamplesOf(d).count + SamplesOf(j).count + Pending <= total.count

(* k began after j, and j runs or ran on for longer.                       *)
Outlasts(j, k) ==
  /\ times[j].start # None /\ times[k].start # None /\ times[j].start < times[k].start
  /\ \/ status[j] = "RUNNING"
     \/ status[j] \in Terminal /\ status[k] \in Terminal /\ times[k].end < times[j].end

SamplesInv ==
  "compute" \in chosen =>
    /\ DOMAIN running = {j \in Jobs : status[j] = "RUNNING"}
    /\ DOMAIN finished = {j \in Jobs : status[j] \in Terminal}
    /\ sampler = "counted" => total.count >= 1 /\ read <= total.peak
    /\ \A j \in Sampled : SampleInv(j)
    /\ "timing" \in chosen =>
         \A j, k \in Sampled : Outlasts(j, k) =>
           SamplesOf(j).count >= SamplesOf(k).count /\ SamplesOf(j).peak >= SamplesOf(k).peak

IInv == Types /\ DependenciesRespected /\ StageInv /\ TimesInv /\ SamplesInv

(***************************************************************************)
(* Helpers.                                                                *)
(***************************************************************************)
LEMMA MaxOfTwo ==
  ASSUME NEW a \in Nat, NEW b \in Nat
  PROVE  Max({a, b}) \in Nat /\ Max({a, b}) >= a /\ Max({a, b}) >= b /\ Max({a, b}) \in {a, b}
<1>1. \E x \in {a, b} : \A y \in {a, b} : x >= y
  OBVIOUS
<1>2. QED BY <1>1 DEF Max

LEMMA MoreSamples ==
  ASSUME NEW c \in Counts, NEW r \in Nat
  PROVE  /\ AddSample(c, r) \in Counts
         /\ AddSample(c, r).count = c.count + 1
         /\ AddSample(c, r).peak \in {c.peak, r}
         /\ AddSample(c, r).peak >= c.peak /\ AddSample(c, r).peak >= r
<1>1. c.count \in Nat /\ c.peak \in Nat
  BY DEF Counts
<1>2. QED BY <1>1, MaxOfTwo DEF AddSample, Counts

LEMMA HeardMore ==
  ASSUME NEW s \in Seq(Jobs), NEW j \in Jobs
  PROVE  ToSet(Append(s, j)) = ToSet(s) \cup {j}
<1>1. /\ Len(Append(s, j)) = Len(s) + 1 /\ Len(s) \in Nat
      /\ Append(s, j) \in Seq(Jobs)
      /\ \A i \in 1 .. Len(s) : Append(s, j)[i] = s[i]
      /\ Append(s, j)[Len(s) + 1] = j
  BY AppendProperties, LenProperties
<1>2. DOMAIN s = 1 .. Len(s) /\ DOMAIN Append(s, j) = 1 .. (Len(s) + 1)
  BY <1>1, LenProperties
<1>3. QED BY <1>1, <1>2 DEF ToSet

(***************************************************************************)
(* The life of the jobs under the instrumentation.                         *)
(***************************************************************************)

(* What a change does to the status of a job.                              *)
LEMMA ChangeOfStatus ==
  ASSUME TypeOK, NEW j \in Jobs, Change(j)
  PROVE  /\ [Next]_vars
         /\ \E s \in Status : status' = [status EXCEPT ![j] = s]
         /\ \/ status[j] = "SCHEDULED" /\ status'[j] = "QUEUED" /\ Allowed(j)
            \/ status[j] = "QUEUED" /\ status'[j] = "RUNNING"
            \/ /\ status[j] = "RUNNING" /\ status'[j] \in Terminal
               /\ "timing" \in chosen => times[j].start < clock
            \/ status[j] \in {"SCHEDULED", "QUEUED"} /\ status'[j] = "KILLED"
<1>1. [Next]_vars
  BY DEF Change, Next
<1>2. CASE Queue(j)
  BY <1>1, <1>2 DEF Queue, Become, TypeOK, Status
<1>3. CASE Launch(j)
  BY <1>1, <1>3 DEF Launch, Become, TypeOK, Status
<1>4. CASE Finish(j) /\ ("timing" \in chosen => times[j].start < clock)
  BY <1>1, <1>4 DEF Finish, Become, TypeOK, Status
<1>5. CASE Cancel(j)
  BY <1>1, <1>5 DEF Cancel, Become, TypeOK, Status, Terminal
<1>6. QED BY <1>2, <1>3, <1>4, <1>5 DEF Change

LEMMA InitHolds == InstInit => IInv
<1> SUFFICES ASSUME InstInit PROVE IInv
  OBVIOUS
<1>1. Types
  <2>1. TypeOK
    BY DEF InstInit, Init, TypeOK, Status
  <2>2. <<>> \in Seq(Jobs)
    OBVIOUS
  <2>3. QED BY <2>1, <2>2 DEF InstInit, Types, Times, Counts, NoSamples
<1>2. StageInv
  <2>1. ToSet(<<>>) = {}
    BY DEF ToSet
  <2>2. QED BY <2>1 DEF InstInit, Init, StageInv
<1>3. TimesInv /\ SamplesInv
  BY DEF InstInit, Init, TimesInv, SamplesInv, Sampled, Terminal
<1>4. DependenciesRespected
  BY DEF InstInit, Init, DependenciesRespected
<1>5. QED BY <1>1, <1>2, <1>3, <1>4 DEF IInv

LEMMA TypesStep ==
  ASSUME IInv, [InstNext]_instVars
  PROVE  Types'
<1>1. Types /\ TypeOK
  BY DEF IInv, Types
<1>2. ASSUME NEW j \in Jobs, Change(j) PROVE Types'
  <2>1. TypeOK'
    BY <1>1, <1>2, ChangeOfStatus, TypeStep
  <2>2. heard' \in Seq(Jobs)
    BY <1>1, <1>2, AppendProperties DEF Change, Types
  <2>3. QED BY <1>1, <1>2, <2>1, <2>2 DEF Change, Types
<1>3. CASE Interrupt
  <2>1. TypeOK'
    BY <1>1, <1>3, TypeStep DEF Interrupt, Next
  <2>2. QED BY <1>1, <1>3, <2>1 DEF Interrupt, Types, timing, compute, output
<1>4. CASE Abort
  <2>1. TypeOK'
    BY <1>4 DEF Abort, TypeOK, Status
  <2>2. <<>> \in Seq(Jobs)
    OBVIOUS
  <2>3. QED BY <1>1, <1>4, <2>1, <2>2 DEF Abort, Types, Times, Counts, NoSamples
<1>5. CASE Tick \/ Setup \/ RunStart \/ RunEnd \/ SamplerEnds \/ Stop \/ Report \/ AdminReport
  <2>1. TypeOK'
    BY <1>1, <1>5 DEF Tick, Setup, RunStart, RunEnd, SamplerEnds, Stop, Report, AdminReport,
       vars, TypeOK
  <2>2. window' \in [start : Times, end : Times]
    BY <1>1, <1>5 DEF Tick, Setup, RunStart, RunEnd, SamplerEnds, Stop, Report, AdminReport,
       timing, Types, Times
  <2>3. QED BY <1>1, <1>5, <2>1, <2>2 DEF Tick, Setup, RunStart, RunEnd, SamplerEnds, Stop, Report,
            AdminReport, timing, compute, Types
<1>6. CASE Sample \/ CountForSystem \/ CountForJobs
  <2>1. TypeOK'
    BY <1>1, <1>6 DEF Sample, CountForSystem, CountForJobs, vars, TypeOK
  <2>2. read' \in Nat
    BY <1>1, <1>6, InstrumentationAssumption DEF Sample, CountForSystem, CountForJobs, Types
  <2>3. total' \in Counts
    BY <1>1, <1>6, MoreSamples DEF Sample, CountForSystem, CountForJobs, Types
  <2>4. QED BY <1>1, <1>6, <2>1, <2>2, <2>3 DEF Sample, CountForSystem, CountForJobs, timing, Types
<1>7. CASE UNCHANGED instVars
  BY <1>1, <1>7 DEF instVars, vars, timing, compute, output, Types, TypeOK
<1>8. QED BY <1>2, <1>3, <1>4, <1>5, <1>6, <1>7 DEF InstNext

(***************************************************************************)
(* How far the run is.                                                     *)
(***************************************************************************)
LEMMA StageStep ==
  ASSUME IInv, [InstNext]_instVars
  PROVE  StageInv'
<1>1. Types /\ TypeOK /\ StageInv
  BY DEF IInv, Types
<1>2. ASSUME NEW j \in Jobs, Change(j) PROVE StageInv'
  <2>1. /\ stage = "run" /\ stage' = "run" /\ window' = window /\ clock' = clock
        /\ heard' = IF j \in ToSet(heard) THEN heard ELSE Append(heard, j)
    BY <1>2 DEF Change
  <2>2. ToSet(heard') = ToSet(heard) \cup {j}
    BY <1>1, <2>1, HeardMore DEF Types
  <2>3. \A k \in Jobs : k # j => status'[k] = status[k]
    BY <1>1, <1>2, ChangeOfStatus DEF TypeOK
  <2>4. status'[j] # "SCHEDULED"
    BY <1>1, <1>2, ChangeOfStatus DEF Terminal
  <2>5. ToSet(heard') = {k \in Jobs : status'[k] # "SCHEDULED"}
    BY <1>1, <2>2, <2>3, <2>4 DEF StageInv
  <2>6. QED BY <1>1, <2>1, <2>5 DEF StageInv
<1>3. CASE Tick
  <2>1. /\ \E j \in Jobs : status[j] = "RUNNING"
        /\ clock' = clock + 1 /\ clock \in Nat
        /\ UNCHANGED <<status, stage, window, heard, sampler>>
    BY <1>1, <1>3 DEF Tick, vars, compute, Types
  <2>2. stage = "run"
    BY <1>1, <2>1 DEF StageInv, Types, Terminal
  <2>3. window.start \in Nat /\ window.start <= clock + 1
    BY <1>1, <2>1, <2>2 DEF StageInv
  <2>4. QED BY <1>1, <2>1, <2>2, <2>3 DEF StageInv
<1>4. CASE Setup \/ RunStart
  <2>1. \/ window'.start \in Nat /\ window'.start <= clock'
        \/ stage' = "start"
    BY <1>1, <1>4 DEF Setup, RunStart, Types
  <2>2. QED BY <1>1, <1>4, <2>1 DEF Setup, RunStart, vars, timing, StageInv
<1>5. CASE Interrupt
  <2>1. status' = status /\ stage = "run"
    BY <1>5 DEF Interrupt, Signal, Close
  <2>2. QED BY <1>1, <1>5, <2>1 DEF Interrupt, StageInv, timing
<1>6. CASE RunEnd
  <2>1. window'.start = window.start /\ window'.end = clock
    BY <1>1, <1>6 DEF RunEnd, Types
  <2>2. QED BY <1>1, <1>6, <2>1 DEF RunEnd, StageInv, vars
<1>7. CASE Abort
  <2>1. ToSet(<<>>) = {}
    BY DEF ToSet
  <2>2. QED BY <1>7, <2>1 DEF Abort, StageInv
<1>8. CASE Sample \/ CountForSystem \/ CountForJobs \/ SamplerEnds
  <2>1. stage # "done"
    BY <1>1, <1>8 DEF Sample, CountForSystem, CountForJobs, SamplerEnds, StageInv
  <2>2. UNCHANGED <<status, stage, window, clock, heard>>
    BY <1>8 DEF Sample, CountForSystem, CountForJobs, SamplerEnds, vars, timing
  <2>3. QED BY <1>1, <2>1, <2>2 DEF StageInv
<1>9. CASE Stop \/ AdminReport
  BY <1>1, <1>9 DEF Stop, AdminReport, StageInv, vars, timing
<1>10. CASE Report
  <2>1. Collected' = Collected
    BY <1>10 DEF Report, Collected, vars, timing, compute
  <2>2. QED BY <1>1, <1>10, <2>1 DEF Report, StageInv, vars, timing, compute
<1>11. CASE UNCHANGED instVars
  <2>1. Collected' = Collected
    BY <1>11 DEF instVars, Collected, vars, timing, compute
  <2>2. QED BY <1>1, <1>11, <2>1 DEF instVars, StageInv, vars, timing, compute, output
<1>12. QED BY <1>2, <1>3, <1>4, <1>5, <1>6, <1>7, <1>8, <1>9, <1>10, <1>11 DEF InstNext

LEMMA LifeStep ==
  ASSUME IInv, [InstNext]_instVars
  PROVE  [Next]_vars \/ Abort
<1>1. TypeOK
  BY DEF IInv, Types
<1>2. ASSUME NEW j \in Jobs, Change(j) PROVE [Next]_vars
  BY <1>1, <1>2, ChangeOfStatus
<1>3. CASE Interrupt
  BY <1>3 DEF Interrupt, Next
<1>4. CASE ~Interrupt /\ ~Abort /\ ~ \E j \in Jobs : Change(j)
  BY <1>4 DEF InstNext, instVars, Tick, Setup, RunStart, RunEnd, Sample, CountForSystem,
     CountForJobs, SamplerEnds, Stop, Report, AdminReport
<1>5. QED BY <1>2, <1>3, <1>4

LEMMA RespectStep ==
  ASSUME IInv, [InstNext]_instVars
  PROVE  DependenciesRespected'
<1>1. CASE Abort
  BY <1>1 DEF Abort, DependenciesRespected
<1>2. CASE [Next]_vars
  BY <1>2, RespectedStep DEF IInv, Types
<1>3. QED BY <1>1, <1>2, LifeStep

(***************************************************************************)
(* The times.                                                              *)
(***************************************************************************)
LEMMA TimesOfAnother ==
  ASSUME IInv, "timing" \in chosen, NEW j \in Jobs, Change(j),
         NEW k \in DOMAIN times \ {j}
  PROVE  k \in Jobs /\ times'[k] = times[k] /\ TimeInv(k)'
<1>1. /\ TypeOK /\ TypeOK' /\ [Next]_vars
      /\ DOMAIN times = {i \in Jobs : status[i] # "SCHEDULED"}
      /\ \A i \in DOMAIN times : TimeInv(i)
  BY ChangeOfStatus, TypeStep DEF IInv, Types, TimesInv
<1>2. /\ UNCHANGED <<window, clock>>
      /\ \A i \in DOMAIN times \ {j} : times'[i] = times[i]
  BY DEF Change, OnTiming, Put
<1>3. /\ \A i \in Jobs \ {j} : status'[i] = status[i]
      /\ status[j] \notin Terminal
  BY <1>1, ChangeOfStatus DEF TypeOK, Terminal
<1>4. ASSUME times[k].start # None
      PROVE  /\ Allowed(k)'
             /\ \A d \in Deps[k] : times'[d].end <= times[k].start
  <2>1. Allowed(k) /\ Allowed(k)'
    BY <1>1, <1>4, StaysAllowed DEF TimeInv
  <2>2. \A d \in Deps[k] : d \in Jobs /\ status[d] \in Terminal
    BY <1>1, <2>1, GraphAssumption DEF Allowed, Settled
  <2>3. \A d \in Deps[k] : d \in DOMAIN times \ {j}
    BY <1>1, <1>3, <2>2 DEF Terminal
  <2>4. QED BY <1>1, <1>2, <1>4, <2>1, <2>3 DEF TimeInv
<1>5. QED BY <1>1, <1>2, <1>3, <1>4 DEF TimeInv

LEMMA TimesOfChanged ==
  ASSUME IInv, "timing" \in chosen, NEW j \in Jobs, Change(j)
  PROVE  DOMAIN times' = DOMAIN times \cup {j} /\ TimeInv(j)'
<1>1. /\ Types /\ TypeOK /\ TypeOK' /\ [Next]_vars /\ StageInv
      /\ DOMAIN times = {i \in Jobs : status[i] # "SCHEDULED"}
      /\ \A i \in DOMAIN times : TimeInv(i)
  BY ChangeOfStatus, TypeStep DEF IInv, Types, TimesInv
<1>2. /\ UNCHANGED <<window, clock>> /\ clock \in Nat /\ clock # None
      /\ window.start \in Nat /\ window.start <= clock
  BY <1>1, InstrumentationAssumption DEF Change, StageInv, Types
<1> DEFINE t == IF j \in DOMAIN times THEN times[j] ELSE [start |-> None, end |-> None]
<1>3. DOMAIN times' = DOMAIN times \cup {j} /\ times'[j] = TimesAfter(t, status'[j])
  BY DEF Change, OnTiming, Put
<1>4. t \in [start : Times, end : Times]
  BY <1>1 DEF TimeInv, Times
<1>5. ASSUME Allowed(j)
      PROVE  /\ Allowed(j)'
             /\ \A d \in Deps[j] : d \in DOMAIN times \ {j} /\ times'[d] = times[d]
                                   /\ times[d].end \in Nat /\ times[d].end <= clock
  <2>1. status[j] \notin Terminal
    BY <1>1, ChangeOfStatus DEF Terminal
  <2>2. \A d \in Deps[j] : d \in DOMAIN times \ {j} /\ status[d] \in Terminal
    BY <1>1, <1>5, <2>1, GraphAssumption DEF Allowed, Settled, Terminal
  <2>3. QED BY <1>1, <1>5, <2>2, StaysAllowed, TimesOfAnother DEF TimeInv
<1>6. CASE status[j] = "SCHEDULED" /\ status'[j] = "QUEUED"
  <2>1. t = [start |-> None, end |-> None]
    BY <1>1, <1>6
  <2>2. times'[j] = [start |-> None, end |-> None]
    BY <1>3, <1>6, <2>1 DEF TimesAfter, Terminal
  <2>3. QED BY <1>3, <1>6, <2>2 DEF TimeInv, Times, Terminal
<1>7. CASE status[j] = "QUEUED" /\ status'[j] = "RUNNING"
  <2>1. t = times[j] /\ t.start = None /\ t.end = None
    BY <1>1, <1>7 DEF TimeInv
  <2>2. times'[j] = [start |-> clock, end |-> None]
    <3>1. times'[j] = [t EXCEPT !.start = clock]
      BY <1>3, <1>7, <2>1 DEF TimesAfter, Terminal
    <3>2. QED BY <1>4, <2>1, <3>1
  <2>3. Allowed(j)
    BY <1>7 DEF IInv, DependenciesRespected
  <2>4. times'[j].start = clock /\ times'[j].end = None /\ times'[j] \in [start : Times, end : Times]
    BY <1>2, <2>2 DEF Times
  <2>5. QED BY <1>2, <1>3, <1>5, <1>7, <2>3, <2>4 DEF TimeInv, Terminal
<1>8. CASE status'[j] \in Terminal
  <2>1. times'[j] = [t EXCEPT !.end = clock]
    BY <1>3, <1>8 DEF TimesAfter
  <2>2. /\ times'[j].start = t.start /\ times'[j].end = clock
        /\ times'[j] \in [start : Times, end : Times]
    BY <1>2, <1>4, <2>1 DEF Times
  <2>3. CASE status[j] = "RUNNING"
    <3>1. t = times[j] /\ t.start \in Nat /\ t.start < clock /\ TimeInv(j)
      BY <1>1, <1>8, <2>3, ChangeOfStatus DEF TimeInv
    <3>2. t.start # None
      BY <3>1, InstrumentationAssumption
    <3>3. Allowed(j) /\ window.start <= t.start /\ \A d \in Deps[j] : times[d].end <= t.start
      BY <3>1, <3>2 DEF TimeInv
    <3>4. QED BY <1>2, <1>3, <1>5, <1>8, <2>2, <3>1, <3>2, <3>3 DEF TimeInv, Terminal
  <2>4. CASE status[j] # "RUNNING"
    <3>1. status'[j] = "KILLED" /\ status[j] \in {"SCHEDULED", "QUEUED"}
      BY <1>1, <1>8, <2>4, ChangeOfStatus DEF Terminal
    <3>2. t.start = None
      BY <1>1, <3>1 DEF TimeInv
    <3>3. QED BY <1>2, <1>3, <2>2, <3>1, <3>2 DEF TimeInv, Terminal
  <2>5. QED BY <2>3, <2>4
<1>9. QED BY <1>1, <1>3, <1>6, <1>7, <1>8, ChangeOfStatus DEF Terminal

LEMMA TimesStep ==
  ASSUME IInv, [InstNext]_instVars
  PROVE  TimesInv'
<1> SUFFICES ASSUME "timing" \in chosen'
             PROVE  /\ DOMAIN times' = {j \in Jobs : status'[j] # "SCHEDULED"}
                    /\ \A j \in DOMAIN times' : TimeInv(j)'
  BY DEF TimesInv
<1>1. "timing" \in chosen
  BY DEF InstNext, instVars, Tick, Setup, RunStart, Interrupt, RunEnd, Abort, Change,
     Sample, CountForSystem, CountForJobs, SamplerEnds, Stop, Report, AdminReport
<1>2. /\ Types /\ TypeOK /\ StageInv
      /\ DOMAIN times = {j \in Jobs : status[j] # "SCHEDULED"}
      /\ \A j \in DOMAIN times : TimeInv(j)
  BY <1>1 DEF IInv, Types, TimesInv
<1>3. ASSUME NEW j \in Jobs, Change(j)
      PROVE  /\ DOMAIN times' = {i \in Jobs : status'[i] # "SCHEDULED"}
             /\ \A i \in DOMAIN times' : TimeInv(i)'
  <2>1. DOMAIN times' = DOMAIN times \cup {j} /\ TimeInv(j)'
    BY <1>1, <1>3, TimesOfChanged
  <2>2. \A k \in Jobs : k # j => status'[k] = status[k]
    BY <1>2, <1>3, ChangeOfStatus DEF TypeOK
  <2>3. status'[j] # "SCHEDULED"
    BY <1>2, <1>3, ChangeOfStatus DEF Terminal
  <2>4. QED BY <1>1, <1>2, <1>3, <2>1, <2>2, <2>3, TimesOfAnother
<1>4. CASE Abort
  BY <1>4 DEF Abort
<1>5. CASE Tick
  <2>1. clock' = clock + 1 /\ clock \in Nat /\ UNCHANGED <<status, times, window>>
    BY <1>2, <1>5 DEF Tick, vars, Types
  <2>2. ASSUME NEW j \in DOMAIN times PROVE TimeInv(j)'
    <3>1. TimeInv(j) /\ (Allowed(j)' <=> Allowed(j))
      BY <1>2, <2>1 DEF Allowed, Settled
    <3>2. times[j].end \in Nat /\ times[j].end <= clock => times[j].end <= clock + 1
      BY <2>1
    <3>3. times[j].start # None => times[j].start \in Nat
      BY <3>1 DEF TimeInv, Times
    <3>4. QED BY <2>1, <3>1, <3>2, <3>3 DEF TimeInv
  <2>3. QED BY <1>2, <2>1, <2>2
<1>6. CASE UNCHANGED <<status, times, clock>>
           /\ (window'.start = window.start \/ times = [j \in {} |-> None])
  <2>1. ASSUME NEW j \in DOMAIN times PROVE TimeInv(j)'
    <3>1. TimeInv(j) /\ window'.start = window.start
      BY <1>2, <1>6, <2>1
    <3>2. Allowed(j)' <=> Allowed(j)
      BY <1>6 DEF Allowed, Settled
    <3>3. QED BY <1>6, <3>1, <3>2 DEF TimeInv
  <2>2. QED BY <1>2, <1>6, <2>1
<1>7. CASE RunStart
  <2>1. \A j \in Jobs : status[j] = "SCHEDULED"
    BY <1>2, <1>7 DEF RunStart, StageInv
  <2>2. DOMAIN times = {}
    BY <1>2, <2>1
  <2>3. UNCHANGED <<status, times>>
    BY <1>7 DEF RunStart, vars
  <2>4. QED BY <1>2, <2>2, <2>3
<1>8. CASE RunEnd
  <2>1. UNCHANGED <<status, times, clock>> /\ window'.start = window.start
    BY <1>2, <1>8 DEF RunEnd, vars, Types
  <2>2. QED BY <1>6, <2>1
<1>9. CASE Setup \/ Interrupt \/ Sample \/ CountForSystem \/ CountForJobs \/ SamplerEnds
           \/ Stop \/ Report \/ AdminReport \/ UNCHANGED instVars
  <2>1. UNCHANGED <<status, times, clock, window>>
    BY <1>9 DEF Setup, Interrupt, Sample, CountForSystem, CountForJobs, SamplerEnds, Stop,
       Report, AdminReport, instVars, vars, timing, Signal, Close
  <2>2. QED BY <1>6, <2>1
<1>10. QED BY <1>3, <1>4, <1>5, <1>7, <1>8, <1>9 DEF InstNext

(***************************************************************************)
(* The samples.                                                            *)
(***************************************************************************)

(* What a change makes of the samples: those of a job that starts are none, *)
(* those of a job that ends are kept.                                      *)
LEMMA SamplesOfChange ==
  ASSUME IInv, "compute" \in chosen, NEW j \in Jobs, Change(j)
  PROVE  /\ DOMAIN running' = {i \in Jobs : status'[i] = "RUNNING"}
         /\ DOMAIN finished' = {i \in Jobs : status'[i] \in Terminal}
         /\ \A k \in Sampled' \ {j} : k \in Sampled /\ SamplesOf(k)' = SamplesOf(k)
         /\ status[j] = "RUNNING" => j \in Sampled /\ SamplesOf(j)' = SamplesOf(j)
         /\ j \in Sampled' /\ status[j] # "RUNNING" => SamplesOf(j)' = NoSamples
<1>1. /\ TypeOK /\ UNCHANGED <<sampler, total>>
      /\ DOMAIN running = {i \in Jobs : status[i] = "RUNNING"}
      /\ DOMAIN finished = {i \in Jobs : status[i] \in Terminal}
      /\ OnCompute(j, status'[j])
  BY DEF IInv, Types, SamplesInv, Change
<1>2. status[j] \notin Terminal /\ j \notin DOMAIN finished
  BY <1>1, ChangeOfStatus DEF Terminal
<1>3. \A i \in Jobs \ {j} : status'[i] = status[i]
  BY <1>1, ChangeOfStatus DEF TypeOK
<1> DEFINE samples == IF j \in DOMAIN running THEN running[j] ELSE NoSamples
<1>4. CASE status'[j] = "QUEUED"
  <2>1. UNCHANGED <<running, finished>>
    BY <1>1, <1>4 DEF OnCompute
  <2>2. status[j] = "SCHEDULED"
    BY <1>1, <1>4, ChangeOfStatus DEF Terminal
  <2>3. QED BY <1>1, <1>2, <1>3, <1>4, <2>1, <2>2 DEF Sampled, SamplesOf, Terminal
<1>5. CASE status'[j] = "RUNNING"
  <2>1. status[j] = "QUEUED"
    BY <1>1, <1>5, ChangeOfStatus DEF Terminal
  <2>2. /\ running' = [i \in DOMAIN running \cup {j} |-> IF i = j THEN NoSamples ELSE running[i]]
        /\ finished' = finished
    BY <1>1, <1>2, <1>5, <2>1 DEF OnCompute, Terminal
  <2>3. QED BY <1>1, <1>2, <1>3, <1>5, <2>1, <2>2 DEF Sampled, SamplesOf, Terminal
<1>6. CASE status'[j] \in Terminal
  <2>1. /\ running' = [i \in (DOMAIN running \cup {j}) \ {j} |->
                         IF i = j THEN samples ELSE running[i]]
        /\ finished' = Put(finished, j, samples)
    BY <1>1, <1>2, <1>6 DEF OnCompute, Terminal
  <2>2. /\ DOMAIN running' = DOMAIN running \ {j}
        /\ \A i \in DOMAIN running \ {j} : running'[i] = running[i]
        /\ DOMAIN finished' = DOMAIN finished \cup {j}
        /\ \A i \in DOMAIN finished : finished'[i] = finished[i]
        /\ finished'[j] = samples
    BY <1>2, <2>1 DEF Put
  <2>3. QED BY <1>1, <1>2, <1>3, <1>6, <2>2 DEF Sampled, SamplesOf, Terminal
<1>7. QED BY <1>1, <1>4, <1>5, <1>6, ChangeOfStatus DEF Terminal

(* The times of the job that changes.                                      *)
LEMMA TimesOfSampled ==
  ASSUME IInv, "timing" \in chosen, NEW j \in Jobs, Change(j)
  PROVE  /\ status[j] = "RUNNING" => times'[j].start = times[j].start /\ times'[j].end = clock
         /\ status[j] # "RUNNING" /\ status'[j] \in Terminal => times'[j].start = None
         /\ status'[j] = "RUNNING" => times'[j].start = clock
<1>1. /\ TypeOK
      /\ DOMAIN times = {i \in Jobs : status[i] # "SCHEDULED"}
      /\ \A i \in DOMAIN times : TimeInv(i)
  BY DEF IInv, Types, TimesInv
<1> DEFINE t == IF j \in DOMAIN times THEN times[j] ELSE [start |-> None, end |-> None]
<1>2. times'[j] = TimesAfter(t, status'[j])
  BY DEF Change, OnTiming, Put
<1>3. t \in [start : Times, end : Times]
  BY <1>1 DEF TimeInv, Times
<1>4. status[j] \in {"SCHEDULED", "QUEUED"} => t.start = None
  BY <1>1 DEF TimeInv
<1>5. CASE status'[j] \in Terminal
  <2>1. times'[j].start = t.start /\ times'[j].end = clock
    BY <1>2, <1>3, <1>5 DEF TimesAfter
  <2>2. status[j] = "RUNNING" => t = times[j]
    BY <1>1
  <2>3. QED BY <1>1, <1>4, <1>5, <2>1, <2>2, ChangeOfStatus DEF Terminal
<1>6. CASE status'[j] = "RUNNING"
  <2>1. status[j] = "QUEUED"
    BY <1>1, <1>6, ChangeOfStatus DEF Terminal
  <2>2. times'[j] = [t EXCEPT !.start = clock]
    BY <1>2, <1>4, <1>6, <2>1 DEF TimesAfter, Terminal
  <2>3. QED BY <1>3, <1>6, <2>1, <2>2 DEF Terminal
<1>7. CASE status'[j] = "QUEUED"
  BY <1>1, <1>7, ChangeOfStatus DEF Terminal
<1>8. QED BY <1>1, <1>5, <1>6, <1>7, ChangeOfStatus DEF Terminal

LEMMA EachSampledStep ==
  ASSUME IInv, "compute" \in chosen, NEW j \in Jobs, Change(j), NEW k \in Sampled'
  PROVE  SampleInv(k)'
<1>1. /\ TypeOK /\ [Next]_vars
      /\ total \in Counts /\ total.count \in Nat /\ total.peak \in Nat
      /\ UNCHANGED <<sampler, total>>
      /\ \A i \in Sampled : SampleInv(i)
      /\ sampler = "counted" => total.count >= 1
  BY ChangeOfStatus DEF IInv, Types, SamplesInv, Change, Counts
<1>2. Pending' = Pending /\ Pending \in Nat /\ Pending <= total.count
  BY <1>1 DEF Pending
<1>3. NoSamples \in Counts /\ NoSamples.count = 0 /\ NoSamples.peak = 0
  BY DEF NoSamples, Counts
<1>4. ASSUME NEW i \in Sampled'
      PROVE  \/ SamplesOf(i)' = NoSamples
             \/ i \in Sampled /\ SamplesOf(i)' = SamplesOf(i)
  <2>1. CASE i = j
    BY <1>4, <2>1, SamplesOfChange
  <2>2. CASE i # j
    BY <1>4, <2>2, SamplesOfChange
  <2>3. QED BY <2>1, <2>2
<1>5. ASSUME NEW i \in Sampled'
      PROVE  /\ SamplesOf(i)' \in Counts /\ SamplesOf(i)'.count \in Nat
             /\ SamplesOf(i)'.count + Pending <= total.count
             /\ SamplesOf(i)'.peak <= total.peak
  BY <1>1, <1>2, <1>3, <1>4 DEF SampleInv, Counts
<1>6. SamplesOf(k)'.count > 0 => Settled(k)'
  <2> SUFFICES ASSUME SamplesOf(k)'.count > 0 PROVE Settled(k)'
    OBVIOUS
  <2>1. k \in Sampled /\ SamplesOf(k)' = SamplesOf(k)
    BY <1>3, <1>4
  <2>2. k \in Jobs /\ Settled(k)
    BY <1>1, <2>1 DEF SampleInv, Sampled, SamplesInv, IInv
  <2>3. \A d \in Deps[k] : d \in Jobs /\ status[d] \in Terminal /\ status'[d] = status[d]
    BY <1>1, <2>2, GraphAssumption, FinalStep DEF Settled
  <2>4. QED BY <2>3 DEF Settled
<1>7. ASSUME NEW d \in Deps[k] \cap Sampled'
      PROVE  SamplesOf(d)'.count + SamplesOf(k)'.count + Pending <= total.count
  <2>1. CASE SamplesOf(d)' = NoSamples \/ SamplesOf(k)' = NoSamples
    BY <1>2, <1>3, <1>5, <1>7, <2>1
  <2>2. CASE d \in Sampled /\ k \in Sampled /\ SamplesOf(d)' = SamplesOf(d)
             /\ SamplesOf(k)' = SamplesOf(k)
    BY <1>1, <1>7, <2>2 DEF SampleInv
  <2>3. QED BY <1>4, <1>7, <2>1, <2>2
<1>8. QED BY <1>1, <1>2, <1>5, <1>6, <1>7 DEF SampleInv

LEMMA OutlastsStep ==
  ASSUME IInv, "compute" \in chosen, "timing" \in chosen, NEW j \in Jobs, Change(j),
         NEW a \in Sampled', NEW b \in Sampled', Outlasts(a, b)'
  PROVE  SamplesOf(a)'.count >= SamplesOf(b)'.count /\ SamplesOf(a)'.peak >= SamplesOf(b)'.peak
<1>1. /\ TypeOK /\ clock \in Nat
      /\ DOMAIN times = {i \in Jobs : status[i] # "SCHEDULED"}
      /\ DOMAIN running = {i \in Jobs : status[i] = "RUNNING"}
      /\ DOMAIN finished = {i \in Jobs : status[i] \in Terminal}
      /\ \A i \in DOMAIN times : TimeInv(i)
      /\ \A i \in Sampled : SampleInv(i)
      /\ \A i, k \in Sampled : Outlasts(i, k) =>
           SamplesOf(i).count >= SamplesOf(k).count /\ SamplesOf(i).peak >= SamplesOf(k).peak
  BY DEF IInv, Types, TimesInv, SamplesInv
<1>2. /\ \A i \in Jobs \ {j} : status'[i] = status[i]
      /\ \A k \in Sampled' \ {j} : k \in DOMAIN times \ {j} /\ times'[k] = times[k]
      /\ \A k \in Sampled : k \in DOMAIN times
  <2>1. \A i \in Jobs \ {j} : status'[i] = status[i]
    BY <1>1, ChangeOfStatus DEF TypeOK
  <2>2. \A k \in Sampled : k \in DOMAIN times
    BY <1>1 DEF Sampled, Terminal
  <2>3. \A k \in Sampled' \ {j} : k \in Sampled
    BY SamplesOfChange
  <2>4. QED BY <2>1, <2>2, <2>3, TimesOfAnother
<1>3. \A i \in DOMAIN times : times[i].start # None =>
        times[i].start \in Nat /\ times[i].start <= clock
  BY <1>1 DEF TimeInv, Times
<1>4. /\ times'[a].start # None /\ times'[b].start # None
      /\ times'[a].start < times'[b].start
      /\ \/ status'[a] = "RUNNING"
         \/ status'[a] \in Terminal /\ status'[b] \in Terminal /\ times'[b].end < times'[a].end
  BY DEF Outlasts
<1>5. CASE a # j /\ b # j
  <2>1. /\ a \in Sampled /\ b \in Sampled
        /\ SamplesOf(a)' = SamplesOf(a) /\ SamplesOf(b)' = SamplesOf(b)
    BY <1>5, SamplesOfChange
  <2>2. Outlasts(a, b)
    BY <1>1, <1>2, <1>4, <1>5, <2>1 DEF Outlasts, Sampled
  <2>3. QED BY <1>1, <2>1, <2>2
<1>6. CASE a # j /\ b = j
  <2>1. a \in Sampled /\ SamplesOf(a)' = SamplesOf(a) /\ times'[a] = times[a]
    BY <1>2, <1>6, SamplesOfChange
  <2>2. CASE status[j] # "RUNNING"
    <3>1. SamplesOf(b)' = NoSamples
      BY <1>6, <2>2, SamplesOfChange
    <3>2. SamplesOf(a)'.count \in Nat /\ SamplesOf(a)'.peak \in Nat
      BY <1>1, <2>1 DEF SampleInv, Counts
    <3>3. QED BY <3>1, <3>2 DEF NoSamples
  <2>3. CASE status[j] = "RUNNING"
    <3>1. /\ j \in Sampled /\ SamplesOf(b)' = SamplesOf(b)
          /\ times'[j].start = times[j].start /\ times'[j].end = clock
      BY <1>6, <2>3, SamplesOfChange, TimesOfSampled
    <3>2. a \in Jobs /\ status'[a] = status[a]
      BY <1>1, <1>2, <1>6, <2>1
    <3>3. status'[a] = "RUNNING"
      <4> SUFFICES ASSUME status[a] \in Terminal, clock < times[a].end PROVE FALSE
        BY <1>4, <1>6, <2>1, <3>1, <3>2
      <4>1. times[a].end \in Nat /\ times[a].end <= clock
        BY <1>1, <1>2, <2>1 DEF TimeInv
      <4>2. QED BY <1>1, <4>1
    <3>4. Outlasts(a, b)
      BY <1>4, <1>6, <2>1, <3>1, <3>2, <3>3 DEF Outlasts
    <3>5. QED BY <1>1, <1>6, <2>1, <3>1, <3>4
  <2>4. QED BY <2>2, <2>3
<1>7. CASE a = j /\ b # j
  <2>1. /\ b \in Sampled /\ SamplesOf(b)' = SamplesOf(b) /\ times'[b] = times[b]
        /\ b \in DOMAIN times
    BY <1>2, <1>7, SamplesOfChange
  <2>2. status[j] = "RUNNING"
    <3> SUFFICES ASSUME status[j] # "RUNNING" PROVE FALSE
      OBVIOUS
    <3>1. status'[j] = "RUNNING"
      BY <1>4, <1>7, TimesOfSampled
    <3>2. times'[a].start = clock
      BY <1>7, <3>1, TimesOfSampled
    <3>3. clock < times[b].start /\ times[b].start \in Nat /\ times[b].start <= clock
      BY <1>3, <1>4, <2>1, <3>2
    <3>4. QED BY <1>1, <3>3
  <2>3. /\ a \in Sampled /\ SamplesOf(a)' = SamplesOf(a)
        /\ times'[a].start = times[a].start
    BY <1>7, <2>2, SamplesOfChange, TimesOfSampled
  <2>4. Outlasts(a, b)
    BY <1>4, <1>7, <2>1, <2>2, <2>3 DEF Outlasts
  <2>5. QED BY <1>1, <2>1, <2>3, <2>4
<1>8. CASE a = j /\ b = j
  <2>1. TimeInv(j)'
    BY TimesOfChanged
  <2>2. times'[j].start \in Nat
    BY <1>4, <1>8, <2>1 DEF TimeInv, Times
  <2>3. QED BY <1>4, <1>8, <2>2
<1>9. QED BY <1>5, <1>6, <1>7, <1>8

(* A sample that is counted for the jobs that run.                         *)
LEMMA CountedForJobs ==
  ASSUME IInv, "compute" \in chosen, CountForJobs
  PROVE  SamplesInv'
<1>1. /\ TypeOK /\ DependenciesRespected
      /\ total \in Counts /\ total.count \in Nat /\ total.peak \in Nat /\ read \in Nat
      /\ UNCHANGED <<status, total, finished, times, chosen>>
      /\ sampler = "counted" /\ sampler' = "loop" /\ read <= total.peak
      /\ running' = [j \in DOMAIN running |-> AddSample(running[j], read)]
      /\ DOMAIN running = {j \in Jobs : status[j] = "RUNNING"}
      /\ DOMAIN finished = {j \in Jobs : status[j] \in Terminal}
      /\ \A j \in Sampled : SampleInv(j)
      /\ "timing" \in chosen =>
           \A j, k \in Sampled : Outlasts(j, k) =>
             SamplesOf(j).count >= SamplesOf(k).count /\ SamplesOf(j).peak >= SamplesOf(k).peak
  BY DEF IInv, Types, SamplesInv, CountForJobs, vars, timing, Counts
<1>2. /\ Pending = 1 /\ Pending' = 0
      /\ Sampled' = Sampled /\ Sampled \subseteq Jobs
      /\ \A j \in Jobs : Settled(j)' <=> Settled(j)
      /\ \A j, k \in Jobs : Outlasts(j, k)' <=> Outlasts(j, k)
  BY <1>1 DEF Pending, Sampled, Settled, Outlasts
<1>3. \A j \in Sampled : /\ SamplesOf(j) \in Counts
                         /\ SamplesOf(j).count \in Nat /\ SamplesOf(j).peak \in Nat
                         /\ SamplesOf(j).count + 1 <= total.count
                         /\ SamplesOf(j).peak <= total.peak
  BY <1>1, <1>2 DEF SampleInv, Counts
<1>4. ASSUME NEW j \in Sampled, status[j] = "RUNNING"
      PROVE  /\ SamplesOf(j)' \in Counts
             /\ SamplesOf(j)'.count = SamplesOf(j).count + 1
             /\ SamplesOf(j)'.peak \in {SamplesOf(j).peak, read}
             /\ SamplesOf(j)'.peak >= SamplesOf(j).peak /\ SamplesOf(j)'.peak >= read
             /\ Settled(j)
  <2>1. j \in DOMAIN running /\ j \notin DOMAIN finished
    BY <1>1, <1>2, <1>4 DEF Terminal
  <2>2. SamplesOf(j) = running[j] /\ SamplesOf(j)' = AddSample(running[j], read)
    BY <1>1, <2>1 DEF SamplesOf
  <2>3. Settled(j)
    BY <1>1, <1>2, <1>4 DEF DependenciesRespected, Allowed
  <2>4. running[j] \in Counts /\ read \in Nat
    BY <1>1, <1>3, <2>2
  <2>5. LET c == AddSample(running[j], read)
        IN /\ c \in Counts /\ c.count = running[j].count + 1 /\ c.peak \in {running[j].peak, read}
           /\ c.peak >= running[j].peak /\ c.peak >= read
    BY <2>4, MoreSamples
  <2>6. QED BY <2>2, <2>3, <2>5
<1>5. ASSUME NEW j \in Sampled, status[j] # "RUNNING"
      PROVE  SamplesOf(j)' = SamplesOf(j)
  <2>1. j \in DOMAIN finished
    BY <1>1, <1>5 DEF Sampled
  <2>2. QED BY <1>1, <2>1 DEF SamplesOf
<1>6. ASSUME NEW j \in Sampled
      PROVE  /\ SamplesOf(j)' \in Counts
             /\ SamplesOf(j)'.count \in Nat /\ SamplesOf(j)'.peak \in Nat
             /\ SamplesOf(j)'.count <= SamplesOf(j).count + 1
             /\ SamplesOf(j)'.peak <= total.peak
             /\ SamplesOf(j)'.count > 0 => Settled(j)
  BY <1>1, <1>3, <1>4, <1>5 DEF SampleInv, Counts
<1>7. ASSUME NEW j \in Sampled, NEW d \in Deps[j] \cap Sampled
      PROVE  SamplesOf(d)'.count + SamplesOf(j)'.count <= total.count
  <2>1. SamplesOf(d).count + SamplesOf(j).count + 1 <= total.count
    BY <1>1, <1>2, <1>7 DEF SampleInv
  <2>2. status[d] # "RUNNING" \/ status[j] # "RUNNING"
    BY <1>4, <1>7 DEF Settled, Terminal
  <2>3. QED BY <1>1, <1>3, <1>5, <1>6, <1>7, <2>1, <2>2
<1>8. ASSUME NEW j \in Sampled PROVE SampleInv(j)'
  BY <1>1, <1>2, <1>3, <1>6, <1>7, <1>8 DEF SampleInv
<1>9. ASSUME "timing" \in chosen, NEW j \in Sampled, NEW k \in Sampled, Outlasts(j, k)
      PROVE  SamplesOf(j)'.count >= SamplesOf(k)'.count /\ SamplesOf(j)'.peak >= SamplesOf(k)'.peak
  <2>1. SamplesOf(j).count >= SamplesOf(k).count /\ SamplesOf(j).peak >= SamplesOf(k).peak
    BY <1>1, <1>9
  <2>2. CASE status[j] = "RUNNING"
    BY <1>1, <1>3, <1>4, <1>5, <1>9, <2>1, <2>2
  <2>3. CASE status[j] # "RUNNING"
    <3>1. status[k] # "RUNNING"
      BY <1>9, <2>3 DEF Outlasts, Terminal
    <3>2. QED BY <1>5, <1>9, <2>1, <2>3, <3>1
  <2>4. QED BY <2>2, <2>3
<1>10. QED BY <1>1, <1>2, <1>8, <1>9 DEF SamplesInv

LEMMA SamplesStep ==
  ASSUME IInv, [InstNext]_instVars
  PROVE  SamplesInv'
<1> SUFFICES ASSUME "compute" \in chosen' PROVE SamplesInv'
  BY DEF SamplesInv
<1>1. "compute" \in chosen /\ chosen' = chosen
  BY DEF InstNext, instVars, Tick, Setup, RunStart, Interrupt, RunEnd, Abort, Change,
     Sample, CountForSystem, CountForJobs, SamplerEnds, Stop, Report, AdminReport
<1>2. /\ TypeOK
      /\ total \in Counts /\ total.count \in Nat /\ total.peak \in Nat /\ read \in Nat
      /\ DOMAIN running = {j \in Jobs : status[j] = "RUNNING"}
      /\ DOMAIN finished = {j \in Jobs : status[j] \in Terminal}
      /\ sampler = "counted" => total.count >= 1 /\ read <= total.peak
      /\ \A j \in Sampled : SampleInv(j)
      /\ "timing" \in chosen =>
           \A j, k \in Sampled : Outlasts(j, k) =>
             SamplesOf(j).count >= SamplesOf(k).count /\ SamplesOf(j).peak >= SamplesOf(k).peak
  BY <1>1 DEF IInv, Types, SamplesInv, Counts
<1>3. \A j \in Sampled : /\ SamplesOf(j) \in Counts
                         /\ SamplesOf(j).count \in Nat /\ SamplesOf(j).peak \in Nat
                         /\ SamplesOf(j).count + Pending <= total.count
                         /\ SamplesOf(j).peak <= total.peak
  BY <1>2 DEF SampleInv, Counts
<1>4. ASSUME NEW j \in Jobs, Change(j) PROVE SamplesInv'
  <2>1. UNCHANGED <<sampler, read, total>>
    BY <1>4 DEF Change
  <2>2. QED BY <1>1, <1>2, <1>4, <2>1, SamplesOfChange, EachSampledStep, OutlastsStep DEF SamplesInv
<1>5. CASE Abort
  BY <1>5 DEF Abort, SamplesInv, Sampled, Terminal
<1>6. CASE CountForJobs
  BY <1>1, <1>6, CountedForJobs
<1>7. CASE CountForSystem
  <2>1. /\ UNCHANGED <<status, running, finished, times, read>>
        /\ sampler = "read" /\ sampler' = "counted" /\ Pending = 0 /\ Pending' = 1
        /\ total'.count = total.count + 1 /\ total'.peak >= total.peak /\ total'.peak >= read
        /\ total'.count \in Nat /\ total'.peak \in Nat
    BY <1>2, <1>7, MoreSamples DEF CountForSystem, vars, timing, Pending, Counts
  <2>2. /\ Sampled' = Sampled
        /\ \A j \in Sampled : SamplesOf(j)' = SamplesOf(j)
        /\ \A j \in Jobs : Settled(j)' <=> Settled(j)
        /\ \A j, k \in Sampled : Outlasts(j, k)' <=> Outlasts(j, k)
    BY <2>1 DEF Sampled, SamplesOf, Settled, Outlasts
  <2>3. ASSUME NEW j \in Sampled PROVE SampleInv(j)'
    <3>1. j \in Jobs
      BY <1>2 DEF Sampled
    <3>2. SamplesOf(j).count + 1 <= total'.count /\ SamplesOf(j).peak <= total'.peak
      BY <1>2, <1>3, <2>1
    <3>3. \A d \in Deps[j] \cap Sampled : SamplesOf(d).count + SamplesOf(j).count + 1 <= total'.count
      BY <1>2, <1>3, <2>1 DEF SampleInv
    <3>4. QED BY <1>2, <2>1, <2>2, <3>1, <3>2, <3>3 DEF SampleInv
  <2>4. total'.count >= 1
    BY <1>2, <2>1
  <2>5. QED BY <1>1, <1>2, <2>1, <2>2, <2>3, <2>4 DEF SamplesInv
<1>8. CASE UNCHANGED <<status, running, finished, times, total>>
           /\ (sampler' # "counted" \/ UNCHANGED <<sampler, read>>)
  <2>1. /\ Sampled' = Sampled
        /\ \A j \in Sampled : SamplesOf(j)' = SamplesOf(j)
        /\ \A j \in Jobs : Settled(j)' <=> Settled(j)
        /\ \A j, k \in Sampled : Outlasts(j, k)' <=> Outlasts(j, k)
        /\ Pending' \in {0, Pending} /\ Pending \in Nat /\ Pending' <= Pending
    BY <1>8 DEF Sampled, SamplesOf, Settled, Outlasts, Pending
  <2>2. ASSUME NEW j \in Sampled PROVE SampleInv(j)'
    <3>1. j \in Jobs
      BY <1>2 DEF Sampled
    <3>2. SamplesOf(j).count + Pending' <= total.count
      BY <1>2, <1>3, <2>1
    <3>3. \A d \in Deps[j] \cap Sampled :
            SamplesOf(d).count + SamplesOf(j).count + Pending' <= total.count
      BY <1>2, <1>3, <2>1 DEF SampleInv
    <3>4. QED BY <1>2, <1>8, <2>1, <3>1, <3>2, <3>3 DEF SampleInv
  <2>3. QED BY <1>1, <1>2, <1>8, <2>1, <2>2 DEF SamplesInv
<1>9. CASE Tick \/ Setup \/ RunStart \/ Interrupt \/ RunEnd \/ Sample \/ SamplerEnds
           \/ Stop \/ Report \/ AdminReport \/ UNCHANGED instVars
  <2>1. /\ UNCHANGED <<status, running, finished, times, total>>
        /\ sampler' # "counted" \/ UNCHANGED <<sampler, read>>
    BY <1>9 DEF Tick, Setup, RunStart, Interrupt, RunEnd, Sample, SamplerEnds, Stop, Report,
       AdminReport, instVars, vars, timing, compute, Signal, Close
  <2>2. QED BY <1>8, <2>1
<1>10. QED BY <1>4, <1>5, <1>6, <1>7, <1>9 DEF InstNext

(***************************************************************************)
(* The theorems.                                                           *)
(***************************************************************************)

(* What an instrumented run has measured is always in step with its jobs   *)
(* (timing.py, compute.py): the times and the samples of a job are those of *)
(* its status, and the report is made of them when the run has ended.      *)
THEOREM InvariantHolds == InstSpec => []IInv
<1>1. IInv /\ [InstNext]_instVars => IInv'
  BY TypesStep, RespectStep, StageStep, TimesStep, SamplesStep DEF IInv
<1>2. QED BY <1>1, InitHolds, PTL DEF InstSpec

(* The report of a run has one entry for each job.                         *)
LEMMA JobsReported ==
  ASSUME IInv, Reported
  PROVE  /\ {j.id : j \in JobsOf(report)} = Jobs
         /\ \A j \in JobsOf(report) :
              /\ j.id \in Jobs
              /\ j.start = IF j.id \in DOMAIN times THEN times[j.id].start ELSE None
              /\ j.end = IF j.id \in DOMAIN times THEN times[j.id].end ELSE None
              /\ j.samples = IF j.id \in DOMAIN finished THEN finished[j.id] ELSE NoSamples
<1>1. /\ report = Collected /\ heard \in Seq(Jobs)
      /\ ToSet(heard) = {j \in Jobs : status[j] # "SCHEDULED"}
      /\ \A j \in Jobs : status[j] \in Terminal
  BY DEF IInv, Types, StageInv, Reported
<1>2. DOMAIN report.jobs = DOMAIN heard
  BY <1>1 DEF Collected
<1>3. \A k \in DOMAIN heard :
        LET j == report.jobs[k] IN
        /\ j.id = heard[k]
        /\ j.start = IF j.id \in DOMAIN times THEN times[j.id].start ELSE None
        /\ j.end = IF j.id \in DOMAIN times THEN times[j.id].end ELSE None
        /\ j.samples = IF j.id \in DOMAIN finished THEN finished[j.id] ELSE NoSamples
  BY <1>1 DEF Collected
<1>4. {heard[k] : k \in DOMAIN heard} = Jobs
  BY <1>1 DEF ToSet, Terminal
<1>5. JobsOf(report) = {report.jobs[k] : k \in DOMAIN heard}
  BY <1>2 DEF JobsOf, ToSet
<1>6. QED BY <1>3, <1>4, <1>5

(* The times in the metrics of a run are true (timing.py:39-53): they are   *)
(* of all jobs, and of the order in which these ran.                       *)
THEOREM TimesAreTrue == InstSpec => []TimesTrue
<1>1. IInv => TimesTrue
  <2> SUFFICES ASSUME IInv, Reported, "timing" \in chosen PROVE TimesTrue
    BY DEF TimesTrue
  <2>1. /\ \A i \in Jobs : status[i] \in Terminal
        /\ window.start \in Nat /\ window.end = clock /\ clock \in Nat
        /\ report.start = window.start /\ report.end = window.end
    BY DEF IInv, Types, StageInv, Reported, Collected
  <2>2. DOMAIN times = Jobs /\ \A i \in Jobs : TimeInv(i)
    BY <2>1 DEF IInv, TimesInv, Terminal
  <2>3. \A i \in JobsOf(report) :
          /\ i.id \in Jobs /\ i.start = times[i.id].start /\ i.end = times[i.id].end
    BY <2>2, JobsReported
  <2>4. ASSUME NEW i \in Jobs
        PROVE  /\ times[i].end \in Nat /\ times[i].end # None /\ times[i].end <= window.end
               /\ status[i] \in {"PASSED", "FAILED"} => times[i].start # None
               /\ times[i].start # None =>
                    /\ Allowed(i) /\ times[i].start < times[i].end
                    /\ window.start <= times[i].start
                    /\ \A d \in Deps[i] : times[d].end <= times[i].start
    BY <2>1, <2>2, InstrumentationAssumption DEF TimeInv
  <2>5. QED BY <2>1, <2>3, <2>4, JobsReported DEF TimesTrue
<1>2. QED BY <1>1, InvariantHolds, PTL

(* No sample is lost or counted twice (compute.py:102-160), and a job that   *)
(* ran for all of the time of another has all of its samples.              *)
THEOREM SamplesAreTrue == InstSpec => []SamplesTrue
<1>1. IInv => SamplesTrue
  <2> SUFFICES ASSUME IInv, "compute" \in chosen PROVE SamplesTrue
    BY DEF SamplesTrue
  <2> DEFINE samples == [j \in DOMAIN finished \cup DOMAIN running |->
                           IF j \in DOMAIN finished THEN finished[j] ELSE running[j]]
  <2>1. /\ total.count \in Nat /\ Pending \in Nat
        /\ DOMAIN running = {j \in Jobs : status[j] = "RUNNING"}
        /\ DOMAIN finished = {j \in Jobs : status[j] \in Terminal}
        /\ \A j \in Sampled : SampleInv(j)
        /\ "timing" \in chosen =>
             \A j, k \in Sampled : Outlasts(j, k) =>
               SamplesOf(j).count >= SamplesOf(k).count /\ SamplesOf(j).peak >= SamplesOf(k).peak
    BY DEF IInv, Types, SamplesInv, Pending, Counts
  <2>2. DOMAIN samples = Sampled /\ \A j \in Sampled : samples[j] = SamplesOf(j)
    BY DEF Sampled, SamplesOf
  <2>3. ASSUME NEW j \in Sampled
        PROVE  /\ SamplesOf(j).count <= total.count /\ SamplesOf(j).peak <= total.peak
               /\ \A d \in Deps[j] \cap Sampled :
                    SamplesOf(d).count + SamplesOf(j).count <= total.count
    <3>1. \A i \in Sampled : SamplesOf(i).count \in Nat
      BY <2>1 DEF SampleInv, Counts
    <3>2. QED BY <2>1, <3>1 DEF SampleInv
  <2>4. ASSUME Reported, "timing" \in chosen, NEW j \in JobsOf(report), NEW k \in JobsOf(report),
               j.start # None, k.start # None, j.start < k.start, k.end < j.end
        PROVE  j.samples.count >= k.samples.count /\ j.samples.peak >= k.samples.peak
    <3>1. \A i \in Jobs : status[i] \in Terminal
      BY <2>4 DEF IInv, StageInv, Reported
    <3>2. DOMAIN times = Jobs /\ DOMAIN finished = Jobs
      BY <2>1, <2>4, <3>1 DEF IInv, TimesInv, Terminal
    <3>3. \A i \in JobsOf(report) :
            /\ i.id \in Sampled /\ i.samples = SamplesOf(i.id)
            /\ i.start = times[i.id].start /\ i.end = times[i.id].end
      BY <2>4, <3>2, JobsReported DEF Sampled, SamplesOf
    <3>4. Outlasts(j.id, k.id)
      BY <2>1, <2>4, <3>1, <3>2, <3>3, JobsReported DEF Outlasts
    <3>5. QED BY <2>1, <2>4, <3>3, <3>4
  <2>5. QED BY <2>1, <2>2, <2>3, <2>4 DEF SamplesTrue
<1>2. QED BY <1>1, InvariantHolds, PTL
=============================================================================
