---------------------------- MODULE Instrumentation ----------------------------
(***************************************************************************)
(* The instrumentation of a run: what timing.py, compute.py and metadata.py *)
(* record of the changes of status of JobLifecycle, the thread that samples *)
(* the memory meanwhile, and the metrics and charts that runtime.py makes   *)
(* of it when the run is over.  cpu and averages follow the same path as    *)
(* the memory and are left out.                                            *)
(***************************************************************************)
EXTENDS JobLifecycle, Reports

CONSTANTS
  Requested,   \* the sets of instrumentations that --instrument may ask for
  MetaOf,      \* MetaOf[j]: name, target, tool and block of j
  Seeded,      \* the jobs whose identifier ends in a seed
  Earlier,     \* the metrics of earlier runs that may be on disk
  LastTime,    \* bound: the clock stops there
  MaxSamples,  \* bound: on the samples taken
  Memory       \* the amounts of memory that a sample may find

ASSUME InstrumentationAssumption ==
  /\ Requested \subseteq SUBSET {"meta", "timing", "compute"}
  /\ {} \notin Requested
  /\ Seeded \subseteq Jobs
  /\ {LastTime, MaxSamples} \cup Memory \subseteq Nat
  /\ None \notin Nat

VARIABLES
  stage,     \* how far run_scheduler() is
  chosen,    \* the instrumentations of this run
  clock,     \* time.perf_counter()
  window,    \* timing: when the run started and ended
  times,     \* timing: when the jobs heard of started and ended
  heard,     \* the jobs heard of, in that order
  sampler,   \* compute: where the sampling thread is
  read,      \* compute: the memory that it found
  total,     \* compute: the samples of the system
  running,   \* compute: the samples of the jobs in _running_jobs
  finished,  \* compute: the samples of the jobs in _finished_jobs
  report,    \* the metrics that were collected
  saved,     \* metrics.json
  charts     \* metrics.html

timing == <<clock, window, times>>
compute == <<sampler, read, total, running, finished>>
output == <<report, saved, charts>>
instVars == <<vars, stage, chosen, timing, heard, compute, output>>

-----------------------------------------------------------------------------
(* d[j] = v of a dictionary.                                               *)
Put(d, j, v) == [i \in DOMAIN d \cup {j} |-> IF i = j THEN v ELSE d[i]]

NoSamples == [count |-> 0, peak |-> 0]
AddSample(a, rss) == [count |-> a.count + 1, peak |-> Max({a.peak, rss})]

InstInit ==
  /\ Init
  /\ stage = "begin"
  /\ chosen \in Requested
  /\ clock = 0
  /\ window = [start |-> None, end |-> None]
  /\ times = [j \in {} |-> None]
  /\ heard = <<>>
  /\ sampler = "off"
  /\ read = 0
  /\ total = NoSamples
  /\ running = [j \in {} |-> None]
  /\ finished = [j \in {} |-> None]
  /\ report = None
  /\ saved \in {None} \cup Earlier
  /\ charts = None

(* The bounds: time goes on while it is taken and a job runs.               *)
Tick ==
  /\ \E j \in Jobs : status[j] = "RUNNING"
  /\ "timing" \in chosen
  /\ clock < LastTime
  /\ clock' = clock + 1
  /\ UNCHANGED <<vars, stage, chosen, window, times, heard, compute, output>>

-----------------------------------------------------------------------------
(* run_scheduler().  Instrumentations are started before the scheduler.     *)
Setup ==
  /\ stage = "begin"
  /\ saved = None  \* bound: no metrics of an earlier run
  /\ stage' = "start"
  /\ sampler' = IF "compute" \in chosen THEN "loop" ELSE "off"
  /\ UNCHANGED <<vars, chosen, timing, heard, read, total, running, finished, output>>

RunStart ==
  /\ stage = "start"
  /\ stage' = "run"
  /\ window' = [window EXCEPT !.start = clock]
  /\ UNCHANGED <<vars, chosen, clock, times, heard, compute, output>>

(* A mutant of TimesAfter: the end is added to the times just recorded.     *)
TimesAfterReread(t, s) ==
  LET started == IF t.start = None /\ s \notin {"SCHEDULED", "QUEUED"}
                 THEN [t EXCEPT !.start = clock] ELSE t
  IN IF s \in Terminal THEN [started EXCEPT !.end = clock] ELSE started

(* on_job_status_change() of the timing: the times are read once, before    *)
(* they are recorded, so that a job that ends without running has no start. *)
TimesAfter(t, s) ==
  IF s \in Terminal THEN [t EXCEPT !.end = clock]
  ELSE IF t.start = None /\ s \notin {"SCHEDULED", "QUEUED"} THEN [t EXCEPT !.start = clock]
  ELSE t
OnTiming(j, s) ==
  LET t == IF j \in DOMAIN times THEN times[j] ELSE [start |-> None, end |-> None]
  IN times' = Put(times, j, TimesAfter(t, s))

(* A mutant of OnCompute: a job that is killed is still taken to run.       *)
OnComputeUnlessKilled(j, s) ==
  LET samples == IF j \in DOMAIN running THEN running[j] ELSE NoSamples
      ends == s \in {"PASSED", "FAILED"}
  IN IF j \in DOMAIN finished \/ s \in {"SCHEDULED", "QUEUED"} THEN UNCHANGED <<running, finished>>
     ELSE /\ running' = [i \in (DOMAIN running \cup {j}) \ {i \in {j} : ends} |->
                           IF i = j THEN samples ELSE running[i]]
          /\ finished' = IF ends THEN Put(finished, j, samples) ELSE finished

(* on_job_status_change() of the samples, under the lock.                   *)
OnCompute(j, s) ==
  LET samples == IF j \in DOMAIN running THEN running[j] ELSE NoSamples
      ends == s \in Terminal
  IN IF j \in DOMAIN finished \/ s \in {"SCHEDULED", "QUEUED"} THEN UNCHANGED <<running, finished>>
     ELSE /\ running' = [i \in (DOMAIN running \cup {j}) \ {i \in {j} : ends} |->
                           IF i = j THEN samples ELSE running[i]]
          /\ finished' = IF ends THEN Put(finished, j, samples) ELSE finished

(* One change of one job.  Between the start and the end of a run the clock *)
(* has moved on.                                                           *)
Change(j) ==
  /\ stage = "run"
  /\ \/ Queue(j)
     \/ Launch(j)
     \/ Finish(j) /\ ("timing" \in chosen => times[j].start < clock)
     \/ Cancel(j)
  /\ IF "timing" \in chosen THEN OnTiming(j, status'[j]) ELSE UNCHANGED times
  /\ IF "compute" \in chosen THEN OnCompute(j, status'[j]) ELSE UNCHANGED <<running, finished>>
  /\ heard' = IF j \in ToSet(heard) THEN heard ELSE Append(heard, j)
  /\ UNCHANGED <<stage, chosen, clock, window, sampler, read, total, output>>

Interrupt ==
  /\ stage = "run"
  /\ Signal \/ Close
  /\ UNCHANGED <<stage, chosen, timing, heard, compute, output>>

RunEnd ==
  /\ stage = "run"
  /\ \A j \in Jobs : status[j] \in Terminal
  /\ stage' = "end"
  /\ window' = [window EXCEPT !.end = clock]
  /\ UNCHANGED <<vars, chosen, clock, times, heard, compute, output>>

(* An exception in the scheduler ends the program, without any output.      *)
Abort ==
  /\ stage \in {"start", "run"}
  /\ stage' = "aborted"
  /\ sampler' = "off"
  /\ status' = [j \in Jobs |-> "SCHEDULED"] /\ shutdown' = FALSE /\ closing' = FALSE
  /\ clock' = 0 /\ window' = [start |-> None, end |-> None]
  /\ heard' = <<>> /\ read' = 0 /\ total' = NoSamples
  /\ \A empty \in {[j \in {} |-> None]} : times' = empty /\ running' = empty /\ finished' = empty
  /\ UNCHANGED <<chosen, output>>

-----------------------------------------------------------------------------
(* _sampling_loop(): the memory is read, then counted for the system, and   *)
(* then under the lock for all jobs that are running by now.               *)
Sample ==
  /\ sampler = "loop"
  /\ stage # "stop"
  /\ total.count < MaxSamples  \* bound
  /\ \E rss \in Memory : read' = rss
  /\ sampler' = "read"
  /\ UNCHANGED <<vars, stage, chosen, timing, heard, total, running, finished, output>>

CountForSystem ==
  /\ sampler = "read"
  /\ total' = AddSample(total, read)
  /\ sampler' = "counted"
  /\ UNCHANGED <<vars, stage, chosen, timing, heard, read, running, finished, output>>

CountForJobs ==
  /\ sampler = "counted"
  /\ running' = [j \in DOMAIN running |-> AddSample(running[j], read)]
  /\ sampler' = "loop"
  /\ UNCHANGED <<vars, stage, chosen, timing, heard, read, total, finished, output>>

SamplerEnds ==
  /\ sampler = "loop"
  /\ stage = "stop"
  /\ sampler' = "off"
  /\ UNCHANGED <<vars, stage, chosen, timing, heard, read, total, running, finished, output>>

-----------------------------------------------------------------------------
(* stop() waits for the thread, which counts the sample that it has read.   *)
Stop ==
  /\ stage = "end"
  /\ stage' = "stop"
  /\ UNCHANGED <<vars, chosen, timing, heard, compute, output>>

(* collect(): what the chosen instrumentations know of each job.            *)
Collected ==
  LET Meta(j) == IF "meta" \in chosen THEN MetaOf[j] @@ [status |-> status[j]] ELSE None
      Time(j, field) == IF j \in DOMAIN times THEN times[j][field] ELSE None
      Samples(j) == IF j \in DOMAIN finished THEN finished[j] ELSE NoSamples
  IN [start |-> IF "timing" \in chosen THEN window.start ELSE None,
      end |-> IF "timing" \in chosen THEN window.end ELSE None,
      samples |-> total,
      jobs |-> [k \in DOMAIN heard |->
                  [id |-> heard[k], seeded |-> heard[k] \in Seeded, meta |-> Meta(heard[k]),
                   start |-> Time(heard[k], "start"), end |-> Time(heard[k], "end"),
                   samples |-> Samples(heard[k])]]]

(* flush() and gen_html_report(); a failure to write the metrics is logged. *)
Report ==
  /\ stage = "stop"
  /\ sampler = "off"
  /\ stage' = "done"
  /\ report' = Collected
  /\ charts' = Rendered(report', None)
  /\ saved' \in {report', saved}
  /\ UNCHANGED <<vars, chosen, timing, heard, compute>>

(* dvsim-admin report instrumentation: the charts of metrics on disk.       *)
AdminReport ==
  /\ stage = "begin"
  /\ saved # None
  /\ \E profile \in Profiles : charts' = Rendered(saved, profile)
  /\ stage' = "admin"
  /\ report' = saved
  /\ UNCHANGED <<vars, chosen, timing, heard, compute, saved>>

InstNext ==
  \/ Tick \/ Setup \/ RunStart \/ Interrupt \/ RunEnd \/ Abort
  \/ \E j \in Jobs : Change(j)
  \/ Sample \/ CountForSystem \/ CountForJobs \/ SamplerEnds
  \/ Stop \/ Report \/ AdminReport

InstSpec == InstInit /\ [][InstNext]_instVars

-----------------------------------------------------------------------------
JobsOf(r) == ToSet(r.jobs)
Reported == stage = "done"

(* The metrics of a run have the start and the end of exactly those jobs    *)
(* that ran, and the jobs that did not run have no start; a job started      *)
(* after everything it depends on had ended, and within the run.  All of it *)
(* comes from callbacks for single changes (timing.py:39-53), of which the  *)
(* last must not look at what the one before it recorded.                   *)
TimesTrue ==
  Reported /\ "timing" \in chosen =>
    /\ {j.id : j \in JobsOf(report)} = Jobs
    /\ \A j \in JobsOf(report) :
         /\ j.end # None
         /\ status[j.id] \in {"PASSED", "FAILED"} => j.start # None
         /\ j.start # None =>
              /\ Allowed(j.id)
              /\ j.start < j.end
              /\ report.start <= j.start /\ j.end <= report.end
              /\ \A d \in JobsOf(report) : d.id \in Deps[j.id] => d.end <= j.start

(* Every sample goes to the jobs that run when the thread has the lock,     *)
(* though it was read before (compute.py:133-160), when another job may have *)
(* run: the jobs that are sampled are those that run; no job has more        *)
(* samples or a higher peak than the system, no sample goes to a job and to *)
(* one it depends on; and a job that ran for all of the time of another has  *)
(* all of its samples.                                                      *)
SamplesTrue ==
  LET samples == [j \in DOMAIN finished \cup DOMAIN running |->
                    IF j \in DOMAIN finished THEN finished[j] ELSE running[j]]
  IN "compute" \in chosen =>
       /\ DOMAIN running = {j \in Jobs : status[j] = "RUNNING"}
       /\ \A j \in DOMAIN samples :
            /\ samples[j].count <= total.count /\ samples[j].peak <= total.peak
            /\ \A d \in Deps[j] \cap DOMAIN samples :
                 samples[d].count + samples[j].count <= total.count
       /\ Reported /\ "timing" \in chosen =>
            \A j, k \in {i \in JobsOf(report) : i.start # None} :
              j.start < k.start /\ k.end < j.end =>
                j.samples.count >= k.samples.count /\ j.samples.peak >= k.samples.peak

(* No two jobs share a lane at one time, there are as many lanes as jobs    *)
(* ran at once, and no more time was used than was available.              *)
AtOnce(jobs) == Max({0} \cup {Len(SelectSeq(jobs, LAMBDA j : j.start <= k.start /\ k.start < j.end)) :
                                k \in ToSet(jobs)})
LanesFit(jobs, p) ==
  /\ \A k, l \in DOMAIN p.chart.bars :
       k < l /\ p.chart.bars[k].index = p.chart.bars[l].index =>
         p.chart.bars[k].base + p.chart.bars[k].width <= p.chart.bars[l].base
  /\ p.chart.indices = AtOnce(jobs)
  /\ p.used <= p.available

(* The concurrency of a tool is never negative, has the right peak, and     *)
(* ends at zero.                                                            *)
UsageFits(jobs, usage) ==
  \A k \in DOMAIN usage :
    LET numbers == [e \in DOMAIN usage[k].events |-> usage[k].events[e].jobs] IN
    /\ \A e \in DOMAIN numbers : numbers[e] >= 0
    /\ Last(numbers) = 0
    /\ Max(ToSet(numbers)) = AtOnce(SelectSeq(jobs, LAMBDA j : KeyOf("tool", j) = usage[k].name))

(* Every job counts once towards the totals.                                *)
AddsUp(jobs, groups) ==
  /\ FoldLeft(LAMBDA n, g : n + Len(g.jobs), 0, groups) = Len(jobs)
  /\ FoldLeft(LAMBDA t, g : t + g.duration, 0, groups) = TotalOf(jobs)

(* The pieces of a bar add up to it, no bar that is left out is longer than *)
(* one that is shown, and what is shown among all is among its category.    *)
LongestFit(chart) ==
  LET Ranks(c) == {chart.traces[c][k].rank : k \in DOMAIN chart.traces[c]}
      Others == DOMAIN chart.traces \ {All}
  IN /\ \A c \in DOMAIN chart.traces : \A k \in DOMAIN chart.traces[c] :
          FoldLeft(+, 0, chart.traces[c][k].pieces) = chart.tests[chart.traces[c][k].rank].duration
     /\ \A k \in DOMAIN chart.tests \ Ranks(All), l \in Ranks(All) :
          chart.tests[k].duration <= chart.tests[l].duration
     /\ Ranks(All) \subseteq UNION {Ranks(c) : c \in Others}
     /\ \A c, d \in Others : c # d => Ranks(c) \cap Ranks(d) = {}

(* The charts of a report agree with its metrics and with one another: each *)
(* is computed by its own sort, grouping and limits.                       *)
ChartsFaithful ==
  charts # None =>
    LET timed == Timed(report) IN
    /\ charts.parallelism # None => LanesFit(timed, charts.parallelism)
    /\ charts.toolUsage # None => UsageFits(timed, charts.toolUsage)
    /\ \A groups \in {charts.perTool, charts.perBlock} \ {None} : AddsUp(timed, groups)
    /\ \A chart \in {charts.byStatus, charts.byTool, charts.byBlock} \ {None} :
         AddsUp(timed, chart.tests)
    /\ \A chart \in {charts.byStatus, charts.byTool, charts.byBlock, charts.testsByTool,
                     charts.testsByBlock} \ {None} : LongestFit(chart)
=============================================================================
