-------------------------------- MODULE Reports --------------------------------
(***************************************************************************)
(* The charts of instrumentation/report/, as functions of the metrics of a *)
(* run: what they show, not how it is laid out.  The metrics are a record   *)
(*   start, end  the times of the run, None if they were not taken          *)
(*   jobs        in the order they were first heard of, each with its id,   *)
(*               whether it ends in a seed, its meta data (name, target,    *)
(*               tool, block with its variant, status) or None, and its     *)
(*               start and end, None if they were not taken.               *)
(* A chart that is not shown is None.                                      *)
(***************************************************************************)
EXTENDS Integers, Sequences, FiniteSets, FiniteSetsExt, SequencesExt

CONSTANTS
  None,          \* Python's None
  MaxBars,       \* DEFAULT_MAX_BARS, of all charts
  MaxPieces,     \* DEFAULT_MAX_JOBS_PER_BAR
  PngThreshold   \* DEFAULT_PNG_THRESHOLD

ASSUME ChartAssumption == {MaxBars, MaxPieces, PngThreshold} \subseteq Nat \ {0}

Profiles == {None, "normal", "high", "full"}
All == "All categories"

(* job_timings() and get_run_time_info() of the metrics.                    *)
Timed(r) == SelectSeq(r.jobs, LAMBDA j : j.start # None /\ j.end # None)
Duration(j) == j.end - j.start
RunTime(r) ==
  IF r.start # None /\ r.end # None THEN [start |-> r.start, end |-> r.end]
  ELSE IF Timed(r) = <<>> THEN [start |-> 0, end |-> 0]
  ELSE [start |-> Min({j.start : j \in ToSet(Timed(r))}), end |-> Max({j.end : j \in ToSet(Timed(r))})]
RunLength(r) == RunTime(r).end - RunTime(r).start

NoMeta(r) == \A j \in ToSet(r.jobs) : j.meta = None
KeyOf(kind, j) ==
  IF j.meta = None THEN IF kind = "target" THEN "all" ELSE "Unknown" ELSE j.meta[kind]

(* sorted(), which is stable, and its keys in decreasing order.             *)
Ordered(s, Before(_, _)) ==
  LET first == SortSeq([k \in DOMAIN s |-> k],
                       LAMBDA k, l : Before(s[k], s[l]) \/ (k < l /\ ~Before(s[l], s[k])))
  IN [k \in DOMAIN s |-> s[first[k]]]
LongestFirst(s) == Ordered(s, LAMBDA x, y : x.duration > y.duration)

(* A group of jobs for each key, in the order that the keys are met.        *)
TotalOf(jobs) == FoldLeft(LAMBDA total, j : total + Duration(j), 0, jobs)
Grouped(jobs, Key(_)) ==
  LET firsts == SelectSeq([k \in DOMAIN jobs |-> k],
                          LAMBDA k : \A l \in 1..k - 1 : Key(jobs[l]) # Key(jobs[k]))
      Group(key) == SelectSeq(jobs, LAMBDA j : Key(j) = key)
  IN [k \in DOMAIN firsts |->
        [name |-> Key(jobs[firsts[k]]), jobs |-> Group(Key(jobs[firsts[k]])),
         duration |-> TotalOf(Group(Key(jobs[firsts[k]])))]]

-----------------------------------------------------------------------------
(* BreakdownVisualization: the time spent on each tool or block.            *)
Breakdown(r, kind) ==
  IF NoMeta(r) \/ TotalOf(Timed(r)) <= 0 THEN None
  ELSE LongestFirst(Grouped(Timed(r), LAMBDA j : KeyOf(kind, j)))

(* concurrency_events(): the number of running jobs after each start and    *)
(* each end; at one time, the ends come first.                             *)
EventBefore(e, f) == e.at < f.at \/ (e.at = f.at /\ e.change < f.change)
Concurrency(jobs) ==
  LET starts == [k \in DOMAIN jobs |-> [at |-> jobs[k].start, change |-> 1]]
      ends == [k \in DOMAIN jobs |-> [at |-> jobs[k].end, change |-> -1]]
      Running(events) == [k \in DOMAIN events |->
        [at |-> events[k].at,
         jobs |-> FoldLeft(LAMBDA n, e : n + e.change, 0, SubSeq(events, 1, k))]]
  IN Running(Ordered(starts \o ends, EventBefore))
ToolUsage(r) ==
  IF NoMeta(r) \/ Timed(r) = <<>> THEN None
  ELSE LET groups == Grouped(Timed(r), LAMBDA j : KeyOf("tool", j))
       IN [k \in DOMAIN groups |-> [name |-> groups[k].name, events |-> Concurrency(groups[k].jobs)]]

-----------------------------------------------------------------------------
(* A mutant of Ended: a lane is free after the end of its job only.         *)
EndedBefore(lane, at) == lane.end < at

(* The lanes of the parallelism chart: a job takes the first that is free,  *)
(* or a new one; a lane is free from the end of its job on.                *)
Ended(lane, at) == lane.end <= at
TakeLane(lanes, j) ==
  LET free == {k \in DOMAIN lanes.all : Ended(lanes.all[k], j.start)}
      lane == IF free = {} THEN Len(lanes.all) + 1 ELSE Min(free)
  IN [all |-> IF free = {} THEN Append(lanes.all, j) ELSE [lanes.all EXCEPT ![lane] = j],
      of |-> Append(lanes.of, lane)]
Lanes(jobs) == FoldLeft(TakeLane, [all |-> <<>>, of |-> <<>>], jobs)

(* TimelineBarChart: each job at an index of its own, or in a lane.         *)
Bars(r, jobs, at, indices, png) ==
  [bars |-> [k \in DOMAIN jobs |->
               [id |-> jobs[k].id, index |-> at[k], base |-> jobs[k].start - RunTime(r).start,
                width |-> Duration(jobs[k]), trace |-> KeyOf("target", jobs[k])]],
   indices |-> indices, length |-> RunLength(r), png |-> png # None /\ Len(jobs) > png]
ByStart(r) == Ordered(Timed(r), LAMBDA j, k : j.start < k.start)
Threshold(profile) ==
  CASE profile = "high" -> PngThreshold * 10 [] profile = "full" -> None [] OTHER -> PngThreshold
Timeline(r, profile) ==
  IF Timed(r) = <<>> THEN None
  ELSE Bars(r, ByStart(r), [k \in DOMAIN ByStart(r) |-> k], Len(ByStart(r)), Threshold(profile))

(* ParallelismChart, with the compute time that was available and used.     *)
Parallelism(r, profile) ==
  LET InLanes(jobs, lanes) == Bars(r, jobs, lanes.of, Len(lanes.all), Threshold(profile))
      WithUse(chart) == [chart |-> chart, available |-> chart.indices * chart.length,
                         used |-> TotalOf(Timed(r))]
  IN IF Timed(r) = <<>> THEN None ELSE WithUse(InLanes(ByStart(r), Lanes(ByStart(r))))

-----------------------------------------------------------------------------
(* LongestBarChart.  get_job_test(): the seeds of a test are one group, any *)
(* other job is its own.                                                    *)
TestOfJob(j) == IF j.meta = None \/ ~j.seeded THEN j.id ELSE j.meta.block \o ":" \o j.meta.name

(* _compute_test_aggregates(): nothing if grouping makes no difference.     *)
Aggregates(r, grouped) ==
  LET longest == Ordered(Timed(r), LAMBDA j, k : Duration(j) > Duration(k))
      groups == Grouped(longest, LAMBDA j : IF grouped THEN TestOfJob(j) ELSE j.id)
  IN IF grouped /\ Len(groups) = Len(longest) THEN <<>> ELSE LongestFirst(groups)

(* _get_top_tests_by_category(): the ranks of the first of all and of each  *)
(* category.  The seeds of a test share its tool and its block.             *)
TopOf(ranks, limit) == SubSeq(ranks, 1, IF limit < Len(ranks) THEN limit ELSE Len(ranks))
TopByCategory(tests, kind, limit) ==
  LET ranks == [k \in DOMAIN tests |-> k]
      Category(k) == KeyOf(kind, tests[k].jobs[1])
  IN [c \in {Category(k) : k \in DOMAIN tests} \cup {All} |->
        TopOf(IF c = All THEN ranks ELSE SelectSeq(ranks, LAMBDA k : Category(k) = c), limit)]

(* _make_trace(): the jobs of a test from the shortest on; the shortest are *)
(* combined into one piece if there are too many, Pieces being how many.    *)
Pieces(n, most) == IF n - most + 1 <= 1 THEN 0 ELSE n - most + 1
BarOf(test, most) ==
  LET jobs == Reverse(test.jobs)
      n == Pieces(Len(jobs), IF most = None THEN Len(jobs) ELSE most)
      rest == SubSeq(jobs, n + 1, Len(jobs))
  IN (IF n = 0 THEN <<>> ELSE <<TotalOf(SubSeq(jobs, 1, n))>>) \o
     [k \in DOMAIN rest |-> Duration(rest[k])]

(* render(): a trace for each category, and a button unless it is the only  *)
(* one besides all of them.                                                *)
Longest(r, kind, grouped, most, pieces) ==
  LET Shown(tests, top) ==
        [tests |-> tests,
         traces |-> [c \in DOMAIN top |-> [k \in DOMAIN top[c] |->
                       [rank |-> top[c][k], pieces |-> BarOf(tests[top[c][k]], pieces)]]],
         buttons |-> IF Cardinality(DOMAIN top) = 2 THEN DOMAIN top \ {All} ELSE DOMAIN top]
      Chart(tests) ==
        IF tests = <<>> THEN None
        ELSE Shown(tests, TopByCategory(tests, kind,
               IF most = None \/ Len(tests) <= most THEN Len(tests) ELSE most))
  IN IF kind # "status" /\ NoMeta(r) THEN None ELSE Chart(Aggregates(r, grouped))

(* for_profile(): the limits of a chart, with their factor in high detail.  *)
LimitBars(profile, factor) ==
  CASE profile = "high" -> MaxBars * factor [] profile = "full" -> None [] OTHER -> MaxBars
LimitPieces(profile, factor) ==
  CASE profile = "high" -> (MaxPieces - 1) * factor + 1 [] profile = "full" -> None
    [] OTHER -> MaxPieces
LongestJobs(r, kind, profile) == Longest(r, kind, FALSE, LimitBars(profile, 4), None)
LongestTests(r, kind, profile, factor) ==
  Longest(r, kind, TRUE, LimitBars(profile, factor), LimitPieces(profile, factor))

(* render_html_report() with the registered charts.                         *)
Rendered(r, profile) ==
  [byStatus |-> LongestJobs(r, "status", profile),
   byBlock |-> LongestJobs(r, "block", profile),
   testsByBlock |-> LongestTests(r, "block", profile, 5),
   byTool |-> LongestJobs(r, "tool", profile),
   testsByTool |-> LongestTests(r, "tool", profile, 4),
   perBlock |-> Breakdown(r, "block"),
   perTool |-> Breakdown(r, "tool"),
   toolUsage |-> ToolUsage(r),
   timeline |-> Timeline(r, profile),
   parallelism |-> Parallelism(r, profile)]
=============================================================================
