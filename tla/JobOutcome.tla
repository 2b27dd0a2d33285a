------------------------------ MODULE JobOutcome ------------------------------
(***************************************************************************)
(* What becomes of a job that has ended: its times (job/time.py and the     *)
(* plugins of sim/tool/, which read them in its log) and its status, by the *)
(* backends (runtime/backend.py, _finish_job) and by the older launchers    *)
(* (launcher/base.py, _check_status).  A log is a record:                   *)
(*   readable, lines                                                        *)
(*   exit   the exit code, None if the job ran out of time                  *)
(*   wall   the seconds that dvsim counted                                  *)
(*   report the coverage report where the job leaves one: none, good or bad *)
(* and a line says what is found in it: hits, the patterns it matches; cpu  *)
(* and sim, a time or None; mark, what the plugins look for besides.        *)
(***************************************************************************)
EXTENDS Modes

(* JobTime: n/d of a unit, the units being numbered from hours down.        *)
Units == <<"h", "m", "s", "ms", "us", "ns", "ps", "fs">>
Unit(name) == SelectInSeq(Units, LAMBDA u : u = name)
Divider(unit) == IF unit <= 3 THEN 60 ELSE 1000
Time(n, unit) == [n |-> n, d |-> 1, unit |-> Unit(unit)]

(* A mutant of LargerUnit: with the divider of the unit above.              *)
LargerUnitOfNext(t) ==
  IF t.unit > 1 /\ t.n >= t.d * Divider(t.unit - 1)
  THEN [n |-> t.n, d |-> t.d * Divider(t.unit - 1), unit |-> t.unit - 1] ELSE t

(* _normalize(): the largest unit in which it is one or more.               *)
LargerUnit(t) ==
  IF t.unit > 1 /\ t.n >= t.d * Divider(t.unit)
  THEN [n |-> t.n, d |-> t.d * Divider(t.unit), unit |-> t.unit - 1] ELSE t
Normalized(t) == FoldLeft(LAMBDA x, step : LargerUnit(x), t, Units)

(* with_unit(): from a larger unit it is multiplied, from a smaller divided.*)
Factor(large, small) ==
  FoldLeft(LAMBDA f, k : f * Divider(large + k), 1, [k \in 1..small - large |-> k])
Multiplied(t, f) ==
  IF t.d % f = 0 THEN [t EXCEPT !.d = @ \div f] ELSE [t EXCEPT !.n = @ * f]
WithUnit(t, unit) ==
  [Multiplied(t, Factor(t.unit, Unit(unit))) EXCEPT
     !.d = @ * Factor(Unit(unit), t.unit), !.unit = Unit(unit)]
Longer(t, s) == t.n * s.d > s.n * t.d  \* of two times in one unit

-----------------------------------------------------------------------------
(* get_job_runtime() and get_simulated_time() of the plugins: the last line *)
(* that gives it.  VCS gives no simulated time if the header of its report  *)
(* comes after it; Z01X reads the last row of the table of a run below the  *)
(* last summary: the rule that is to end it (z01x.py:34) never matches a    *)
(* line that ends in a newline.                                            *)
LastOf(lines, Gives(_), field) ==
  LET k == SelectLastInSeq(lines, Gives) IN IF k = 0 THEN None ELSE lines[k][field]
Summary(lines) ==
  LET start == SelectLastInSeq(lines, LAMBDA l : l.mark = "summary")
  IN IF start = 0 THEN <<>> ELSE SubSeq(lines, start + 1, Len(lines))
LogRuntime(tool, target, lines) ==
  IF tool = "z01x" /\ target = "run" THEN LastOf(Summary(lines), LAMBDA l : l.mark = "row", "cpu")
  ELSE LastOf(lines, LAMBDA l : l.cpu # None, "cpu")
LogSimulated(tool, lines) ==
  CASE tool = "vcs" -> LastOf(lines, LAMBDA l : l.sim # None \/ l.mark = "header", "sim")
    [] tool = "xcelium" -> LastOf(lines, LAMBDA l : l.sim # None, "sim")
    [] tool = "z01x" -> LastOf(Summary(lines), LAMBDA l : l.mark = "row", "sim")

(* get_runtime_from_logs(): what dvsim counted stands in for a runtime that *)
(* the log does not give; only runs have a simulated time.                 *)
Tools == {"vcs", "xcelium", "z01x"}
HasTimes(job) == job.target # "cov_vplan" /\ job.tool \in Tools
Runtime(job, log, counted) ==
  LET found == IF HasTimes(job) /\ log.readable THEN LogRuntime(job.tool, job.target, log.lines) ELSE None
  IN Normalized(IF found = None THEN Time(counted, "s") ELSE found)
Simulated(job, log) ==
  LET found == IF HasTimes(job) /\ job.target = "run" /\ log.readable
               THEN LogSimulated(job.tool, log.lines) ELSE None
  IN Normalized(IF found = None THEN Time(0, "s") ELSE found)

-----------------------------------------------------------------------------
Failing(job, log) == \E k \in DOMAIN log.lines : log.lines[k].hits \cap job.fail # {}
Result(status, message) == [status |-> status, message |-> message]
Messages == {"timed out", "no log", "failing line", "patterns missing", "exit code", "no coverage",
             "fake", "dependency"}

(* An exit code and a message are something else than Python's None.       *)
ASSUME NoneAssumption == None \notin Messages /\ None # 0

(* _finish_job() and get_status_from_logs(): a failing line wins over what  *)
(* is missing, both over the exit code; every pass pattern must be seen.    *)
(* The log is not opened for its status if there is no pattern.            *)
Missing(job, log) ==
  {p \in ToSet(job.pass) : \A k \in DOMAIN log.lines : p \notin log.lines[k].hits}
FinishJob(job, log) ==
  IF log.exit = None THEN Result("KILLED", "timed out")
  ELSE IF ~log.readable /\ (job.fail # {} \/ job.pass # <<>>) THEN Result("FAILED", "no log")
  ELSE IF log.readable /\ Failing(job, log) THEN Result("FAILED", "failing line")
  ELSE IF Missing(job, log) # {} THEN Result("FAILED", "patterns missing")
  ELSE IF log.exit # 0 THEN Result("FAILED", "exit code")
  ELSE Result("PASSED", None)

(* _check_status(): each line takes one occurrence of the first pattern it  *)
(* matches off the list, and the list only matters if the exit code is 0.   *)
(* The launchers kill a job that runs out of time and do not read its log.  *)
CrossOff(left, l) ==
  LET k == SelectInSeq(left, LAMBDA p : p \in l.hits)
  IN IF k = 0 THEN left ELSE RemoveAt(left, k)
PatternsLeft(job, log) == FoldLeft(CrossOff, job.pass, log.lines)
CheckStatus(job, log) ==
  IF log.exit = None THEN Result("KILLED", "timed out")
  ELSE IF ~log.readable THEN Result("FAILED", "no log")
  ELSE IF Failing(job, log) THEN Result("FAILED", "failing line")
  ELSE IF log.exit # 0 THEN Result("FAILED", "exit code")
  ELSE IF PatternsLeft(job, log) # <<>> THEN Result("FAILED", "patterns missing")
  ELSE Result("PASSED", None)

(* CovReport.post_finish() raises if there is a report and the coverage     *)
(* cannot be extracted from it: no summary in it, or no plugin to read it.  *)
Unreadable(job, log) ==
  /\ job.target = "cov_report" /\ ~job.dry
  /\ log.report = "bad" \/ (log.report = "good" /\ job.tool \notin Tools)
PostFinishRaises(job, result, log) == result = "PASSED" /\ Unreadable(job, log)

(* A launcher catches it and marks the job as failed (_post_finish), but    *)
(* only the poll() of NC returns that: the others return the status before. *)
Polled(backend, job, log) ==
  LET found == CheckStatus(job, log)
  IN IF backend = "nc" /\ PostFinishRaises(job, found.status, log)
     THEN Result("FAILED", "no coverage") ELSE found

(* The end of a job by the backend that ran it.  The fake one gives random  *)
(* results to runs, here that of the log, and passes all other jobs.  A     *)
(* launcher counts no time of its own (job_runtime_secs stays 0), and the    *)
(* log of a dry run is not read.                                           *)
NoTime == Time(0, "s")
EndOf(result, runtime, simulated, log) ==
  [status |-> result.status, message |-> result.message,
   runtime |-> runtime, simulated |-> simulated, log |-> log]
Outcome(backend, job, log) ==
  IF backend = "fake"
  THEN EndOf(Result(IF job.target = "run" /\ log.exit # 0 THEN "FAILED" ELSE "PASSED", "fake"),
             NoTime, NoTime, log)
  ELSE IF job.dry /\ (backend = "local" \/ log.exit # None)
  THEN EndOf(Result("PASSED", None), NoTime, NoTime, log)
  ELSE IF backend = "local"
  THEN EndOf(FinishJob(job, log), Runtime(job, log, log.wall), Simulated(job, log), log)
  ELSE IF log.readable /\ log.exit # None
  THEN EndOf(Polled(backend, job, log), Runtime(job, log, 0), Simulated(job, log), log)
  ELSE EndOf(Polled(backend, job, log), NoTime, NoTime, log)

(* Whether the scheduler is told.  _check_status() has no plugin to ask for *)
(* the times if the tool has none, and nothing catches that; all backends   *)
(* call post_finish() with the status they tell (_emit_completion), and do  *)
(* not tell it if that raises.                                             *)
PollRaises(backend, job, log) ==
  /\ backend \notin {"local", "fake"} /\ log.exit # None /\ log.readable
  /\ ~job.dry /\ job.target # "cov_vplan" /\ job.tool \notin Tools
Completes(backend, job, log) ==
  /\ ~PollRaises(backend, job, log)
  /\ ~PostFinishRaises(job, Outcome(backend, job, log).status, log)

(* A job that ends without running has no handle, and no time.              *)
Cancelled == EndOf(Result("KILLED", "dependency"), NoTime, NoTime, None)
=============================================================================
