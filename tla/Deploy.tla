-------------------------------- MODULE Deploy --------------------------------
(***************************************************************************)
(* The jobs of a simulation flow: job/deploy.py.  Each operator gives the   *)
(* JobSpec of one Deploy class, from the configuration `c`, the command     *)
(* line `a` and what the class is constructed from.  Of a command only the  *)
(* directory it builds in and its options are kept, of a path what makes it *)
(* different from others.                                                  *)
(***************************************************************************)
EXTENDS Modes

CONSTANTS
  NameOrder  \* the names of modes and tests in alphabetical order

ASSUME NamesAssumption ==
  /\ NameOrder \in Seq(STRING)
  /\ \A i, k \in DOMAIN NameOrder : NameOrder[i] = NameOrder[k] => i = k

(* A mutant of Tag: the variant is left out.                               *)
TagOfName(c) == c.name

(* The variant is a suffix of the name in every full name.                  *)
Tag(c) == IF c.variant = "" THEN c.name ELSE c.name \o "_" \o c.variant

(* _extract_attrs(): an attribute is taken from the first of the objects    *)
(* that has it, whatever its value there.                                  *)
Extracted(objects, attr) == objects[SelectInSeq(objects, LAMBDA o : attr \in DOMAIN o)][attr]

(* A timeout of the command line overrides; 60 minutes is the default of a  *)
(* build and of a run outside the GUI, and the other jobs have none.        *)
Minutes(own, cli) == IF cli # None THEN cli ELSE IF own # None THEN own ELSE 60
JobSpec(c, a, target, qual) ==
  [id |-> <<Tag(c)>> \o qual, block |-> <<c.name, c.variant>>, name |-> c.name,
   target |-> target, mode |-> "", seed |-> None, deps |-> <<>>, all |-> TRUE, weight |-> 1,
   timeout |-> None, dir |-> <<c.scratch, target>>, cmd |-> <<>>,
   covdb |-> <<>>, tool |-> c.tool, pass |-> <<>>, fail |-> {}, dry |-> a.dryRun]

(* CompileSim: never a job of the GUI.  A filelist is passed as an option   *)
(* if no command generates one.                                            *)
CompileSim(c, a, m) ==
  [JobSpec(c, a, "build", <<m.name>>) EXCEPT
     !.name = m.name, !.mode = m.name, !.seed = a.buildSeed, !.weight = 5,
     !.timeout = Minutes(Extracted(<<m, c>>, "timeout"), a.buildTimeout),
     !.dir = <<c.scratch, "build", m.name>>, !.covdb = <<c.scratch, m.name>>,
     !.pass = c.buildPass, !.fail = ToSet(c.buildFail),
     !.cmd = <<m.name>> \o (IF c.flist THEN <<"-f">> ELSE <<>>) \o m.build]

(* is_equivalent_job(): the same command once the name of the other is      *)
(* replaced by its own, wherever it is.                                    *)
Equivalent(job, other) ==
  job.cmd = [i \in DOMAIN other.cmd |-> IF other.cmd[i] = other.name THEN job.name
                                        ELSE other.cmd[i]]

(* RunTest: the seeds of the command line are used up first, then the fixed *)
(* one if there is one, else random ones, here fresh negative numbers; the  *)
(* k-th run created in the program gets the k-th of them.  Nothing is       *)
(* looked for in the log of a GUI.                                         *)
SeedOf(a, k) ==
  IF k <= Len(a.seeds) THEN a.seeds[k] ELSE IF a.fixedSeed # None THEN a.fixedSeed ELSE -k
Scaled(minutes, times) ==
  IF minutes \in {None, 0} \/ times = None THEN minutes
  ELSE (minutes * times[1]) \div times[2]
RunTest(c, a, idx, t, build, seed) ==
  LET own == Extracted(<<t, c>>, "timeout")
      scaled == Scaled(IF a.runTimeout # None THEN a.runTimeout ELSE own, a.runTimes)
  IN [JobSpec(c, a, "run", <<idx, t.name, seed>>) EXCEPT
        !.name = t.name, !.mode = t.mode, !.seed = seed,
        !.pass = IF a.gui THEN <<>> ELSE c.runPass,
        !.fail = IF a.gui THEN {} ELSE ToSet(c.runFail),
        !.timeout = IF a.gui THEN None ELSE Minutes(scaled, None),
        !.deps = IF a.runOnly THEN <<>> ELSE <<build.id>>,
        !.dir = <<c.scratch, "run", t.name, idx>>, !.covdb = <<c.scratch, t.mode>>, !.cmd = t.run]

(* clean_odirs(): the directory, if there, joins the earlier ones, given    *)
(* from the newest; all but max - 1 of them are deleted.                   *)
CleanOdirs(now, earlier, max) ==
  LET dirs == now \o earlier IN SubSeq(dirs, 1, Min({Len(dirs), max - 1}))

(* A mutant of FirstDb: that of the first run.                             *)
FirstDbMet(met, runs, primary) == Head(runs).mode

(* CovMerge: the databases of the runs, that of the primary build mode put  *)
(* first when it is met, the others sorted, and then the earlier merged     *)
(* databases if asked.  It runs if any of the runs passes.                 *)
FirstDb(met, runs, primary) == IF primary \in met THEN primary ELSE Head(runs).mode
CovDbDirs(c, runs) ==
  LET met == {r.mode : r \in ToSet(runs)}
      first == FirstDb(met, runs, c.primary)
  IN <<first>> \o Only(NameOrder, met \ {first})
CovMerge(c, a, runs) ==
  [JobSpec(c, a, "cov_merge", <<"cov_merge">>) EXCEPT
     !.weight = 10, !.all = FALSE, !.deps = [i \in DOMAIN runs |-> runs[i].id],
     !.covdb = CovDbDirs(c, runs),
     !.cmd = IF a.covMergePrevious THEN CleanOdirs(c.merged, c.earlier, 7) ELSE <<>>]
CovReport(c, a, merge) ==
  [JobSpec(c, a, "cov_report", <<"cov_report">>) EXCEPT !.weight = 10, !.deps = <<merge.id>>]
CovVPlan(c, a, report) ==
  [JobSpec(c, a, "cov_vplan", <<"cov_vplan">>) EXCEPT !.weight = 10, !.deps = <<report.id>>]

(* CovUnr and CovAnalyze: a single job each.                                *)
CovUnr(c, a) == [JobSpec(c, a, "cov_unr", <<"cov_unr">>) EXCEPT !.fail = ToSet(c.buildFail)]
CovAnalyze(c, a) == JobSpec(c, a, "cov_analyze", <<"cov_analyze">>)
=============================================================================
