------------------------------- MODULE SimFlow -------------------------------
(***************************************************************************)
(* One invocation of the program for simulations: cli/run.py's main(), the  *)
(* configurations (flow/base.py), and sim/flow.py, which turns modes, tests *)
(* and regressions into jobs and the statuses of the jobs into reports and  *)
(* an exit code.  What the scheduler does with the jobs is left to module   *)
(* Scheduler: here they run one at a time in any order it allows.           *)
(***************************************************************************)
EXTENDS Config, Deploy, Testplan

CONSTANTS Inputs  \* what an invocation reads: its arguments and files

ASSUME LogsAssumption ==
  \A in \in Inputs : \A log \in in.logs :
    log # None /\ log.lines \in Seq(ToSet(log.lines)) /\ log.report \in {"none", "good", "bad"}

(* The numbers and lists of the command line are what argparse makes them,  *)
(* a --max-parallel is positive (read_max_parallel()); the environment and  *)
(* the system may give none.                                               *)
ASSUME ArgsAssumption ==
  \A in \in Inputs :
    /\ {"reseed", "times", "items", "seeds"} \subseteq DOMAIN in.args
    /\ in.args.reseed \in {None} \cup Int /\ in.args.times \in Int \X (Nat \ {0})
    /\ in.args.items \in Seq(SUBSET STRING) /\ in.args.seeds \in Seq(Int)
    /\ "maxParallel" \in DOMAIN in.args /\ in.args.maxParallel \in {None} \cup (Nat \ {0})
    /\ {in.env, in.cores} \subseteq {None} \cup Int

(* Where the program reads a list of dicts or of patterns, the files give   *)
(* one; anything may be given for the other attributes.                    *)
Patterns == {"build_pass_patterns", "build_fail_patterns", "run_pass_patterns", "run_fail_patterns"}
DictsRead == [build_modes |-> ModesRead, run_modes |-> ModesRead, tests |-> TestsRead,
              regressions |-> RegressionsRead]
ReadAs(key, v) ==
  /\ IsList(v) => v.list \in Seq(IF key \in DOMAIN DictsRead THEN DictsRead[key] ELSE ToSet(v.list))
  /\ key \in Patterns => IsList(v)
ReadableFile(file) ==
  /\ file.imports \in Seq(STRING)
  /\ file.uses # None => file.uses \in Seq(STRING)
  /\ \A key \in DOMAIN file.attrs : key \in STRING /\ ReadAs(key, file.attrs[key])
  /\ "overrides" \in DOMAIN file.attrs /\ IsList(file.attrs.overrides) =>
       \A o \in ToSet(file.attrs.overrides.list) : ReadAs(o.name, o.value)
ASSUME FilesAssumption ==
  \A in \in Inputs :
    IsFiniteSet(DOMAIN in.files) /\ \A p \in DOMAIN in.files : ReadableFile(in.files[p])

(* Of the coverage of earlier invocations only that it is old is known.     *)
ASSUME StaleAssumption ==
  \A in \in Inputs : \A d \in DOMAIN in.stale : in.stale[d] \subseteq {<<"old">>}

VARIABLES
  input,    \* what the invocation reads, an element of Inputs
  args,     \* the arguments, as main() changes them
  pc,       \* what main() does next
  cfgs,     \* self.cfgs, each with the stage it is at
  jobs,     \* the JobSpecs given to the scheduler
  status,   \* the status of each job of the scheduler's graph that has ended
  outcome,  \* what else is known of each of them, and the log it left
  lost,     \* the jobs whose end the scheduler will never be told
  cov,      \* the runs whose coverage is in each database directory
  reports,  \* the results of each flow, by the name of its report
  exit      \* the exit code
vars == <<input, args, pc, cfgs, jobs, status, outcome, lost, cov, reports, exit>>

Fail == exit' = 1 /\ pc' = "done"
SetAt(i, c) == cfgs' = [cfgs EXCEPT ![i] = c]
Advance(i, c) ==
  IF c = Exit THEN Fail /\ UNCHANGED cfgs ELSE SetAt(i, c) /\ UNCHANGED <<pc, exit>>
AtStage(stage) == {i \in DOMAIN cfgs : cfgs[i].stage = stage}
NextAt(i, stage) == i \in AtStage(stage) /\ \A k \in AtStage(stage) : i <= k

-----------------------------------------------------------------------------
(* resolve_max_parallel(): the argument, else a positive DVSIM_MAX_PARALLEL *)
(* of the environment, else from the number of processors if it is known.   *)
ResolveMaxParallel(arg, env, cores) ==
  IF arg # None THEN arg
  ELSE IF env # None /\ env > 0 THEN env
  ELSE IF cores = 1 THEN 1
  ELSE IF cores # None /\ cores > 0 THEN Max({cores - 1, 16}) ELSE 16

(* set_backend_type(): the environment has a backend, or an older launcher. *)
Registered == {"local", "fake", "lsf", "nc", "slurm", "edacloud"}
BackendType(a, site) ==
  LET asked == IF site.backend # None THEN site.backend ELSE site.launcher
  IN IF a.local THEN "local" ELSE IF a.fake THEN "fake" ELSE IF asked \in Registered THEN asked ELSE "local"

(* parse_args() and main(): --interactive and --fixed-seed set --reseed.    *)
ParseArgs ==
  /\ pc = "args"
  /\ args' = [input.args EXCEPT
                !.reseed = IF input.args.interactive \/ input.args.fixedSeed # None THEN 1 ELSE @,
                !.gui = @ \/ input.args.guiDebug,
                !.maxParallel = ResolveMaxParallel(@, input.env, input.cores),
                !.backend = BackendType(input.args, input.site)]
  /\ pc' = "make"
  /\ UNCHANGED <<input, cfgs, jobs, status, outcome, lost, cov, reports, exit>>

(* SimCfg.__init__(): the modes that the command line enables, that of the  *)
(* GUI only if it is asked for itself, and no build seed that is 0.         *)
EnabledBuildModes(a) ==
  LET If(cond, name) == IF cond THEN <<name>> ELSE <<>>
  IN a.buildModes \o If(input.args.gui, "gui") \o If(a.guiDebug, "gui_debug")
     \o <<IF a.waves # None THEN "waves" ELSE "waves_off">> \o If(a.cov, "cov")
     \o If(a.profile, "profile") \o If(~a.xpropOff, "xprop") \o If(a.buildSeed \notin {None, 0}, "build_seed")

(* The attributes of a SimCfg before its file is merged into them.          *)
Defaults(a) ==
  [build_modes |-> List(<<>>), run_modes |-> List(<<>>), tests |-> List(<<>>), regressions |-> List(<<>>),
   overrides |-> List(<<>>), formats |-> List(<<>>), name |-> Scalar("str", ""),
   variant |-> Scalar("str", ""), testplan |-> Scalar("str", ""),
   build_opts |-> List(a.buildOpts), run_opts |-> List(a.runOpts),
   en_build_modes |-> List(EnabledBuildModes(a)), en_run_modes |-> List(a.runModes),
   tool |-> IF a.tool = None THEN None ELSE Scalar("str", a.tool)]

(* The object: its attributes, and None for those that no file sets.        *)
Object(v, path) ==
  LET Get(k) == IF k \in DOMAIN v THEN (IF v[k] = None THEN None ELSE v[k].val) ELSE None
      ListOf(k) == IF k \in DOMAIN v THEN v[k].list ELSE None
      mode == IF Get("build_mode") = None THEN "default" ELSE Get("build_mode")
  IN [stage |-> "new", scratch |-> path, name |-> v.name.val, variant |-> v.variant.val,
      tool |-> Get("tool"), plan |-> v.testplan.val, formats |-> v.formats.list,
      buildOpts |-> v.build_opts.list, runOpts |-> v.run_opts.list,
      buildModes |-> v.en_build_modes.list, runModes |-> v.en_run_modes.list,
      builds |-> v.build_modes.list, runs |-> v.run_modes.list,
      buildPass |-> ListOf("build_pass_patterns"), buildFail |-> ListOf("build_fail_patterns"),
      runPass |-> ListOf("run_pass_patterns"), runFail |-> ListOf("run_fail_patterns"),
      tests |-> v.tests.list, regrs |-> v.regressions.list,
      mode |-> mode, reseed |-> Get("reseed"), timeout |-> Get("run_timeout_mins"),
      primary |-> IF Get("primary_build_mode") = None THEN mode ELSE Get("primary_build_mode"),
      vplan |-> Get("vplan") # None, flist |-> Get("flist_file") # None,
      merged |-> IF Get("merged") = None THEN <<>> ELSE <<"now">>, earlier |-> input.earlier,
      runList |-> <<>>, buildList |-> <<>>, jobs |-> <<>>]

(* make_cfg(): a --list, a --purge and an invocation without --items end    *)
(* before or after it as main() says; the purged files are not modelled.    *)
MakeCfg ==
  /\ pc = "make"
  /\ LET initial == IF args.tool = None THEN [dvsim_root |-> Scalar("str", "root")]
                    ELSE [dvsim_root |-> Scalar("str", "root"), tool |-> Scalar("str", args.tool)]
         paths == IF input.files[args.path].uses = None THEN <<args.path>>
                  ELSE input.files[args.path].uses
     IN \E made \in {MakeCfgs(input.files, args.path, initial, Defaults(args))} :
          IF made = Exit THEN Fail /\ UNCHANGED cfgs
          ELSE /\ cfgs' = [i \in DOMAIN made |-> Object(made[i], paths[i])]
               /\ pc' = "objects" /\ UNCHANGED exit
  /\ UNCHANGED <<input, args, jobs, status, outcome, lost, cov, reports>>

IsPrimary == input.files[args.path].uses # None
Selected(c) == ~IsPrimary \/ args.select = None \/ c.name \in args.select

-----------------------------------------------------------------------------
(* _create_objects(): the modes, the options of those enabled for all, the  *)
(* tests, and the regressions with those of the stages of the testplan.     *)
WithEnabled(c, names, modes) ==
  [c EXCEPT !.buildOpts = @ \o OptionsOf(names, modes, "build"),
            !.runOpts = @ \o OptionsOf(names, modes, "run")]
Globals(c) == [buildModes |-> c.buildModes, runModes |-> c.runModes,
               reseed |-> c.reseed, timeout |-> c.timeout, mode |-> c.mode]
AsRegression(r) == [name |-> r.name, tests |-> r.tests, sims |-> <<>>, modes |-> <<>>,
                    reseed |-> None, build |-> <<>>, run |-> <<>>]
PlanOf(c) == IF c.plan = "" THEN <<>>
             ELSE Testpoints(input.plans, c.plan, input.want, input.avoid)

(* A regression may not have the name of a test of any configuration.       *)
WithBuilds(c, modes) ==
  IF ~ToSet(c.buildModes) \subseteq Names(modes) THEN Exit
  ELSE [WithEnabled(c, c.buildModes, modes) EXCEPT !.builds = modes]
WithRuns(c, modes) ==
  IF ~ToSet(c.runModes) \subseteq Names(modes) THEN Exit
  ELSE [WithEnabled(c, c.runModes, modes) EXCEPT !.runs = modes]
Regressions(c, known, stages) ==
  CreateRegressions(c.regrs \o [i \in DOMAIN stages |-> AsRegression(stages[i])],
                    c.tests, known \cup Names(c.tests), c.builds, c.runs, Globals(c), NameOrder)
Objects(c, known) ==
  LET Regrs(x) == Then(Regressions(x, known, StageRegressions(x.plan, NameOrder)),
                       LAMBDA regrs : [x EXCEPT !.stage = "created", !.regrs = regrs])
      Plan(x) == Then(PlanOf(x), LAMBDA plan : Regrs([x EXCEPT !.plan = plan]))
      Tests(x) == Then(CreateTests(x.tests, x.builds, x.runs, Globals(x)),
                       LAMBDA tests : Plan([x EXCEPT !.tests = tests]))
      Runs(x) == Then(CreateModes(<<>>, x.runs), LAMBDA modes : Then(WithRuns(x, modes), Tests))
  IN IF c.tool = None \/ (args.waves # None /\ c.formats # <<>> /\ ~Contains(c.formats, args.waves))
     THEN Exit
     ELSE Then(CreateModes(<<DefaultBuildMode>>, c.builds),
               LAMBDA modes : Then(WithBuilds(c, modes), Runs))

(* The objects of the next configuration; when there is none left, what     *)
(* main() does with them is up to the arguments.                           *)
CreateObjects(i) ==
  /\ pc = "objects" /\ NextAt(i, "new")
  /\ LET known == UNION {Names(cfgs[k].tests) : k \in AtStage("created")}
     IN \E c \in {IF Selected(cfgs[i]) THEN Objects(cfgs[i], known)
                  ELSE [cfgs[i] EXCEPT !.stage = "skipped"]} : Advance(i, c)
  /\ UNCHANGED <<input, args, jobs, status, outcome, lost, cov, reports>>

Choose ==
  /\ pc = "objects" /\ AtStage("new") = {}
  /\ IF args.list THEN exit' = 0 /\ pc' = "done"
     ELSE IF args.covUnr \/ args.covAnalyze THEN pc' = "coverage" /\ UNCHANGED exit
     ELSE IF args.items = <<>> \/ (args.select # None /\ ~IsPrimary) THEN Fail
     ELSE IF (args.gui \/ args.interactive) /\ Cardinality(AtStage("created")) > 1 THEN Fail
     ELSE pc' = "lists" /\ UNCHANGED exit
  /\ UNCHANGED <<input, args, cfgs, jobs, status, outcome, lost, cov, reports>>

-----------------------------------------------------------------------------
(* _create_build_and_run_list(): each pattern of --items stands for the set *)
(* of names it matches.  A regression with a test that is already to run is *)
(* skipped; its options and reseed go to its tests.                        *)
Hits(names) == FlattenSeq([p \in DOMAIN args.items |-> Only(names, args.items[p])])
AddRegression(c, r) ==
  LET added == AddOptions(c.tests, c.builds, r.tests, r.build, r.run)
      reseeded == [i \in DOMAIN added.tests |->
                     IF r.reseed # None /\ Contains(r.tests, added.tests[i].name)
                     THEN [added.tests[i] EXCEPT !.reseed = r.reseed] ELSE added.tests[i]]
  IN IF ToSet(r.tests) \cap ToSet(c.runList) # {} THEN c
     ELSE [c EXCEPT !.runList = @ \o r.tests, !.tests = reseeded, !.builds = added.modes]

(* The multiplier is a fraction; round() rounds a half to the even number,  *)
(* and what is not a number ends the program.                              *)
RoundHalfEven(num, den) ==
  LET floor == num \div den
      twice == 2 * (num % den)
  IN IF twice > den \/ (twice = den /\ floor % 2 = 1) THEN floor + 1 ELSE floor
Reseeded(reseed) ==
  LET base == IF args.reseed # None THEN args.reseed ELSE reseed
  IN Max({1, RoundHalfEven(base * args.times[1], args.times[2])})
TestOf(c, name) == c.tests[Find(name, c.tests)]
NamesOf(ms) == [i \in DOMAIN ms |-> ms[i].name]
WithRegressions(c) ==
  LET hits == Hits(NamesOf(c.regrs))
  IN FoldLeft(AddRegression, c, [k \in DOMAIN hits |-> c.regrs[Find(hits[k], c.regrs)]])
WithTests(c) ==
  [c EXCEPT !.runList = @ \o Hits(Only(NamesOf(c.tests), Names(c.tests) \ ToSet(@)))]
Reseed(ts, n) == [ts EXCEPT ![Find(n, ts)].reseed = Reseeded(@)]
WithGlobals(c, added) ==
  [c EXCEPT !.stage = "listed", !.builds = added.modes,
            !.tests = FoldLeft(Reseed, added.tests, c.runList),
            !.buildList = Firsts([i \in DOMAIN c.runList |-> TestOf(c, c.runList[i]).mode])]
Listed(c0) ==
  LET Complete(c) ==
        IF args.reseed = None /\ \E n \in ToSet(c.runList) : TestOf(c, n).reseed \notin Int THEN Exit
        ELSE WithGlobals(c, AddOptions(c.tests, c.builds, c.runList, c.buildOpts, c.runOpts))
  IN Complete(WithTests(WithRegressions(c0)))

CreateLists(i) ==
  /\ pc = "lists" /\ NextAt(i, "created") /\ AtStage("listed") = {}
  /\ \E c \in {Listed(cfgs[i])} : Advance(i, c)
  /\ UNCHANGED <<input, args, jobs, status, outcome, lost, cov, reports>>

-----------------------------------------------------------------------------
(* _create_deploy_objects(): a build equivalent to an earlier one is left   *)
(* out, and its tests use the earlier one, which also takes its place as    *)
(* the primary build mode.                                                 *)
AddBuild(acc, job) ==
  LET same == SelectInSeq(acc.builds, LAMBDA b : Equivalent(job, b))
  IN IF same = 0
     THEN [acc EXCEPT !.builds = Append(@, job), !.use = Put(@, job.name, job.name)]
     ELSE [acc EXCEPT !.use = Put(@, job.name, acc.builds[same].name),
                      !.primary = IF @ = job.name THEN acc.builds[same].name ELSE @]
Builds(c) ==
  LET OnlyOne(all) ==
        IF Len(all.builds) = 1 THEN [all EXCEPT !.primary = all.builds[1].name] ELSE all
  IN OnlyOne(FoldLeft(AddBuild, [builds |-> <<>>, use |-> <<>>, primary |-> c.primary],
                   [i \in DOMAIN c.buildList |->
                      CompileSim(c, args, c.builds[Find(c.buildList[i], c.builds)])]))

(* _expand_run_list(): the runs are created test by test and then ordered   *)
(* by index, so that all tests have run once before any runs again.        *)
RunsOf(c) == Only(c.jobs, {j \in ToSet(c.jobs) : j.target = "run"})
Created == Cardinality(UNION {{i} \X DOMAIN RunsOf(cfgs[i]) : i \in DOMAIN cfgs})
Tagged(c) ==
  FlattenSeq([k \in DOMAIN c.runList |->
    [n \in 1..TestOf(c, c.runList[k]).reseed |-> [index |-> n - 1, test |-> TestOf(c, c.runList[k])]]])

(* A mutant of ByIndex: the runs stay test by test.                        *)
ByIndexUnordered(tagged) == tagged

(* An index is less than the number of runs.                               *)
ByIndex(tagged) ==
  FlattenSeq([n \in 1..Len(tagged) |-> Only(tagged, {r \in ToSet(tagged) : r.index = n - 1})])
RunJobs(c, builds, tagged) ==
  LET earlier == Created
      Seeded == [k \in DOMAIN tagged |-> [index |-> tagged[k].index, test |-> tagged[k].test,
                                          seed |-> SeedOf(args, earlier + k)]]
      Job(r) == RunTest(c, args, r.index, r.test, builds[Find(r.test.mode, builds)], r.seed)
      All(ordered) == [k \in DOMAIN ordered |-> Job(ordered[k])]
  IN All(ByIndex(Seeded))

(* The coverage jobs, if there are runs.                                   *)
CoverageJobs(c, runs) ==
  LET AndPlan(report) == IF c.vplan THEN <<report, CovVPlan(c, args, report)>> ELSE <<report>>
      AndReport(merge) == <<merge>> \o AndPlan(CovReport(c, args, merge))
  IN IF ~args.cov \/ runs = <<>> THEN <<>> ELSE AndReport(CovMerge(c, args, runs))

Deployed(c0, all) ==
  LET Using(t) == IF Contains(c0.runList, t.name) THEN [t EXCEPT !.mode = all.use[@]] ELSE t
      c == [c0 EXCEPT !.primary = all.primary, !.tests = [i \in DOMAIN @ |-> Using(@[i])]]
      First(runs) == IF args.gui THEN SubSeq(runs, 1, Min({1, Len(runs)})) ELSE runs
      WithJobs(x, runs) ==
        [x EXCEPT !.stage = "deployed",
                  !.jobs = (IF args.runOnly THEN <<>> ELSE all.builds) \o runs \o CoverageJobs(x, runs)]
      Ran(x) == WithJobs(x, IF args.buildOnly THEN <<>> ELSE First(RunJobs(x, all.builds, Tagged(x))))
  IN IF \/ all.primary \notin Names(all.builds) \/ (args.guiDebug /\ c.tool # "xcelium")
        \/ None \in {c.buildPass, c.buildFail} \/ (~args.buildOnly /\ None \in {c.runPass, c.runFail})
     THEN Exit
     ELSE Ran(c)

CreateDeploy(i) ==
  /\ pc = "lists" /\ i \in AtStage("listed")
  /\ \E c \in {Deployed(cfgs[i], Builds(cfgs[i]))} : Advance(i, c)
  /\ UNCHANGED <<input, args, jobs, status, outcome, lost, cov, reports>>

(* cov_unr() and cov_analyze(): one job for each configuration.             *)
CreateCoverage ==
  /\ pc = "coverage"
  /\ IF args.covUnr /\ \E i \in DOMAIN cfgs : cfgs[i].tool \notin {"vcs", "xcelium"}
     THEN Fail /\ UNCHANGED cfgs
     ELSE /\ cfgs' = [i \in DOMAIN cfgs |-> 
                        [cfgs[i] EXCEPT !.stage = "deployed",
                           !.jobs = <<IF args.covUnr THEN CovUnr(cfgs[i], args)
                                      ELSE CovAnalyze(cfgs[i], args)>>]]
          /\ pc' = "lists" /\ UNCHANGED exit
  /\ UNCHANGED <<input, args, jobs, status, outcome, lost, cov, reports>>

-----------------------------------------------------------------------------
(* deploy_objects() and build_graph(): the first job of each id is kept; a  *)
(* dependency on none, or a cycle of dependencies, ends the program.       *)
Specs == FlattenSeq([i \in DOMAIN cfgs |-> cfgs[i].jobs])
Keep(acc, j) == IF \E k \in DOMAIN acc : acc[k].id = j.id THEN acc ELSE Append(acc, j)
Kept(specs) == FoldLeft(Keep, <<>>, specs)
Ids(specs) == {specs[k].id : k \in DOMAIN specs}
JobOf(id) == CHOOSE j \in ToSet(jobs) : j.id = id
Peel(specs, visited) ==
  visited \cup {specs[k].id : k \in {k \in DOMAIN specs : ToSet(specs[k].deps) \subseteq visited}}
Acyclic(specs) == FoldLeft(LAMBDA seen, k : Peel(specs, seen), {}, specs) = Ids(specs)

DeployObjects ==
  /\ pc = "lists" /\ AtStage("created") \cup AtStage("listed") = {}
  /\ LET graph == Kept(Specs)
     IN IF Specs = <<>> \/ ~Acyclic(graph)
           \/ \E k \in DOMAIN graph : ~(ToSet(graph[k].deps) \subseteq Ids(graph))
        THEN Fail /\ UNCHANGED jobs
        ELSE jobs' = graph /\ pc' = "run" /\ UNCHANGED exit
  /\ UNCHANGED <<input, args, cfgs, status, outcome, lost, cov, reports>>

(* A job runs once its dependencies have ended, if they passed, or if one   *)
(* of them did for a merge; else it is killed without running.             *)
MayRun(j) ==
  LET passed == {d \in ToSet(j.deps) : status[d] = "PASSED"}
  IN IF j.all THEN passed = ToSet(j.deps) ELSE passed # {}

(* What its callbacks do to the coverage: a build deletes the database that *)
(* its runs write, a run that does not pass deletes what it wrote.         *)
Databases(j) == {<<j.dir[1], j.covdb[k]>> : k \in DOMAIN j.covdb}
CovAfter(j, result) ==
  CASE j.target = "build" -> Put(cov, j.covdb, {})
    [] j.target = "run" /\ result = "PASSED" ->
         Put(cov, j.covdb, (IF j.covdb \in DOMAIN cov THEN cov[j.covdb] ELSE {}) \cup {j.id})
    [] j.target = "cov_merge" -> Put(cov, j.id, UNION {cov[d] : d \in Databases(j) \cap DOMAIN cov})
    [] OTHER -> cov
Waits(j) == pc = "run" /\ j.id \notin DOMAIN status \cup lost /\ ToSet(j.deps) \subseteq DOMAIN status
RunJob(j, log) ==
  /\ Waits(j)
  /\ MayRun(j) => Completes(args.backend, j, log)
  /\ \E end \in {IF MayRun(j) THEN Outcome(args.backend, j, log) ELSE Cancelled} :
       /\ status' = Put(status, j.id, end.status)
       /\ outcome' = Put(outcome, j.id, end)
       /\ cov' = IF ~MayRun(j) \/ ~args.cov THEN cov ELSE CovAfter(j, end.status)
  /\ UNCHANGED <<input, args, pc, cfgs, jobs, lost, reports, exit>>

(* The exception ends the task that watches the job, and the scheduler      *)
(* waits for ever; the fake backend has none, and the program ends.         *)
LoseJob(j, log) ==
  /\ Waits(j) /\ MayRun(j) /\ ~Completes(args.backend, j, log)
  /\ IF args.backend = "fake" THEN Fail /\ UNCHANGED lost
     ELSE lost' = lost \cup {j.id} /\ UNCHANGED <<pc, exit>>
  /\ UNCHANGED <<input, args, cfgs, jobs, status, outcome, cov, reports>>

-----------------------------------------------------------------------------
(* gen_results(): the results of a configuration are those of its name and  *)
(* variant; the tests are in the order of the jobs.  A report replaces     *)
(* another of the same name.  Coverage is what a report job that passed     *)
(* left, or what the fake backend makes up.  Without a plugin for the tool  *)
(* of a configuration the program ends before any report is written.        *)
JobsOf(c) == {j \in ToSet(jobs) : j.block = <<c.name, c.variant>>}
ResultOf(j) ==
  [name |-> j.name, target |-> j.target, id |-> j.id,
   status |-> status[j.id], message |-> outcome[j.id].message,
   runtime |-> WithUnit(outcome[j.id].runtime, "s"),
   simulated |-> WithUnit(outcome[j.id].simulated, "us")]
Report(c) ==
  LET runs == SelectSeq(jobs, LAMBDA j : j \in JobsOf(c) /\ j.target = "run")
      table == Table([k \in DOMAIN runs |-> ResultOf(runs[k])])
      results == {ResultOf(j) : j \in JobsOf(c)}
  IN [flow |-> FlowResult(c.plan, table, args.mapFull),
      stages |-> [s \in ToSet(Stages) \cup {"unmapped"} |->
                    StageResult(c.plan, table, args.mapFull, s)],
      plan |-> GrandTotal(c.plan, table),
      rows |-> LastByName(Reported(c.plan, table, args.mapFull)),
      progress |-> [s \in ToSet(Stages) |-> Progress(c.plan, table, s)],
      failed |-> Buckets(results),
      covered |-> \E j \in JobsOf(c) :
                    /\ j.target = "cov_report" /\ status[j.id] = "PASSED"
                    /\ args.backend = "fake" \/ (~j.dry /\ outcome[j.id].log.report = "good")]

GenResults ==
  /\ pc = "run" /\ DOMAIN status = Ids(jobs)
  /\ pc' = "done"
  /\ IF args.covUnr \/ args.covAnalyze THEN exit' = 0 /\ UNCHANGED reports
     ELSE LET ran == {i \in DOMAIN cfgs : cfgs[i].stage = "deployed"}
              last(t) == CHOOSE i \in ran : Tag(cfgs[i]) = t
                                            /\ \A k \in ran : Tag(cfgs[k]) = t => k <= i
          IN IF \E i \in ran : cfgs[i].tool \notin Tools THEN exit' = 1 /\ UNCHANGED reports
             ELSE /\ reports' = [t \in {Tag(cfgs[i]) : i \in ran} |-> Report(cfgs[last(t)])]
                  /\ exit' = IF \E i \in ran : DOMAIN Report(cfgs[i]).failed # {} THEN 1 ELSE 0
  /\ UNCHANGED <<input, args, cfgs, jobs, status, outcome, lost, cov>>

Init ==
  /\ input \in Inputs
  /\ args = input.args /\ pc = "args" /\ cfgs = <<>> /\ jobs = <<>>
  /\ status = <<>> /\ outcome = <<>> /\ lost = {} /\ cov = input.stale /\ reports = <<>> /\ exit = None

Next ==
  \/ ParseArgs \/ MakeCfg \/ Choose \/ CreateCoverage \/ DeployObjects \/ GenResults
  \/ \E i \in DOMAIN cfgs : CreateObjects(i) \/ CreateLists(i) \/ CreateDeploy(i)
  \/ \E j \in ToSet(jobs), log \in input.logs : RunJob(j, log) \/ LoseJob(j, log)

Spec == Init /\ [][Next]_vars

-----------------------------------------------------------------------------
(* Properties.  What the files declare is read again here, as sets: the     *)
(* modes reached from some names, and what all of them declare.             *)
Raw(c, key) ==
  LET attrs == input.files[c.scratch].attrs IN IF key \in DOMAIN attrs THEN attrs[key].list ELSE <<>>
SubsOf(raw, names) == UNION {ToSet(raw[i].subs) : i \in {k \in DOMAIN raw : raw[k].name \in names}}
Reached(raw, names) ==
  FoldLeft(LAMBDA acc, m : acc \cup SubsOf(raw, acc), names, raw)
Declares(raw, names, attr) ==
  UNION {ToSet(raw[i][attr]) : i \in {k \in DOMAIN raw : raw[k].name \in Reached(raw, names)}}
DeclaredModes(c, name) ==
  LET own == {t.mode : t \in {x \in ToSet(Raw(c, "tests")) : x.name = name}} \ {""}
  IN IF own = {} THEN {c.mode} ELSE own
BuildsOf(c) == Only(c.jobs, {j \in ToSet(c.jobs) : j.target = "build"})
Handed == pc = "run" /\ DOMAIN status = {}  \* the jobs go to the scheduler
Deployments == {c \in ToSet(cfgs) : c.stage = "deployed" /\ ~args.covUnr /\ ~args.covAnalyze}

(* The regressions asked for, and those of them that share no test with     *)
(* another, so that none of them is skipped.                               *)
Asked(c) == {r \in ToSet(c.regrs) : \E p \in DOMAIN args.items : r.name \in args.items[p]}
Alone(c) == {r \in Asked(c) : \A q \in Asked(c) : q = r \/ ToSet(q.tests) \cap ToSet(r.tests) = {}}
Adds(regrs, tests, attr) ==
  UNION {ToSet(r[attr]) : r \in {x \in regrs : ToSet(x.tests) \cap tests # {}}}
Between(low, set, high) == low \subseteq set /\ set \subseteq low \cup high

(* The in-place merging of modes, twice over for sub-modes and once more    *)
(* for tests and regressions (modes.py, test.py, regression.py), loses no   *)
(* option and leaks none: the options of each run and of each build are     *)
(* those declared by the modes reached from what it uses, by the command    *)
(* line and by the regressions it is run for.                              *)
OptionsComplete ==
  Handed => \A c \in Deployments :
    LET builds == Raw(c, "build_modes")
        runs == Raw(c, "run_modes")
        OfRun(n) == Declares(Raw(c, "tests"), {n}, "run")
                    \cup Declares(runs, SubsOf(Raw(c, "tests"), {n}), "run")
                    \cup Declares(builds, DeclaredModes(c, n), "run") \cup ToSet(c.runOpts)
        UsedBy(m) == {n \in ToSet(c.runList) : m \in DeclaredModes(c, n)}
    IN /\ Declares(builds, ToSet(c.buildModes), "build") \subseteq ToSet(c.buildOpts)
       /\ Declares(builds, ToSet(c.buildModes), "run")
            \cup Declares(runs, ToSet(c.runModes), "run") \subseteq ToSet(c.runOpts)
       /\ \A j \in ToSet(RunsOf(c)) :
            Between(OfRun(j.name) \cup Adds(Alone(c), {j.name}, "run"), ToSet(j.cmd),
                    Adds(Asked(c), {j.name}, "run"))
       /\ \A j \in ToSet(BuildsOf(c)) :
            Between(Declares(builds, {j.name}, "build") \cup ToSet(c.buildOpts)
                      \cup Adds(Alone(c), UsedBy(j.name), "build"),
                    ToSet(j.cmd) \ {j.name, "-f"},
                    Adds(Asked(c), ToSet(c.runList), "build"))

(* No mode that reaches itself gets past create_modes(), though the check   *)
(* for it there (modes.py:165) only sees cycles through the mode it started *)
(* from and the lists it walks are changed on the way.                     *)
CyclesNeverAccepted ==
  Handed => \A c \in Deployments, key \in {"build_modes", "run_modes"} :
    \A m \in ToSet(Raw(c, key)) : m.name \notin Reached(Raw(c, key), ToSet(m.subs))

(* Each test asked for, by a pattern or a regression, runs with indices     *)
(* from 0, each once, and no other test does; no test runs again before     *)
(* every test that has as many runs ran as often; the seeds of the command  *)
(* line are used first, and those not given by the user are not repeated.   *)
RunsAsRequested ==
  Handed => \A c \in Deployments :
    LET runs == RunsOf(c)
        wanted == {t.name : t \in {x \in ToSet(c.tests) : \E p \in DOMAIN args.items : x.name \in args.items[p]}}
        byRegr == UNION {ToSet(r.tests) : r \in Asked(c)}
        sure == wanted \cup UNION {ToSet(r.tests) : r \in Alone(c)}
        indices(n) == {j.id[2] : j \in {x \in ToSet(runs) : x.name = n}}
    IN ~args.gui /\ ~args.buildOnly =>
         /\ Between(sure, {j.name : j \in ToSet(runs)}, byRegr)
         /\ \A n \in {j.name : j \in ToSet(runs)} :
              /\ indices(n) = 0..Cardinality(indices(n)) - 1
              /\ \A k, l \in DOMAIN runs :
                   runs[k].name = n /\ runs[l].name = n /\ runs[k].id[2] = runs[l].id[2] => k = l
         /\ \A k, l \in DOMAIN runs : k < l => runs[k].id[2] <= runs[l].id[2]
         /\ \A k, l \in DOMAIN runs :
              k # l /\ runs[k].seed = runs[l].seed => runs[k].seed \in {args.fixedSeed} \cup ToSet(args.seeds)

(* What the scheduler is given is what module Scheduler assumes: no job of  *)
(* a configuration is dropped for the id of another, each comes after what  *)
(* it depends on, each run after a build of its mode unless --run-only, and *)
(* there is room for a job.  No two jobs write to the same directory, and   *)
(* each is of the configuration for which it was created, so that a report  *)
(* will have it.                                                           *)
Jobs == UNION {ToSet(cfgs[i].jobs) : i \in DOMAIN cfgs}
JobsOfConfigs ==
  /\ cfgs \in Seq(ToSet(cfgs))
  /\ \A i \in DOMAIN cfgs :
       /\ cfgs[i].jobs \in Seq(Jobs)
       /\ cfgs[i].jobs # <<>> => cfgs[i].stage = "deployed"
       /\ \A j \in ToSet(cfgs[i].jobs) :
            j.block = <<cfgs[i].name, cfgs[i].variant>> /\ j.pass \in Seq(ToSet(j.pass))
JobsWellFormed ==
  /\ pc = "lists" => JobsOfConfigs
  /\ Handed =>
       /\ jobs = Specs
       /\ args.maxParallel > 0
       /\ \A k \in DOMAIN jobs :
            /\ ToSet(jobs[k].deps) \subseteq {jobs[l].id : l \in 1..k - 1}
            /\ \A l \in DOMAIN jobs : jobs[l].dir = jobs[k].dir => l = k
            /\ jobs[k].target = "run" /\ ~args.runOnly =>
                 \E l \in 1..k - 1 : /\ jobs[l].target = "build" /\ jobs[l].mode = jobs[k].mode
                                     /\ jobs[l].block = jobs[k].block /\ jobs[k].deps = <<jobs[l].id>>

(* Coverage: the database of the primary build mode is first, as tools      *)
(* need it (sim/flow.py, _expand()); what is merged is that of the runs     *)
(* that passed, all of them, and of earlier invocations only if nothing was *)
(* built again.                                                            *)
CoverageOfPassingRuns ==
  \A c \in Deployments : \A m \in {j \in ToSet(c.jobs) : j.target = "cov_merge"} :
    LET passed == {j.id : j \in {x \in ToSet(RunsOf(c)) : x.id \in DOMAIN status
                                                            /\ status[x.id] = "PASSED"}}
    IN /\ ~args.gui => Head(m.covdb) = c.primary
       /\ {j.mode : j \in ToSet(RunsOf(c))} = ToSet(m.covdb)
       /\ m.id \in DOMAIN status /\ status[m.id] # "KILLED" =>
            Between(passed, cov[m.id], IF args.runOnly THEN {<<"old">>} ELSE {})

(* The reports: the total of a flow is the number of its runs and its       *)
(* passes the number of those that passed, though a test is listed at       *)
(* several testpoints, stages or at none; the testplan's own totals agree.  *)
EveryRunCounted ==
  pc = "done" /\ DOMAIN reports # {} =>
    \A c \in Deployments :
      LET runs == ToSet(RunsOf(c))
          counts == [total |-> Cardinality(runs),
                     passed |-> Cardinality({j \in runs : status[j.id] = "PASSED"})]
          r == reports[Tag(c)]
          written == FoldLeft(LAMBDA n, s : n + r.progress[s].written, 0, Stages)
      IN /\ r.flow = counts /\ r.plan = counts
         /\ written = Cardinality({j.name : j \in runs})
         /\ \A s \in DOMAIN r.stages : r.stages[s].total <= counts.total

(* A run for --items that reports success has run every job, every job      *)
(* ended with the exit code 0 and a log without a failing line and with a   *)
(* line for every pass pattern, coverage could be extracted from each       *)
(* report, and each tool has a plugin; and if all that is so and the run    *)
(* ends, it reports success: the exit code of the program comes from the    *)
(* messages of the jobs (flow.py:845), not from their statuses, and an      *)
(* exception in post_finish() or for the plugin (flow.py:828) must not be   *)
(* lost on the way.  A launcher may miss a pattern on a line that has two,  *)
(* and wants two lines for one that is given twice (launcher/base.py:291).  *)
Clean(j, log) ==
  LET seen == UNION {l.hits : l \in ToSet(log.lines)}
  IN /\ ~Unreadable(j, log)
     /\ \/ args.backend = "fake" /\ (j.target = "run" => log.exit = 0)
        \/ j.dry /\ (args.backend = "local" \/ (args.backend # "fake" /\ log.exit # None))
        \/ /\ log.exit = 0 /\ j.fail \cap seen = {} /\ ToSet(j.pass) \subseteq seen
           /\ log.readable \/ (args.backend = "local" /\ j.pass = <<>> /\ j.fail = {})
OnOwnLines(j, log) ==
  /\ \A k, m \in DOMAIN j.pass : j.pass[k] = j.pass[m] => k = m
  /\ \A l \in ToSet(log.lines) : \A p, q \in l.hits \cap ToSet(j.pass) : p = q
SuccessMeansAllPassed ==
  pc = "done" /\ ~args.list /\ ~args.covUnr /\ ~args.covAnalyze =>
    LET ran == jobs # <<>> /\ DOMAIN status = Ids(jobs)
        clean == ran /\ \A id \in DOMAIN status : outcome[id].log # None /\ Clean(JobOf(id), outcome[id].log)
        supported == \A i \in DOMAIN cfgs : cfgs[i].stage = "deployed" => cfgs[i].tool \in Tools
    IN /\ exit = 0 => clean /\ supported
       /\ /\ clean /\ supported
          /\ \/ args.backend = "local"
             \/ \A id \in DOMAIN status : OnOwnLines(JobOf(id), outcome[id].log)
          => exit = 0

(* The times of a test in the report are those of its longest run: what the *)
(* log of that run says, in seconds and microseconds, and for a runtime it  *)
(* does not give what dvsim counted.  On the way to the report a time       *)
(* changes its unit twice; the largest unit that fits is shown.            *)
Seconds(t) == t.n * (CASE t.unit = 1 -> 3600 [] t.unit = 2 -> 60 [] t.unit = 3 -> 1)
Microseconds(t) == CASE t.unit = 4 -> t.n * 1000 [] t.unit = 5 -> t.n [] t.unit = 6 -> t.n \div 1000
Gives(id, field) ==  \* the line of the log that counts
  LET lines == outcome[id].log.lines
      shown == {k \in DOMAIN lines : lines[k][field] # None
                  /\ (JobOf(id).tool = "z01x" => \E h \in 1..k - 1 : lines[h].mark = "summary")}
      header == {k \in DOMAIN lines : lines[k].mark = "header" /\ JobOf(id).tool = "vcs" /\ field = "sim"}
  IN IF ~outcome[id].log.readable \/ shown = {} \/ \E h \in header : h > Max(shown) THEN None
     ELSE lines[Max(shown)][field]
Took(id) ==
  IF Gives(id, "cpu") # None THEN Seconds(Gives(id, "cpu"))
  ELSE IF args.backend = "local" THEN outcome[id].log.wall ELSE 0
Simmed(id) == IF Gives(id, "sim") = None THEN 0 ELSE Microseconds(Gives(id, "sim"))
TimesShown ==
  pc = "done" /\ DOMAIN reports # {} /\ args.backend # "fake" =>
    /\ \A id \in DOMAIN outcome, field \in {"runtime", "simulated"} :
         LET t == outcome[id][field] IN t.unit > 1 => t.n < t.d * Divider(t.unit)
    /\ \A c \in Deployments :
         LET rows == reports[Tag(c)].rows
             read == {j.id : j \in {x \in ToSet(RunsOf(c)) : outcome[x.id].log # None /\ ~x.dry}}
             of(name) == {id \in read : JobOf(id).name = name}
         IN \A name \in {n \in DOMAIN rows : of(n) # {}} :
              /\ \A id \in of(name) : Took(id) * rows[name].runtime.d <= rows[name].runtime.n
              /\ \E id \in of(name) :
                   /\ rows[name].runtime.n = Took(id) * rows[name].runtime.d
                   /\ rows[name].simulated.n = Simmed(id) * rows[name].simulated.d

(* is_equivalent_job() says that the two jobs "would behave exactly the     *)
(* same way": a run uses a build with the options its mode declares.        *)
BuiltAsAsked ==
  Handed =>
    \A c \in Deployments : \A j \in ToSet(RunsOf(c)), b \in ToSet(BuildsOf(c)) :
      j.deps = <<b.id>> =>
        Declares(Raw(c, "build_modes"), DeclaredModes(c, j.name), "build") \subseteq ToSet(b.cmd)
=============================================================================
