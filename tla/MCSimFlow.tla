------------------------------ MODULE MCSimFlow ------------------------------
(***************************************************************************)
(* Families of invocations for TLC, each around one part of the flow.       *)
(***************************************************************************)
EXTENDS SimFlow

CONSTANTS
  Families,  \* the families of inputs of a run
  Word       \* a string where a number is expected

MCFlows == {"sim", "lint"}
MCNames == <<"alu", "default", "m1", "m2", "m3", "t1", "t2", "t3", "t_a", "t_b", "waves_off">>

Args ==
  [path |-> "top", items |-> <<{"t1"}>>, tool |-> None, reseed |-> None, times |-> <<1, 1>>,
   seeds |-> <<>>, fixedSeed |-> None, buildOpts |-> <<>>, runOpts |-> <<"cli">>, buildModes |-> <<>>,
   runModes |-> <<>>, gui |-> FALSE, guiDebug |-> FALSE, interactive |-> FALSE, waves |-> None,
   cov |-> FALSE, covMergePrevious |-> FALSE, covUnr |-> FALSE, covAnalyze |-> FALSE, profile |-> FALSE,
   xpropOff |-> TRUE, buildSeed |-> None, buildOnly |-> FALSE, runOnly |-> FALSE, mapFull |-> FALSE,
   buildTimeout |-> None, runTimeout |-> None, runTimes |-> None, select |-> None, list |-> FALSE,
   maxParallel |-> None, local |-> FALSE, fake |-> FALSE, backend |-> None, dryRun |-> FALSE]

Mode(name, build, run, subs) ==
  [DefaultBuildMode EXCEPT !.name = name, !.build = build, !.run = run, !.subs = subs]
Run(name, run, subs) == [name |-> name, run |-> run, subs |-> subs]
Test(name, mode, reseed, run, subs) ==
  [name |-> name, sim |-> 0, mode |-> mode, reseed |-> reseed, timeout |-> None,
   build |-> <<>>, run |-> run, subs |-> subs]
Regr(name, tests, reseed, run) ==
  [name |-> name, tests |-> tests, sims |-> <<"s1">>, modes |-> <<"r1">>, reseed |-> reseed,
   build |-> <<>>, run |-> run]

File(builds, runs, tests, regrs) ==
  [imports |-> <<>>, uses |-> None,
   attrs |-> [k \in {"build_pass_patterns", "build_fail_patterns", "run_pass_patterns", "run_fail_patterns"} |->
                List(<<>>)] @@
             [flow |-> Scalar("str", "sim"), name |-> Scalar("str", "alu"),
              tool |-> Scalar("str", "vcs"), reseed |-> Scalar("int", 1),
              build_modes |-> List(<<Mode("waves_off", <<"w">>, <<"wr">>, <<>>), Mode("cov", <<"c">>, <<"cr">>, <<>>),
                                     Mode("gui", <<>>, <<"gr">>, <<>>)>> \o builds),
              run_modes |-> List(runs), tests |-> List(tests), regressions |-> List(regrs)]]
With(file, key, value) == [file EXCEPT !.attrs = (key :> value) @@ @]
Line(hits, cpu, sim, mark) == [hits |-> hits, cpu |-> cpu, sim |-> sim, mark |-> mark]
Left(lines, exit_, wall) ==
  [readable |-> TRUE, lines |-> lines, exit |-> exit_, wall |-> wall, report |-> "none"]
Input(args_, files, plans) ==
  [args |-> args_, files |-> files, plans |-> plans, want |-> {}, avoid |-> {}, earlier |-> <<>>,
   cores |-> 4, env |-> None, stale |-> <<>>, site |-> [backend |-> None, launcher |-> None],
   logs |-> {Left(<<>>, 0, 1), Left(<<>>, 1, 1)}]
One(args_, file) == Input(args_, "top" :> file, <<>>)

-----------------------------------------------------------------------------
(* Sub-modes: every graph of three build modes, one of them the test's.     *)
Subs(others) == {<<>>, <<others[1]>>, <<others[2]>>, others, <<others[2], others[1]>>}
ModeFiles ==
  {File(<<Mode("m1", <<"b1">>, <<"o1">>, s1), Mode("m2", <<"b2">>, <<"o2">>, s2),
          Mode("m3", <<"b3">>, <<"o3">>, s3)>>, <<>>, <<Test("t1", "m1", None, <<"own">>, <<>>)>>, <<>>) :
     s1 \in Subs(<<"m2", "m3">>), s2 \in Subs(<<"m1", "m3">>), s3 \in Subs(<<"m1", "m2">>)}
RunModeFiles ==
  {File(<<>>, <<Run("r1", <<"p1">>, s1), Run("r2", <<"p2">>, s2)>>,
        <<Test("t1", "", 2, <<"own">>, s), Test("t1", mode, None, <<"own2">>, <<>>)>>, <<>>) :
     s1 \in {<<>>, <<"r2">>}, s2 \in {<<>>, <<"r1">>}, s \in {<<"r1">>, <<"r2", "r1">>},
     mode \in {"", "waves_off", "m1"}}
ModeInputs ==
  {One(a, f) : a \in {Args, [Args EXCEPT !.buildModes = <<"m2">>]}, f \in ModeFiles}
  \cup {One(a, f) : a \in {Args, [Args EXCEPT !.runModes = <<"r1">>]}, f \in RunModeFiles}

(* Run lists: which tests, by pattern and by regression, and how often.     *)
Tests3 == <<Test("t1", "m1", 2, <<"o1">>, <<>>), Test("t2", "m2", None, <<"o2">>, <<>>),
            Test("t3", "m1", 3, <<"o3">>, <<>>)>>
Modes2 == <<Mode("m1", <<"b1">>, <<"mr1">>, <<>>), Mode("m2", <<"b2">>, <<"mr2">>, <<>>),
            [Mode("s1", <<"sb">>, <<"sr">>, <<>>) EXCEPT !.sim = 1]>>
ListFiles ==
  {With(File(Modes2, <<Run("r1", <<"rr">>, <<>>)>>, Tests3, <<Regr("g1", tests, reseed, <<"gr1">>),
                                     Regr("g2", <<"t2", "t3">>, None, <<"gr2">>)>>),
        "primary_build_mode", Scalar("str", "m1")) :
     tests \in {None, <<"t1", "t2">>, <<"t1">>}, reseed \in {None, 1}}
ListInputs ==
  {One([Args EXCEPT !.items = items, !.times = times, !.buildOnly = buildOnly, !.buildModes = enabled], f) :
     items \in {<<{"t1"}>>, <<{"t1"}, {"t2"}>>, <<{"g1", "t3"}>>, <<{"g2"}, {"g1"}>>,
                <<{"g1", "g2", "t1"}>>, <<{"x"}>>},
     times \in {<<1, 1>>, <<1, 2>>}, buildOnly \in {FALSE}, enabled \in {<<>>, <<"s1">>}, f \in ListFiles}
  \cup {One([Args EXCEPT !.items = <<{"t1", "t3"}>>, !.seeds = seeds, !.fixedSeed = fixed,
                          !.reseed = reseed], f) :
          seeds \in {<<>>, <<7>>}, fixed \in {None, 5}, reseed \in {None, 2}, f \in ListFiles}

(* Equivalent builds and coverage.                                         *)
BuildFiles ==
  {With(With(With(File(<<Mode("m1", o1, <<>>, <<>>), Mode("m2", o2, <<>>, <<>>)>>, <<>>,
                       <<Test("t1", "m2", None, <<>>, <<>>), Test("t2", "m1", None, <<>>, <<>>)>>, <<>>),
                  "primary_build_mode", Scalar("str", primary)),
             "vplan", Scalar("str", "plan")), "merged", Scalar("str", "yes")) :
     o1 \in {<<"b1">>, <<"b2">>}, o2 \in {<<"b2">>}, primary \in {"m1", "m2", "waves_off"}}
BuildInputs ==
  {[One([Args EXCEPT !.items = items, !.cov = cov_, !.runOnly = runOnly, !.gui = gui,
                     !.covMergePrevious = TRUE, !.buildTimeout = t, !.runTimeout = t,
                     !.runTimes = <<3, 2>>], f)
      EXCEPT !.stale = <<"top", "m1">> :> {<<"old">>}, !.earlier = <<"d1", "d2", "d3", "d4", "d5", "d6", "d7">>] :
     items \in {<<{"t1", "t2"}>>, <<{"t1"}>>}, cov_ \in BOOLEAN, runOnly \in BOOLEAN, gui \in BOOLEAN,
     t \in {None, 5}, f \in BuildFiles}
Named ==
  {One([Args EXCEPT !.items = <<{"t1", "t2"}>>], f) :
     f \in {File(<<Mode("m1", <<"m1">>, <<>>, <<>>), Mode("m2", <<"m2">>, <<>>, <<>>)>>, <<>>,
                 <<Test("t1", "m1", None, <<>>, <<>>), Test("t2", "m2", None, <<>>, <<>>)>>, <<>>)}}

-----------------------------------------------------------------------------
(* Testplans: testpoints that share tests, have none, are not mapped, or    *)
(* name tests by a wildcard; imported plans; tags.                         *)
Point(name, stage, tests, tags) == [name |-> name, stage |-> stage, tests |-> tests, tags |-> tags]
T(stem) == [stem |-> stem, keys |-> <<>>]
Plans(points, imported) ==
  "plan" :> [imports |-> imported, values |-> "k" :> <<"a", "b">>, testpoints |-> points]
  @@ "sub" :> [imports |-> IF Len(imported) = 2 THEN <<"sub">> ELSE <<>>, values |-> <<>>,
               testpoints |-> <<Point("p9", "V1", <<T("t1")>>, {"x"})>>]
PlanTests == <<Test("t1", "", 2, <<>>, <<>>), Test("t_a", "", 1, <<>>, <<>>), Test("t2", "", 1, <<>>, <<>>)>>
PlanSet ==
  {Plans(points, imported) :
     points \in {<<Point("p1", "V2", <<T("t1")>>, {"x"}), Point("p2", "V1", <<[stem |-> "t_", keys |-> <<"k">>]>>, {}),
                   Point("p3", "V1", <<>>, {})>>,
                 <<Point("p1", "V2S", <<T("t1"), T("t2")>>, {}), Point("p2", "N.A.", <<T("t1")>>, {"x"}),
                   Point("p4", "V3", <<T("N/A")>>, {})>>},
     imported \in {<<>>, <<"sub">>, <<"sub", "sub">>}}
PlanInputs ==
  {[Input([Args EXCEPT !.items = items, !.mapFull = full],
          "top" :> With(File(<<>>, <<>>, PlanTests, <<>>), "testplan", Scalar("str", "plan")), plans)
      EXCEPT !.want = want] :
     items \in {<<{"V1"}>>, <<{"V2", "t2", "t_a"}>>, <<{"t1", "t2", "t_a"}>>}, full \in BOOLEAN,
     plans \in PlanSet, want \in {{}, {"x"}}}

(* Configurations: imports, conflicting attributes, overrides, children.    *)
Small(name, reseed) ==
  With(File(<<>>, <<>>, <<Test("t1", "", reseed, <<"o1">>, <<>>)>>, <<>>), "name", Scalar("str", name))
Bare(attrs, imports) == [imports |-> imports, uses |-> None, attrs |-> attrs]
Importing ==
  {"top" :> [Small("alu", None) EXCEPT !.imports = imports]
   @@ "f1" :> Bare([reseed |-> v1, run_opts |-> List(<<"f1">>)], IF loop THEN <<"top">> ELSE <<"f2">>)
   @@ "f2" :> Bare([run_opts |-> List(<<"f2">>), overrides |-> List(over)], <<>>) :
     imports \in {<<"f1">>, <<"f2">>, <<"f2", "f2">>, <<"f1", "f2">>}, loop \in BOOLEAN,
     v1 \in {Scalar("int", 0), Scalar("int", 2), Scalar("str", Word), List(<<>>)},
     over \in {<<>>, <<[name |-> "reseed", value |-> Scalar("int", 3)]>>,
              <<[name |-> "nothing", value |-> Scalar("int", 3)]>>}}
Children(v1, v2, flow) ==
  "top" :> [With(With(Small("soc", None), "tests", List(<<>>)), "name", Scalar("str", "soc"))
              EXCEPT !.uses = <<"c1", "c2">>]
  @@ "c1" :> With(Small("alu", 2), "variant", Scalar("str", v1))
  @@ "c2" :> With(With(Small("alu", 1), "variant", Scalar("str", v2)), "flow", Scalar("str", flow))
ConfigInputs ==
  {Input(Args, files, <<>>) : files \in Importing}
  \cup {Input([Args EXCEPT !.select = select, !.gui = gui, !.tool = tool, !.runOnly = runOnly],
              Children("a", v2, flow), <<>>) :
          select \in {None, {"alu"}, {"soc"}}, gui \in BOOLEAN, tool \in {None, "xcelium"},
          runOnly \in BOOLEAN, v2 \in {"b", ""}, flow \in {"sim", "lint"}}

(* Other arguments; a GUI for debugging, alone and with the other.          *)
Debuggable ==
  With(File(<<Mode("gui_debug", <<"g">>, <<"gdr">>, <<>>), Mode("build_seed", <<"s">>, <<>>, <<>>)>>, <<>>,
            <<Test("t1", "", 2, <<"o1">>, <<>>)>>, <<>>), "tool", Scalar("str", "xcelium"))
ArgInputs ==
  {One(a, Small("alu", 2)) :
     a \in {[Args EXCEPT !.covUnr = TRUE], [Args EXCEPT !.covAnalyze = TRUE], [Args EXCEPT !.list = TRUE],
           [Args EXCEPT !.items = <<>>], [Args EXCEPT !.interactive = TRUE], [Args EXCEPT !.guiDebug = TRUE],
           [Args EXCEPT !.waves = "fsdb"], [Args EXCEPT !.select = {"alu"}], [Args EXCEPT !.maxParallel = 2],
           [Args EXCEPT !.covUnr = TRUE, !.tool = "questa"], [Args EXCEPT !.fixedSeed = 5]}}
  \cup {[One(Args, Small("alu", 2)) EXCEPT !.cores = cores, !.env = env] :
          cores \in {None, 1, 4, 64}, env \in {None, 0, 3}}
  \cup {One([Args EXCEPT !.gui = gui, !.guiDebug = TRUE, !.buildSeed = seed], Debuggable) :
          gui \in BOOLEAN, seed \in {None, 0, 7}}

(* Logs: what they say of times and patterns, by tool and by backend.       *)
Plain(hits) == Line(hits, None, None, "")
Times(cpu, sim) == Line({"p1"}, cpu, sim, "row")
Mark(mark) == Line({"p2"}, None, None, mark)
LogSet ==
  {Left(<<Times(Time(90, "m"), Time(5000, "ns")), Plain({"p2"})>>, 0, 3),
   Left(<<Mark("summary"), Times(Time(2, "h"), Time(90, "ms")), Plain({"p2"})>>, 0, 3),
   Left(<<Mark("summary"), Times(Time(7300, "s"), Time(7, "us")), Mark("header")>>, 0, 8),
   Left(<<Line({"p1", "p2"}, None, None, "")>>, 0, 61), Left(<<Plain({"p1"}), Plain({"p2"})>>, 0, 2),
   Left(<<Plain({"p2"}), Plain({"f"}), Plain({"p1"})>>, 0, 2),
   Left(<<Plain({"p1"}), Plain({"p2"})>>, 1, 2), Left(<<Plain({"p2"})>>, 0, 2), Left(<<>>, None, 3600),
   [Left(<<>>, 0, 3601) EXCEPT !.readable = FALSE]}
LogFiles ==
  {With(With(With(Small("alu", 2), "run_pass_patterns", List(pass)), "run_fail_patterns", List(fail)),
        "tool", Scalar("str", tool)) :
     pass \in {<<>>, <<"p1", "p2">>}, fail \in {<<>>, <<"f">>}, tool \in {"vcs", "xcelium", "z01x"}}
LogInputs ==
  {[One([Args EXCEPT !.runOnly = TRUE], f)
      EXCEPT !.logs = LogSet, !.site = [backend |-> None, launcher |-> launcher]] :
     f \in LogFiles, launcher \in {"none", "nc"}}
  \cup {[One([Args EXCEPT !.fake = fake, !.local = local, !.dryRun = dry], Small("alu", 2))
           EXCEPT !.site = [backend |-> "slurm", launcher |-> None]] :
          fake \in BOOLEAN, local \in BOOLEAN, dry \in BOOLEAN}

(* Reports of coverage that can be read or not, and a tool without plugin.  *)
ReportInputs ==
  {[One([Args EXCEPT !.cov = cov_, !.dryRun = dry], With(Small("alu", 1), "tool", Scalar("str", tool)))
      EXCEPT !.logs = {[Left(<<>>, 0, 1) EXCEPT !.report = r] : r \in {"none", "good", "bad"}},
             !.site = [backend |-> backend, launcher |-> None]] :
     cov_ \in BOOLEAN, dry \in BOOLEAN, tool \in {"vcs", "questa"},
     backend \in {"local", "fake", "nc", "slurm"}}
  \cup {Input(Args, [Children("a", "b", "sim") EXCEPT !["c2"] = With(@, "tool", Scalar("str", "questa"))], <<>>)}

MCInputs ==
  UNION {CASE f = "modes" -> ModeInputs [] f = "lists" -> ListInputs [] f = "builds" -> BuildInputs
           [] f = "plans" -> PlanInputs [] f = "configs" -> ConfigInputs [] f = "args" -> ArgInputs
           [] f = "logs" -> LogInputs [] f = "reports" -> ReportInputs
           [] OTHER -> Named : f \in Families}
=============================================================================
