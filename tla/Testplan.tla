------------------------------- MODULE Testplan -------------------------------
(***************************************************************************)
(* The testplan and the results mapped onto it: testplan.py, sim_results.py *)
(* and the reports of sim/flow.py.  A plan file is a record of its lists    *)
(* and of the values its wildcards may take; the name of a test, in a       *)
(* testpoint, is a stem followed by wildcards.                             *)
(***************************************************************************)
EXTENDS JobOutcome

Stages == <<"N.A.", "V1", "V2", "V2S", "V3">>

-----------------------------------------------------------------------------
(* _parse_testplan(): the files imported by a plan are read breadth first   *)
(* and merged into it; a file reached twice ends the program.              *)
ReadPlan(files, at) ==
  IF at.queue = <<>> THEN at
  ELSE IF Head(at.queue) \notin DOMAIN files \/ Contains(at.parsed, Head(at.queue)) THEN Exit
  ELSE [queue |-> Tail(at.queue) \o files[Head(at.queue)].imports,
        parsed |-> Append(at.parsed, Head(at.queue))]

(* Its loop ends when every file has been read, at the latest.             *)
Imports(files, queue) ==
  Then(FoldLeft(LAMBDA acc, step : Then(acc, LAMBDA at : ReadPlan(files, at)),
                [queue |-> queue, parsed |-> <<>>], [step \in 0..Cardinality(DOMAIN files) |-> step]),
       LAMBDA at : at.parsed)

(* _merge_dicts(): lists are appended, also those of values.               *)
MergePlans(p, q) ==
  [p EXCEPT !.testpoints = @ \o q.testpoints,
            !.values = [k \in DOMAIN @ \cup DOMAIN q.values |->
                          (IF k \in DOMAIN @ THEN @[k] ELSE <<>>) \o
                          (IF k \in DOMAIN q.values THEN q.values[k] ELSE <<>>)]]

(* do_substitutions(): every wildcard of a test takes all of its values; a  *)
(* wildcard without values is replaced by nothing.                         *)
ExpandKey(names, values) ==
  FlattenSeq([i \in DOMAIN names |-> [v \in DOMAIN values |-> names[i] \o values[v]]])
ExpandTest(t, values) ==
  FoldLeft(LAMBDA names, k : ExpandKey(names, IF k \in DOMAIN values THEN values[k] ELSE <<"">>),
           <<t.stem>>, t.keys)
Substituted(tp, values) ==
  [tp EXCEPT !.tests = FlattenSeq([i \in DOMAIN @ |-> ExpandTest(@[i], values)])]

(* has_tags(): every wanted tag, and none of the unwanted ones.            *)
HasTags(tp, want, avoid) == want \subseteq tp.tags /\ avoid \cap tp.tags = {}

(* _sort(): stable, by stage.                                              *)
Sorted(tps) ==
  FlattenSeq([s \in DOMAIN Stages |-> Only(tps, {tp \in ToSet(tps) : tp.stage = Stages[s]})])

Testpoints(files, root, want, avoid) ==
  LET Kept(plan) == SelectSeq(plan.testpoints, LAMBDA tp : HasTags(tp, want, avoid))
      Expanded(kept, plan) == IF kept = <<>> THEN Exit
                              ELSE Sorted([i \in DOMAIN kept |-> Substituted(kept[i], plan.values)])
      Checked(plan) == IF Cardinality(Names(plan.testpoints)) # Len(plan.testpoints) THEN Exit
                       ELSE Expanded(Kept(plan), plan)
  IN Then(Imports(files, files[root].imports),
          LAMBDA imported :
            Checked(FoldLeft(LAMBDA acc, f : MergePlans(acc, files[f]), files[root], imported)))

(* get_stage_regressions(): one regression of each stage, of the tests of   *)
(* its testpoints in the order of their names, which the caller gives.     *)
NotMapped(tp) == tp.tests = <<"N/A">>
StageTests(tps, stage) ==
  UNION {ToSet(tps[i].tests) :
           i \in {k \in DOMAIN tps : tps[k].stage = stage /\ ~NotMapped(tps[k])}}
StageRegressions(tps, names) ==
  LET present == Only(Tail(Stages), {tp.stage : tp \in {x \in ToSet(tps) : ~NotMapped(x)}})
  IN [k \in DOMAIN present |->
        [name |-> present[k], tests |-> Only(names, StageTests(tps, present[k]))]]

-----------------------------------------------------------------------------
(* SimResults: one row of each test that ran, in the order of the results,  *)
(* with the times of its longest run, the first of them.                    *)
Row(name, ended) ==
  LET of == SelectSeq(ended, LAMBDA r : r.name = name)
      longest == FoldLeft(LAMBDA l, r : IF Longer(r.runtime, l.runtime) THEN r ELSE l, of[1], of)
  IN [name |-> name, total |-> Len(of), runtime |-> longest.runtime, simulated |-> longest.simulated,
      passing |-> Len(SelectSeq(of, LAMBDA r : r.status = "PASSED"))]
Table(ended) ==
  LET names == Firsts([i \in DOMAIN ended |-> ended[i].name])
  IN [i \in DOMAIN names |-> Row(names[i], ended)]

(* Testpoint.map_test_results(): the rows of its tests, and an empty row    *)
(* for each test without one, or for the testpoint if it has no tests.     *)
Empty(name) == [name |-> name, total |-> 0, passing |-> 0, runtime |-> None, simulated |-> None]
Mapped(tp, table) ==
  LET hits == SelectSeq(table, LAMBDA r : Contains(tp.tests, r.name))
      missing == SelectSeq(tp.tests, LAMBDA n : ~Has(n, hits))
  IN IF tp.tests = <<>> THEN <<Empty(tp.name)>>
     ELSE IF NotMapped(tp) THEN <<>>
     ELSE hits \o [i \in DOMAIN missing |-> Empty(missing[i])]
Unmapped(tps, table) ==
  SelectSeq(table, LAMBDA r : \A i \in DOMAIN tps : NotMapped(tps[i])
                                                   \/ ~Contains(tps[i].tests, r.name))

(* Testplan.map_test_results(): each row is counted at the first testpoint  *)
(* that has it, for its stage and for the grand total, and again nowhere.  *)
AllMapped(tps, table) ==
  LET Tagged(rows, stage) == [k \in DOMAIN rows |-> [stage |-> stage, row |-> rows[k]]]
  IN FlattenSeq([i \in DOMAIN tps |-> Tagged(Mapped(tps[i], table), tps[i].stage)])
     \o Tagged(Unmapped(tps, table), "unmapped")

(* A mutant of Counted: a row counts at each testpoint that has it.        *)
CountedAgain(entries) == entries

Counted(entries) ==
  FoldLeft(LAMBDA acc, e : IF \E i \in DOMAIN acc : acc[i].row.name = e.row.name
                           THEN acc ELSE Append(acc, e), <<>>, entries)
Progress(tps, table, stage) ==
  LET rows == SelectSeq(Counted(AllMapped(tps, table)),
                        LAMBDA e : e.stage \in {stage} \cup (IF stage = "N.A." THEN {"unmapped"} ELSE {}))
      written == SelectSeq(rows, LAMBDA e : e.row.total # 0)
  IN [total |-> Len(rows), written |-> Len(written),
      passing |-> Len(SelectSeq(written, LAMBDA e : e.row.passing = e.row.total))]
GrandTotal(tps, table) ==
  FoldLeft(LAMBDA acc, e : [total |-> acc.total + e.row.total,
                            passed |-> acc.passed + e.row.passing],
           [total |-> 0, passed |-> 0], Counted(AllMapped(tps, table)))

-----------------------------------------------------------------------------
(* _gen_json_results(): the tests of a testpoint that ran, or all of them   *)
(* with map_full_testplan.  Stages and the overall result take the last     *)
(* row of each name.                                                       *)
Reported(tps, table, full) ==
  SelectSeq(AllMapped(tps, table), LAMBDA e : e.row.total # 0 \/ full)
LastByName(entries) ==
  [n \in {entries[i].row.name : i \in DOMAIN entries} |->
     LET of == SelectSeq(entries, LAMBDA e : e.row.name = n) IN of[Len(of)].row]
Summed(entries) ==
  LET rows == LastByName(entries)
  IN [total |-> MapThenSumSet(LAMBDA n : rows[n].total, DOMAIN rows),
      passed |-> MapThenSumSet(LAMBDA n : rows[n].passing, DOMAIN rows)]
StageResult(tps, table, full, stage) ==
  Summed(SelectSeq(Reported(tps, table, full), LAMBDA e : e.stage = stage))
FlowResult(tps, table, full) == Summed(Reported(tps, table, full))

(* A mutant of Buckets: only the runs are looked at.                       *)
BucketsOfRuns(ended) ==
  LET failed == {r \in ended : r.target = "run" /\ r.status \in {"FAILED", "KILLED"}}
  IN [m \in {r.message : r \in failed} |-> {r \in failed : r.message = m}]

(* BucketedFailures: the jobs, of any kind, that did not pass, by message,  *)
(* without those that give none.                                           *)
Buckets(ended) ==
  LET failed == {r \in ended : r.status \in {"FAILED", "KILLED"} /\ r.message # None}
  IN [m \in {r.message : r \in failed} |-> {r \in failed : r.message = m}]
=============================================================================
