--------------------------------- MODULE Modes ---------------------------------
(***************************************************************************)
(* Build modes, run modes, tests and regressions: modes.py, test.py and    *)
(* regression.py.  Each is a record of attributes read from Hjson.  The    *)
(* many lists of options are two: `build` for those a build uses, `run`    *)
(* for those a run uses; the scalars are one of each kind the code tells   *)
(* apart (with default "", with default None, and is_sim_mode).  Sub-modes are   *)
(* kept in a set by the code: here in the order given, which is any.       *)
(***************************************************************************)
EXTENDS Integers, Sequences, FiniteSets, FiniteSetsExt, SequencesExt

CONSTANTS
  None,  \* Python's None
  Exit   \* what a function returns that ends the program by an error

Lists == {"build", "run", "subs", "tests", "sims", "modes"}
Default(attr) == IF attr = "mode" THEN "" ELSE -1

(* get_sub_modes(): en_build_modes or en_run_modes; regressions have none.  *)
SubModes(m) == IF "subs" \in DOMAIN m THEN m.subs ELSE <<>>

Find(name, ms) == SelectInSeq(ms, LAMBDA m : m.name = name)
Has(name, ms) == Find(name, ms) # 0
Names(ms) == {ms[i].name : i \in DOMAIN ms}

(* An error in one step ends all that follow.                              *)
Then(x, Op(_)) == IF x = Exit THEN Exit ELSE Op(x)
AllOf(xs) == IF \E i \in DOMAIN xs : xs[i] = Exit THEN Exit ELSE xs

(* A list comprehension with a condition; the first of each value of a list; *)
(* a dict with a key set.                                                  *)
Only(seq, set) == FoldLeft(LAMBDA acc, x : IF x \in set THEN Append(acc, x) ELSE acc, <<>>, seq)
Firsts(seq) == FoldLeft(LAMBDA acc, x : IF Contains(acc, x) THEN acc ELSE Append(acc, x), <<>>, seq)
Put(f, key, value) == [k \in DOMAIN f \cup {key} |-> IF k = key THEN value ELSE f[k]]

-----------------------------------------------------------------------------
(* merge_mode(): is `inc` the same mode or a sub-mode of `own`, and is none *)
(* of the scalars set in both to different values?                         *)
MayMerge(own, inc) ==
  /\ inc.name \in {own.name} \cup ToSet(SubModes(own))
  /\ \A a \in (DOMAIN own \cap DOMAIN inc) \ (Lists \cup {"name"}) :
       own[a] \in {None, inc[a], Default(a)} \/ inc[a] \in {None, Default(a)}

(* A mutant of Extended: the other replaces it.                            *)
ExtendedReplaced(own, inc) == IF inc = <<>> THEN own ELSE inc

(* A list is extended by the other unless they are equal, a scalar keeps    *)
(* its value unless it is unset.                                           *)
Extended(own, inc) == IF own = inc THEN own ELSE own \o inc
MergedAttr(own, inc, a) ==
  IF a = "name" \/ a \notin DOMAIN inc \/ inc[a] = None THEN own[a]
  ELSE IF own[a] = None THEN inc[a]
  ELSE IF a \in Lists THEN Extended(own[a], inc[a])
  ELSE IF inc[a] = Default(a) THEN own[a] ELSE inc[a]

(* The sub-modes are then made unique, without the mode itself.            *)
Uniquified(subs, name) == Firsts(Only(subs, ToSet(subs) \ {name}))
Merged(own, inc) ==
  [a \in DOMAIN own |-> IF a = "subs" THEN Uniquified(MergedAttr(own, inc, a), own.name)
                                      ELSE MergedAttr(own, inc, a)]
MergeMode(own, inc) == IF MayMerge(own, inc) THEN Merged(own, inc) ELSE Exit
MergeAt(ms, i, inc) == Then(MergeMode(ms[i], inc), LAMBDA m : [ms EXCEPT ![i] = m])

(* Pass 1 of create_modes(), create_tests() and create_regressions(): what  *)
(* is declared more than once under a name is merged.                      *)
AddOrMerge(ms, d) == IF Has(d.name, ms) THEN MergeAt(ms, Find(d.name, ms), d) ELSE Append(ms, d)
Declare(acc, d) == IF acc = Exit THEN Exit ELSE AddOrMerge(acc, d)
Declared(first, dicts) == FoldLeft(Declare, first, dicts)

-----------------------------------------------------------------------------
(* The attributes that tests, modes and regressions have once they are read. *)
Optional == {None} \cup Int
TestsRead ==
  [name : STRING, sim : Int, mode : STRING, reseed : Optional, timeout : Optional,
   build : Seq(STRING), run : Seq(STRING), subs : Seq(STRING)]
ModesRead == TestsRead \cup [name : STRING, run : Seq(STRING), subs : Seq(STRING)]
RegressionsRead ==
  [name : STRING, tests : {None} \cup Seq(STRING), sims : Seq(STRING), modes : Seq(STRING),
   reseed : Optional, build : Seq(STRING), run : Seq(STRING)]

(* A mutant of MergeSubMode: the sub-mode is merged but not expanded.      *)
MergeSubModeShallow(merge, ms, i, sub, top) ==
  IF Has(sub, ms) THEN MergeAt(ms, i, ms[Find(sub, ms)]) ELSE Exit

(* Pass 2: merge_sub_modes(), which finds a sub-mode, expands it by calling *)
(* itself (`merge` here) and merges it.                                    *)
MergeSubMode(merge, ms, i, sub, top) ==
  IF ms = Exit THEN Exit
  ELSE IF ~Has(sub, ms) THEN Exit
  ELSE Then(merge[ms][Find(sub, ms)][top],
            LAMBDA expanded : MergeAt(expanded, i, expanded[Find(sub, ms)]))

(* It is called for the i-th mode, that named `top` or one of those it      *)
(* reaches.  The loop runs over the list that the first merge_mode()        *)
(* extends in place; later merges extend the list that replaced it.  A      *)
(* cycle is seen only where it passes through `top`; another one exhausts   *)
(* the stack, here after as many nested calls as there are modes: `left`    *)
(* is how many more there may be.                                          *)
ExpandSubModes(merge, ms, i, top) ==
  LET subs == SubModes(ms[i])
      first == MergeSubMode(merge, ms, i, subs[1], top)
      looped == Tail(Extended(subs, SubModes(first[Find(subs[1], first)])))
  IN IF first = Exit THEN Exit
     ELSE FoldLeft(LAMBDA acc, s : MergeSubMode(merge, acc, i, s, top), first, looped)
MergeSubModes(calls) ==
  LET merge[left \in 0..calls] ==
        [ms \in Seq(ModesRead) |-> [i \in Nat |-> [top \in STRING |->
           IF SubModes(ms[i]) = <<>> THEN ms
           ELSE IF left = 0 \/ (left < calls /\ ms[i].name = top) THEN Exit
           ELSE ExpandSubModes(merge[left - 1], ms, i, top)]]]
  IN merge[calls]

CreateModes(first, dicts) ==
  LET declared == Declared(first, dicts)
      merge == MergeSubModes(Len(declared))
  IN IF declared = Exit THEN Exit
     ELSE FoldLeft(LAMBDA acc, i : IF acc = Exit THEN Exit ELSE merge[acc][i][acc[i].name],
                   declared, [i \in 1..Len(declared) |-> i])

(* The build mode that there always is.                                    *)
ASSUME StringsAssumption == {"", "default"} \subseteq STRING
DefaultBuildMode ==
  [name |-> "default", sim |-> 0, mode |-> "", reseed |-> None,
   timeout |-> None, build |-> <<>>, run |-> <<>>, subs |-> <<>>]

-----------------------------------------------------------------------------
(* create_tests(): what is left of each test once its run modes, those not  *)
(* enabled for all tests, are merged into it, its unset attributes are      *)
(* taken from the configuration, and the run options of its build mode are  *)
(* appended.  `is_sim_mode is True` (test.py:100) is false for the integers *)
(* that Hjson files give, so that no test is refused for its build mode.    *)
Local(subs, enabled) == Only(subs, ToSet(subs) \ ToSet(enabled))
MergeInto(acc, m) == IF acc = Exit THEN Exit ELSE MergeMode(acc, m)
WithRunModes(t, runModes, enabled) ==
  LET local == Local(t.subs, enabled)
  IN IF ~(ToSet(local) \subseteq Names(runModes)) THEN Exit
     ELSE FoldLeft(MergeInto, t, [k \in DOMAIN local |-> runModes[Find(local[k], runModes)]])
WithDefaults(t, globals) ==
  [t EXCEPT !.reseed = IF @ = None THEN globals.reseed ELSE @,
            !.timeout = IF @ = None THEN globals.timeout ELSE @,
            !.mode = IF @ = "" THEN globals.mode ELSE @]
WithBuildMode(t, buildModes) ==
  IF ~Has(t.mode, buildModes) THEN Exit
  ELSE [t EXCEPT !.run = @ \o buildModes[Find(t.mode, buildModes)].run]

CreateTests(dicts, buildModes, runModes, globals) ==
  LET Complete(t) == Then(WithRunModes(t, runModes, globals.runModes),
                          LAMBDA u : WithBuildMode(WithDefaults(u, globals), buildModes))
  IN Then(Declared(<<>>, dicts),
          LAMBDA tests : AllOf([i \in DOMAIN tests |-> Complete(tests[i])]))

(* create_regressions(): a regression takes the options of its sim modes    *)
(* and run modes that are not enabled for all tests, and keeps the tests    *)
(* that exist, in the order in which a set of them iterates.  Its name may  *)
(* not be `known` as that of a test, of this or an earlier configuration.   *)
SimModesFit(r, buildModes) ==
  \A s \in ToSet(r.sims) :
    /\ Has(s, buildModes)
    /\ buildModes[Find(s, buildModes)].sim # 0
    /\ ToSet(buildModes[Find(s, buildModes)].subs) \cap ToSet(r.sims) = {}
OptionsOf(names, ms, attr) ==
  LET Attr(m) == IF attr \in DOMAIN m THEN m[attr] ELSE <<>>
  IN FlattenSeq([k \in DOMAIN names |-> Attr(ms[Find(names[k], ms)])])
CompleteRegression(r, tests, buildModes, runModes, globals, setOrder) ==
  LET sims == Local(r.sims, globals.buildModes)
      modes == Local(r.modes, globals.runModes)
  IN IF ~SimModesFit(r, buildModes) \/ ~ToSet(r.modes) \subseteq Names(runModes) THEN Exit
     ELSE
     [r EXCEPT !.build = @ \o OptionsOf(sims, buildModes, "build"),
               !.run = @ \o OptionsOf(sims, buildModes, "run") \o OptionsOf(modes, runModes, "run"),
               !.tests = IF @ = None THEN [i \in DOMAIN tests |-> tests[i].name]
                         ELSE Only(setOrder, ToSet(@) \cap Names(tests))]

CreateRegressions(dicts, tests, known, buildModes, runModes, globals, setOrder) ==
  IF Names(dicts) \cap known # {} THEN Exit
  ELSE Then(Declared(<<>>, dicts),
            LAMBDA regrs : AllOf([i \in DOMAIN regrs |->
              CompleteRegression(regrs[i], tests, buildModes, runModes, globals, setOrder)]))

-----------------------------------------------------------------------------
(* merge_global_opts() and merge_regression_opts(): each adds options to    *)
(* the tests of a list, once for each time a test is in it, and to their    *)
(* build modes, once each.                                                 *)
AddOptions(tests, buildModes, names, build, run) ==
  LET Times(n) == Len(Only(names, {n}))
      built == {tests[Find(n, tests)].mode : n \in ToSet(names)}
  IN [tests |-> [i \in DOMAIN tests |->
                  [tests[i] EXCEPT !.run = @ \o FlattenSeq([k \in 1..Times(tests[i].name) |-> run])]],
      modes |-> [i \in DOMAIN buildModes |->
                  [buildModes[i] EXCEPT !.build = IF buildModes[i].name \in built
                                                  THEN @ \o build ELSE @]]]
=============================================================================
