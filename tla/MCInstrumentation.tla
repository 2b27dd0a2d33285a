--------------------------- MODULE MCInstrumentation ---------------------------
(***************************************************************************)
(* An instance of Instrumentation for TLC: a build and two seeds of a test *)
(* that need it; and the metrics of earlier runs of two seeds of one test,  *)
(* one of another with another tool, and their build, at all times.        *)
(***************************************************************************)
EXTENDS Instrumentation

MCJobs == {"build", "run.1", "run.2"}
MCDeps == [build |-> {}] @@ [j \in {"run.1", "run.2"} |-> {"build"}]
MCNeedsAll == [j \in MCJobs |-> TRUE]
MCSeeded == {"run.1", "run.2"}
MCMetaOf == [j \in MCJobs |-> [name |-> IF j = "build" THEN "build" ELSE "run", tool |-> "vcs",
                               target |-> IF j = "build" THEN "build" ELSE "run", block |-> "uart"]]
MCRequested == {{"meta", "timing"}, {"compute"}, {"meta", "timing", "compute"}}

Seed(id, name, tool, block) ==
  [id |-> id, seeded |-> TRUE,
   meta |-> [name |-> name, tool |-> tool, target |-> "run", block |-> block, status |-> "PASSED"]]
EarlierJobs ==
  <<Seed("smoke.1", "smoke", "vcs", "uart"), Seed("smoke.2", "smoke", "vcs", "uart"),
    Seed("smoke.3", "smoke", "vcs", "uart"), Seed("rand.1", "rand", "xcelium", "spi")>>
Spans == {[start |-> None, end |-> 4]} \cup
         {s \in [start : 0..3, end : 1..4] : s.start < s.end}
Before(s, t) == s.start = None \/ (t.start # None /\ (s.start < t.start \/ (s.start = t.start /\ s.end <= t.end)))
SeedSpans == {f \in [DOMAIN EarlierJobs -> Spans] : Before(f[1], f[2]) /\ Before(f[2], f[3])}
MCEarlier ==
  {[start |-> w, end |-> IF w = None THEN None ELSE 5, jobs |->
      [k \in DOMAIN EarlierJobs |->
         [EarlierJobs[k] EXCEPT !.meta = IF meta THEN @ ELSE None] @@ f[k]]] :
     w \in {0, None}, meta \in BOOLEAN, f \in SeedSpans}
=============================================================================
