----------------------------- MODULE MCObservers -----------------------------
(***************************************************************************)
(* An instance of JobLifecycle and its observers for TLC: a diamond with a *)
(* merge that needs one of its dependencies to pass, as a coverage merge   *)
(* does; the two runs share a target, of which one has been run before.    *)
(***************************************************************************)
EXTENDS Observers

DiamondJobs == {"build", "run1", "run2", "merge"}
DiamondDeps == [build |-> {}, run1 |-> {"build"}, run2 |-> {"build"},
                merge |-> {"run1", "run2"}]
DiamondNeedsAll == [build |-> TRUE, run1 |-> TRUE, run2 |-> TRUE, merge |-> FALSE]
DiamondTargets == {"build", "run", "cov_merge"}
DiamondTargetOf == [build |-> "build", run1 |-> "run", run2 |-> "run", merge |-> "cov_merge"]
RunOnce == {"run1"}
=============================================================================
