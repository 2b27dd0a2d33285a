----------------------------- MODULE MCScheduler -----------------------------
(***************************************************************************)
(* Instances of Scheduler for TLC.                                         *)
(***************************************************************************)
EXTENDS Scheduler, TLC

(* Two builds, a run that needs both, and a merge that needs one of a      *)
(* build and the run: both ways to count dependencies, several dependents  *)
(* of one job, and a chain along which a cancellation recurses.            *)
FlowJobs == {"build1", "build2", "run", "merge"}
FlowDeps == [build1 |-> {}, build2 |-> {}, run |-> {"build1", "build2"},
             merge |-> {"build2", "run"}]
FlowNeedsAll == [build1 |-> TRUE, build2 |-> TRUE, run |-> TRUE, merge |-> FALSE]
FlowRank == [build1 |-> 0, build2 |-> 1, run |-> 2, merge |-> 3]
FlowNeeds == [build1 |-> [lic |-> 1], build2 |-> [lic |-> 1], run |-> [lic |-> 2],
              merge |-> [lic |-> 0]]

OneBackend == {"local"}
AllLocal == [j \in FlowJobs |-> "local"]
NoMax == [b \in OneBackend |-> 0]
Licenses == {"lic"}
TwoLicenses == [lic |-> 2]
PassOrFail == {"PASSED", "FAILED"}

(* Ready jobs that compete: for a slot, for a backend that takes one job   *)
(* at a time, and for two resources.  The job of highest priority needs    *)
(* most, so that jobs of lower priority overtake it.                       *)
RaceJobs == {"a", "b", "c", "d"}
RaceDeps == [a |-> {}, b |-> {}, c |-> {}, d |-> {"a"}]
RaceNeedsAll == [j \in RaceJobs |-> TRUE]
RaceRank == [a |-> 0, b |-> 1, c |-> 2, d |-> 3]
TwoBackends == {"farm", "local"}
RaceBackendOf == [a |-> "local", b |-> "local", c |-> "farm", d |-> "farm"]
RaceBackendMax == [farm |-> 0, local |-> 1]
RaceResources == {"disk", "lic"}
RaceLimit == [disk |-> 2, lic |-> 1]
RaceNeeds == [a |-> [disk |-> 2, lic |-> 1], b |-> [disk |-> 0, lic |-> 1],
              c |-> [disk |-> 1, lic |-> 0], d |-> [disk |-> 1, lic |-> 0]]
OnlyPass == {"PASSED"}
=============================================================================
