--------------------------- MODULE MCLegacyAdapter ---------------------------
(***************************************************************************)
(* Instances of LegacyAdapter for TLC: three jobs, of which `a` is the one *)
(* that goes wrong where a constant takes a set of jobs.                   *)
(***************************************************************************)
EXTENDS LegacyAdapter

ThreeJobs == {"a", "b", "c"}
TwoJobs == {"a", "b"}
OnlyA == {"a"}
OnlyB == {"b"}
OnlyC == {"c"}
=============================================================================
