---------------------------- MODULE MCLocalBackend ----------------------------
(***************************************************************************)
(* Instances of LocalBackend for TLC: the jobs to which each kind of event *)
(* may happen are among `a`, `b` and `c`.                                  *)
(***************************************************************************)
EXTENDS LocalBackend

OnlyA == {"a"}
OnlyB == {"b"}
ThreeJobs == {"a", "b", "c"}
OnlyC == {"c"}
NotA == {"b", "c"}
=============================================================================
