--------------------------- MODULE BackendContract ---------------------------
(***************************************************************************)
(* What the scheduler and a runtime backend owe each other, as the         *)
(* docstrings of RuntimeBackend (runtime/backend.py) state it, for the     *)
(* jobs of one backend.  Batches are handed over and completions reported  *)
(* together, so any number of jobs may move in one step.                   *)
(***************************************************************************)
CONSTANT Jobs   \* the jobs that run on the backend

VARIABLE offer  \* offer[j]: what has become of j between the two of them

(* "none": not with the backend; "asked": in a submit_many() that has not   *)
(* answered; "refused": the answer has no handle for it; "live": it has a   *)
(* handle and has not completed; "ended": it has; "repeated": twice.        *)
Offer == {"none", "asked", "refused", "live", "ended", "repeated"}

Init == offer = [j \in Jobs |-> "none"]

Moves(j, from, to) == offer[j] = from /\ offer'[j] = to

(* The scheduler submits only jobs that are not with the backend, and takes *)
(* back those that were refused.                                           *)
Ask(j)     == Moves(j, "none", "asked")
Requeue(j) == Moves(j, "refused", "none")

(* The backend answers what it was asked and completes what it accepted;    *)
(* the scheduler puts up with a second completion.                         *)
Answer(j) == Moves(j, "asked", "live") \/ Moves(j, "asked", "refused")
Report(j) == Moves(j, "live", "ended")
Repeat(j) == Moves(j, "ended", "repeated")

Next == /\ offer' \in [Jobs -> Offer]
        /\ \A j \in Jobs : \/ Ask(j) \/ Requeue(j)
                           \/ Answer(j) \/ Report(j) \/ Repeat(j)
                           \/ offer'[j] = offer[j]

Spec == Init /\ [][Next]_offer

-----------------------------------------------------------------------------
(* A job with a handle completes.                                          *)
HandlesComplete == \A j \in Jobs : offer[j] = "live" ~> offer[j] # "live"

(* Nothing completes twice.                                                *)
CompletedOnce == \A j \in Jobs : offer[j] # "repeated"
=============================================================================
