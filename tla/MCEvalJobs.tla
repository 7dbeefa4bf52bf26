----------------------------- MODULE MCEvalJobs -----------------------------
(***************************************************************************)
(* Instances of EvalJobs: one job of one trial, and two jobs of one trial  *)
(* each.                                                                   *)
(***************************************************************************)
EXTENDS EvalJobs

OneTrial == [p1 |-> "r1", p2 |-> "r2"]

OneRun    == [r1 |-> "j1"]
SoleTrial == [p1 |-> "r1"]

TwoJobs  == [r1 |-> "j1", r2 |-> "j2"]

Result(e, s, v, i, b) == [execution |-> e, submission |-> s, verification |-> v,
                          infrastructure |-> i, failure |-> "none", billed |-> b]

Passes       == Result("submitted", "valid", "passed", "ok", TRUE)
SetupFails   == Result("agent_error", "missing", "error", "setup_error", FALSE)
DiffersLate  == Result("agent_error", "missing", "error", "runtime_error", TRUE)
AbortedEarly == Result("timeout", "missing", "error", "ok", FALSE)

OnePass    == {Passes}
FewResults == {Passes, SetupFails}
AllResults == {Passes, SetupFails, DiffersLate, AbortedEarly}

=============================================================================
