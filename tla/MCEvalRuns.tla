----------------------------- MODULE MCEvalRuns -----------------------------
(***************************************************************************)
(* One job with two benchmark runs: r1 of two trials, which are alike, and *)
(* r2 of one.                                                              *)
(***************************************************************************)
EXTENDS MCEvalJobs, TLC

CONSTANTS j1, r1, r2, p1, p2, p3

BothRuns == (r1 :> j1) @@ (r2 :> j1)
TwoAndOne == (p1 :> r1) @@ (p2 :> r1) @@ (p3 :> r2)

TwinTrials == Permutations({p1, p2})
=============================================================================
