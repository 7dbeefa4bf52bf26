----------------------------- MODULE MCEvidence -----------------------------
(***************************************************************************)
(* What evaluations are judged by: one trial, the comparison of two jobs,  *)
(* the evidence for a release, the dataset of reviewed candidates, the     *)
(* verification of a turn, and the traces on their way to the queue.  They *)
(* share no state, so a behaviour is about one of them.                    *)
(***************************************************************************)
EXTENDS TrialRun, Comparison, ReleaseGate, CandidateStore, Verification, TraceOutbox

VARIABLE part

judgedVars == <<trialVars, compareVars, gateVars>>
storedVars == <<candidateVars, verifyVars, traceVars>>
evidenceVars == <<part, judgedVars, storedVars>>

(* A case of each suite, and runs of all of them or in two batches.         *)
OnePerSuite == [c \in {"c1", "c2", "c3"} |->
    CASE c = "c1" -> "regression" [] c = "c2" -> "validation" [] c = "c3" -> "holdout"]
WholeOrSplit == {{"c1", "c2", "c3"}, {"c1"}, {"c2", "c3"}}

Candidate(id, content, case, sound) ==
    [id |-> id, fingerprint |-> content, evalCase |-> case, sound |-> sound]

(* Two with the same content, with the same case, with the same id, and one *)
(* that was not reviewed.                                                   *)
Clashing == {Candidate(1, 1, 1, TRUE), Candidate(2, 1, 2, TRUE), Candidate(3, 2, 1, TRUE),
             Candidate(1, 3, 3, TRUE), Candidate(4, 4, 4, FALSE)}

(* A part that is not at work is in one initial state.                      *)
Init ==
    /\ part \in {"trial", "comparison", "gate", "candidates", "verification", "traces"}
    /\ TrialInit /\ CompareInit /\ GateInit /\ CandidateInit /\ VerifyInit /\ TraceInit
    /\ part # "trial" => submissionType = "files"
    /\ part # "comparison" =>
           differs = {} /\ \A c \in CompareCases : baselineRows[c].pass = Repetitions
    /\ part # "verification" => required /\ failing = {} /\ broken = 0
    /\ part # "traces" => \A t \in Traces : file[t] = "none"

Next ==
    /\ UNCHANGED part
    /\ \/ /\ part = "trial" /\ TrialNext /\ UNCHANGED <<compareVars, gateVars, storedVars>>
       \/ /\ part = "comparison" /\ CompareNext /\ UNCHANGED <<trialVars, gateVars, storedVars>>
       \/ /\ part = "gate" /\ GateNext /\ UNCHANGED <<trialVars, compareVars, storedVars>>
       \/ /\ part = "candidates" /\ CandidateNext
          /\ UNCHANGED <<judgedVars, verifyVars, traceVars>>
       \/ /\ part = "verification" /\ VerifyNext
          /\ UNCHANGED <<judgedVars, candidateVars, traceVars>>
       \/ /\ part = "traces" /\ TraceNext
          /\ UNCHANGED <<judgedVars, candidateVars, verifyVars>>

(* Who works on the project starts the agent again and again.               *)
Fairness ==
    /\ TrialFairness /\ TraceFairness
    /\ \A p \in Processes : WF_traceVars(part = "traces" /\ BeginRun(p))

Spec == Init /\ [][Next]_evidenceVars /\ Fairness

(* Nothing is left half done for good: a trial that has begun ends and      *)
(* gives its workspace back, and a trace that a crash has left out of the   *)
(* queue is taken up by a later run of the agent.                           *)
HalfDone == TrialGoesOn \/ TraceLeftOut
NothingHalfDone == HalfDone ~> ~HalfDone
=============================================================================
