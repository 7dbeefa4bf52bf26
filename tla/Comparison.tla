----------------------------- MODULE Comparison -----------------------------
(***************************************************************************)
(* The statistics of a job and the comparison of two (apps/eval-platform/  *)
(* src/platform/statistics.ts, comparison.ts, JobStore.compareJobs):       *)
(* everything is counted from the plan rows, in queries of their own,      *)
(* while the worker still decides the candidate's trials.  The baseline    *)
(* ended before.  Rates, the Wilson interval and labels are left out.      *)
(***************************************************************************)
EXTENDS Integers, FiniteSets

CONSTANTS CompareCases,  \* cases of the baseline
          Repetitions    \* trials of each

ASSUME ComparisonAssumption == IsFiniteSet(CompareCases) /\ Repetitions \in Nat \ {0}

VARIABLES baselineRows,  \* per case: trials by verdict, of the baseline
          rows,          \* the same of the candidate
          status,        \* of the candidate
          differs,       \* conditions in which the two jobs' snapshots differ
          reader         \* where compareJobs is and what it has read

compareVars == <<baselineRows, rows, status, differs, reader>>

Counts == [pass : 0..Repetitions, fail : 0..Repetitions,
           unknown : 0..Repetitions, pending : 0..Repetitions]
Planned(n) == n.pass + n.fail + n.unknown + n.pending
Decided == {n \in Counts : Planned(n) = Repetitions /\ n.pending = 0 /\ n.unknown = 0}

(* "content": the dataset, its frozen digest, the cases and repetitions;    *)
(* "harness": its type; "environment": node, platform, lock file, graders.  *)
Conditions == {"content", "harness", "environment"}

Waiting == [at |-> "idle", seen |-> "none", comparable |-> FALSE, flipped |-> {}, delta |-> 0]

CompareInit ==
    /\ baselineRows \in [CompareCases -> Decided]
    /\ rows = [c \in CompareCases |->
                  [pass |-> 0, fail |-> 0, unknown |-> 0, pending |-> Repetitions]]
    /\ status = "queued"
    /\ differs \in {{}} \cup {{d} : d \in Conditions}
    /\ reader = Waiting

-----------------------------------------------------------------------------
(* The candidate's job.  A job is completed when none of its trials is      *)
(* pending; it may end otherwise at any time (EvalJobs).                    *)
Decide ==
    /\ status = "running"
    /\ \E c \in CompareCases, v \in {"pass", "fail", "unknown"} :
           /\ rows[c].pending > 0
           /\ rows' = [rows EXCEPT ![c][v] = @ + 1, ![c].pending = @ - 1]
    /\ UNCHANGED <<baselineRows, status, differs, reader>>

Advance ==
    /\ \/ status = "queued" /\ status' \in {"running", "cancelled"}
       \/ /\ status = "running"
          /\ \/ status' \in {"failed", "cancelled"}
             \/ status' = "completed" /\ \A c \in CompareCases : rows[c].pending = 0
    /\ UNCHANGED <<baselineRows, rows, differs, reader>>

-----------------------------------------------------------------------------
(* compareJobs(): both jobs are read, then the statistics of each.          *)
Sum(r, v) == LET add[s \in SUBSET CompareCases] ==
                     IF s = {} THEN 0
                     ELSE LET c == CHOOSE x \in s : TRUE IN r[c][v] + add[s \ {c}]
             IN  add[CompareCases]

(* Mutant: the counts are read before the job.                              *)
GetJobsLate ==
    /\ reader.at = "idle"
    /\ reader' = [reader EXCEPT !.at = "cases", !.seen = status,
                      !.comparable = Sum(rows, "unknown") = 0]
    /\ UNCHANGED <<baselineRows, rows, status, differs>>

GetJobs ==
    /\ reader.at = "idle"
    /\ reader' = [reader EXCEPT !.at = "counts", !.seen = status]
    /\ UNCHANGED <<baselineRows, rows, status, differs>>

(* What is compared of the two snapshots: the environment and the grader    *)
(* only by the type of the harness.                                         *)
SameConditions == differs \cap {"content", "harness"} = {}

(* planCounts() and compareExperimentSides' reasons.                        *)
CountPlans ==
    /\ reader.at = "counts"
    /\ reader' = [reader EXCEPT
           !.at = "cases",
           !.comparable = /\ reader.seen = "completed"
                          /\ SameConditions
                          /\ Sum(rows, "unknown") = 0 /\ Sum(rows, "pending") = 0,
           !.delta = Sum(rows, "pass") - Sum(baselineRows, "pass")]
    /\ UNCHANGED <<baselineRows, rows, status, differs>>

AllPass(n) == n.pass = Planned(n)

(* caseCounts(), another query, and the cases that have flipped.            *)
CountCases ==
    /\ reader.at = "cases"
    /\ reader' = [reader EXCEPT
           !.at = "done",
           !.flipped = IF ~reader.comparable THEN {}
                       ELSE {<<c, "regressed">> : c \in {x \in CompareCases :
                                 AllPass(baselineRows[x]) /\ ~AllPass(rows[x])}}
                       \cup {<<c, "improved">> : c \in {x \in CompareCases :
                                 ~AllPass(baselineRows[x]) /\ AllPass(rows[x])}}]
    /\ UNCHANGED <<baselineRows, rows, status, differs>>

CompareNext == Decide \/ Advance \/ GetJobs \/ CountPlans \/ CountCases

-----------------------------------------------------------------------------
(* A comparison that is shown is of two finished experiments: whatever the  *)
(* worker did between the queries, the difference and the flipped cases are *)
(* those of the rows as they stay, and they do not contradict each other    *)
(* (comparison.ts 3-8).                                                     *)
ComparedIsFinal ==
    reader.at = "done" /\ reader.comparable =>
        /\ status = "completed"
        /\ \A c \in CompareCases : rows[c] \in Decided
        /\ reader.delta = Sum(rows, "pass") - Sum(baselineRows, "pass")
        /\ reader.delta > 0 => \E c \in CompareCases : rows[c].pass > baselineRows[c].pass
        /\ \A c \in CompareCases :
               <<c, "regressed">> \in reader.flipped => rows[c].pass < baselineRows[c].pass

=============================================================================
