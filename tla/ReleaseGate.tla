----------------------------- MODULE ReleaseGate -----------------------------
(***************************************************************************)
(* The decision to promote a challenger (packages/eval-engine/src/         *)
(* optimization): benchmark runs of both agents are recorded with their    *)
(* evidence; release-check names runs of each, rebuilds from their trials  *)
(* what they show, and compares.  More tokens and more latency only warn,  *)
(* so their amounts are left out, as is who runs the checks; that the      *)
(* tokens of every request were counted is required, and is kept.          *)
(***************************************************************************)
EXTENDS Integers, FiniteSets, Sequences

CONSTANTS SuiteOf,           \* the suite of each case
          MinHoldoutCases,   \* policy.minHoldoutCases
          Batches,           \* sets of cases a run is asked for
          MaxRuns,           \* bound on the runs that are recorded
          MaxMishaps         \* bound on trials not resolved, runs stopped or not metered, changes

Cases == DOMAIN SuiteOf
RequiredSuites == {"regression", "validation", "holdout"}

ASSUME GateAssumption ==
    /\ \A c \in Cases : SuiteOf[c] \in RequiredSuites
    /\ IsFiniteSet(Cases) /\ Batches \subseteq SUBSET Cases
    /\ MinHoldoutCases \in Nat \ {0} /\ MaxRuns \in Nat

VARIABLES runs,      \* what the evaluation repository holds, by run id
          world,     \* the cases, the grader and the environment: changed since the first run
          mishaps,
          decision   \* the runs on which release-check has decided to promote

gateVars == <<runs, world, mishaps, decision>>

NoDecision == [champion |-> {}, challenger |-> {}]

WorldParts == {"cases", "grader", "environment"}

GateInit ==
    /\ runs = <<>> /\ mishaps = 0 /\ decision = NoDecision
    /\ world = [part \in WorldParts |-> FALSE]

-----------------------------------------------------------------------------
(* createRunEvidence() and the trials of a run.  The champion is measured   *)
(* before the challenger.  Of its model requests a run may have made none,  *)
(* and the usage of one may be missing.                                     *)
Trial == {"resolved", "unresolved", "infrastructure"}
Usage == {"none", "complete", "incomplete"}

Record(agent, completed, usage, trials) ==
    runs' = Append(runs, [agent |-> agent, completed |-> completed, usage |-> usage,
                          world |-> world, trials |-> trials])

Measured(agent) ==
    /\ Len(runs) < MaxRuns /\ decision = NoDecision
    /\ agent = "champion" => \A r \in DOMAIN runs : runs[r].agent = "champion"

RecordRun ==
    /\ \E agent \in {"champion", "challenger"}, cases \in Batches, usage \in Usage :
        /\ Measured(agent)
        /\ \E trials \in [cases -> Trial] :
               /\ usage = "none" => \A c \in cases : trials[c] # "resolved"
               /\ Record(agent, TRUE, usage, trials)
               /\ mishaps' = mishaps + Cardinality({c \in cases : trials[c] # "resolved"})
                                 + (IF usage = "incomplete" THEN 1 ELSE 0)
    /\ mishaps' <= MaxMishaps
    /\ UNCHANGED <<world, decision>>

(* A run that is stopped is not completed and lacks some of its trials.     *)
StopRun ==
    /\ mishaps < MaxMishaps /\ mishaps' = mishaps + 1
    /\ \E agent \in {"champion", "challenger"}, cases \in Batches :
        /\ Measured(agent)
        /\ \E c \in cases : Record(agent, FALSE, "complete", [d \in cases \ {c} |-> "resolved"])
    /\ UNCHANGED <<world, decision>>

(* The cases are edited, the grader is changed, or the next run is made     *)
(* elsewhere.                                                               *)
WorldChanges(part) ==
    /\ ~world[part] /\ runs # <<>> /\ decision = NoDecision
    /\ mishaps < MaxMishaps /\ mishaps' = mishaps + 1
    /\ world' = [world EXCEPT ![part] = TRUE]
    /\ UNCHANGED <<runs, decision>>

-----------------------------------------------------------------------------
(* buildReleaseEvidenceFromRuns(): it throws on a set of runs that cannot   *)
(* be one measurement of one agent.                                         *)
CasesOf(ids) == UNION {DOMAIN runs[r].trials : r \in ids}

Buildable(ids) ==
    /\ ids # {}
    /\ \A r \in ids : runs[r].completed
    /\ \A r, s \in ids :
           runs[r].agent = runs[s].agent /\ runs[r].world["environment"] = runs[s].world["environment"]
    /\ \A r, s \in ids : r # s => DOMAIN runs[r].trials \cap DOMAIN runs[s].trials = {}

RunOf(ids, c) == CHOOSE r \in ids : c \in DOMAIN runs[r].trials
TrialOf(ids, c) == runs[RunOf(ids, c)].trials[c]
InSuite(ids, s) == {c \in CasesOf(ids) : SuiteOf[c] = s}

IsResolved(t) == t = "resolved"

Passed(ids, s) == {c \in InSuite(ids, s) : IsResolved(TrialOf(ids, c))}
Digest(ids, part, cases) == {<<c, runs[RunOf(ids, c)].world[part]>> : c \in cases}
CaseSetDigest(ids, s) == Digest(ids, "cases", InSuite(ids, s))
DatasetDigest(ids) == Digest(ids, "cases", CasesOf(ids))
GraderDigest(ids) == Digest(ids, "grader", CasesOf(ids))

(* tokenUsageCoverage is 1.                                                 *)
EveryRequestMeasured(ids) ==
    /\ \A r \in ids : runs[r].usage # "incomplete"
    /\ \E r \in ids : runs[r].usage = "complete"

(* evaluateReleaseGate(), the blocking checks.                              *)
SameSuiteCoverage(a, b) ==
    \A s \in RequiredSuites :
        InSuite(a, s) # {} /\ CaseSetDigest(a, s) = CaseSetDigest(b, s)

(* Mutant: the passes are added up over the suites.                         *)
SuitesDoNotRegressTogether(a, b) ==
    Cardinality(UNION {Passed(b, s) : s \in RequiredSuites})
        >= Cardinality(UNION {Passed(a, s) : s \in RequiredSuites})

SuitesDoNotRegress(a, b) ==
    \A s \in RequiredSuites : Cardinality(Passed(b, s)) >= Cardinality(Passed(a, s))

InfrastructureOk(ids) ==
    100 * Cardinality({c \in CasesOf(ids) : TrialOf(ids, c) = "infrastructure"})
        <= Cardinality(CasesOf(ids))

Promote(a, b) ==
    /\ a \cap b = {}
    /\ EveryRequestMeasured(a) /\ EveryRequestMeasured(b)
    /\ \A r \in a, s \in b :
           runs[r].agent # runs[s].agent /\ runs[r].world["environment"] = runs[s].world["environment"]
    /\ DatasetDigest(a) = DatasetDigest(b) /\ GraderDigest(a) = GraderDigest(b)
    /\ SameSuiteCoverage(a, b)
    /\ Cardinality(InSuite(b, "holdout")) >= MinHoldoutCases
    /\ SuitesDoNotRegress(a, b)
    /\ InfrastructureOk(b)

(* release-check only reads: one that throws or refuses changes nothing.    *)
ReleaseCheck ==
    /\ decision = NoDecision
    /\ \E a, b \in SUBSET (1..Len(runs)) :
           /\ Buildable(a) /\ Buildable(b) /\ Promote(a, b)
           /\ decision' = [champion |-> a, challenger |-> b]
    /\ UNCHANGED <<runs, world, mishaps>>

GateNext ==
    \/ RecordRun \/ StopRun \/ ReleaseCheck
    \/ \E part \in WorldParts : WorldChanges(part)

-----------------------------------------------------------------------------
(* What every promotion rests on, told from the recorded trials alone: each *)
(* case of the benchmark is decided once for each agent, on the same        *)
(* version, by the same grader and in the same environment, by a completed  *)
(* run that left no request uncounted, and in no suite has the champion     *)
(* solved more, however the cases were split into runs (release-gate.ts     *)
(* 117-210, release-evidence-builder.ts 54-103).                            *)
Solved(ids) == {c \in Cases : \E r \in ids :
    /\ runs[r].completed
    /\ c \in DOMAIN runs[r].trials
    /\ runs[r].trials[c] = "resolved"}
PromotionSound ==
    decision # NoDecision =>
        LET a == decision.champion
            b == decision.challenger
        IN  /\ \A c \in CasesOf(a) \cup CasesOf(b) :
                   /\ Cardinality({r \in a : c \in DOMAIN runs[r].trials}) = 1
                   /\ Cardinality({r \in b : c \in DOMAIN runs[r].trials}) = 1
                   /\ runs[RunOf(a, c)].world = runs[RunOf(b, c)].world
            /\ \A r \in a \cup b : runs[r].completed /\ runs[r].usage # "incomplete"
            /\ \A s \in RequiredSuites :
                   Cardinality({c \in Solved(b) : SuiteOf[c] = s})
                       >= Cardinality({c \in Solved(a) : SuiteOf[c] = s})
            /\ {runs[r].agent : r \in a} # {runs[r].agent : r \in b}
=============================================================================
