------------------------------ MODULE Judging ------------------------------
(***************************************************************************)
(* How the work of an agent on a benchmark case is judged (apps/eval-      *)
(* platform/src/platform/harness.ts and the adapters and graders of        *)
(* packages/eval-engine): the files it has changed are copied into a fresh *)
(* workspace that has the tests, or are made a patch for the official      *)
(* harness.  A file is one of four: of the program, in a directory the     *)
(* repository does not have, a test, or the one at the place of the script *)
(* of the verifier.                                                        *)
(***************************************************************************)
EXTENDS Integers, FiniteSets

CONSTANT MaxAgentEdits \* bound on what the agent does to its files

VARIABLES harness,   \* "codeden" for both repository benchmarks, "humaneval", "terminal", "official"
          tree,      \* the workspace of the agent
          gitIndex,  \* what git diff compares it with
          edits,     \* counted for the bound only
          judging,   \* "agent", "apply", "grade", "official", "judged"
          pending,   \* diffs that have not been applied
          checkTree, \* the verification workspace
          baseline,  \* its snapshot
          verdict    \* "none", "passed", "failed", "error"

judgeVars == <<harness, tree, gitIndex, edits, judging, pending, checkTree, baseline, verdict>>

Files == {"program", "newdir", "test", "verifier"}

(* A test of the case is in the repository before the test patch or not.    *)
Fixtures ==
    {[f \in Files |-> CASE f = "program" -> "base" [] f = "test" -> test [] OTHER -> "absent"] :
        test \in {"base", "absent"}}

JudgeInit ==
    /\ harness \in {"codeden", "humaneval", "terminal", "official"}
    /\ tree \in Fixtures /\ gitIndex = tree /\ edits = 0
    /\ judging = "agent" /\ pending = {} /\ checkTree = tree /\ baseline = tree
    /\ verdict = "none"

(* Of the workspace the snapshot was taken of.                              *)
ChangedPaths(now, snapshot) == {f \in Files : now[f] # snapshot[f]}

AgentEdits(f, content) ==
    /\ judging = "agent" /\ edits < MaxAgentEdits
    /\ tree' = [tree EXCEPT ![f] = content] /\ edits' = edits + 1
    /\ UNCHANGED <<harness, gitIndex, judging, pending, checkTree, baseline, verdict>>

AgentCommits ==
    /\ judging = "agent" /\ gitIndex # tree
    /\ gitIndex' = tree
    /\ UNCHANGED <<harness, tree, edits, judging, pending, checkTree, baseline, verdict>>

Judged(v) == judging' = "judged" /\ verdict' = v

(* The workspace of the judge: with the test patch, with the verifier of    *)
(* the task, or as the agent got it.  Its snapshot is taken with them in.   *)
WithTests(fixture) ==
    CASE harness = "codeden" -> [fixture EXCEPT !.test = "patched"]
      [] harness = "terminal" -> [fixture EXCEPT !.verifier = "script"]
      [] OTHER -> fixture

CreateVerification(ok) ==
    /\ judging = "agent" /\ harness # "official"
    /\ pending' = ChangedPaths(tree, baseline)
    /\ IF ok THEN checkTree' = WithTests(baseline) /\ baseline' = checkTree'
             /\ judging' = "apply" /\ UNCHANGED verdict
       ELSE Judged("error") /\ UNCHANGED <<checkTree, baseline>>
    /\ UNCHANGED <<harness, tree, gitIndex, edits>>

(* Mutant: a deletion is written as an empty file.                          *)
ApplyDiffNoDelete(f) ==
    /\ judging = "apply" /\ f \in pending
    /\ IF tree[f] = "binary" \/ f = "newdir" THEN Judged("error") /\ UNCHANGED <<pending, checkTree>>
       ELSE /\ checkTree' = [checkTree EXCEPT ![f] = IF tree[f] = "absent" THEN "edited" ELSE tree[f]]
            /\ pending' = pending \ {f}
            /\ UNCHANGED <<judging, verdict>>
    /\ UNCHANGED <<harness, tree, gitIndex, edits, baseline>>

(* One diff of the submission.  A binary file is refused, and writeFile     *)
(* does not make directories.                                               *)
ApplyDiff(f) ==
    /\ judging = "apply" /\ f \in pending
    /\ IF tree[f] = "binary" \/ f = "newdir" THEN Judged("error") /\ UNCHANGED <<pending, checkTree>>
       ELSE /\ checkTree' = [checkTree EXCEPT ![f] = tree[f]]
            /\ pending' = pending \ {f}
            /\ UNCHANGED <<judging, verdict>>
    /\ UNCHANGED <<harness, tree, gitIndex, edits, baseline>>

(* HumanEval writes its verifier when all is applied.                       *)
BeginGrading ==
    /\ judging = "apply" /\ pending = {}
    /\ judging' = "grade"
    /\ checkTree' = IF harness = "humaneval" THEN [checkTree EXCEPT !.verifier = "script"] ELSE checkTree
    /\ UNCHANGED <<harness, tree, gitIndex, edits, pending, baseline, verdict>>

(* gradeAll: protected paths first, and the command whatever they say; one  *)
(* that cannot be run or times out is an error.                             *)
ProtectedUnchanged == harness # "codeden" \/ "test" \notin ChangedPaths(checkTree, baseline)

GradeAll(command) ==
    /\ judging = "grade"
    /\ Judged(CASE command = "throws" -> "error"
                [] command = "passes" /\ ProtectedUnchanged -> "passed"
                [] OTHER -> "failed")
    /\ UNCHANGED <<harness, tree, gitIndex, edits, pending, checkTree, baseline>>

(* workspacePatch, of what is not in the index of git.                      *)
WorkspacePatch == ChangedPaths(tree, gitIndex)

MakePatch ==
    /\ judging = "agent" /\ harness = "official"
    /\ IF WorkspacePatch = {} THEN Judged("failed") ELSE judging' = "official" /\ UNCHANGED verdict
    /\ UNCHANGED <<harness, tree, gitIndex, edits, pending, checkTree, baseline>>

(* The official harness and its report: an id that is in none of its lists  *)
(* is unresolved; without a report the verification throws.                 *)
OfficialVerdict(report) ==
    /\ judging = "official"
    /\ Judged(CASE report = "resolved" -> "passed"
                [] report \in {"infra_failure", "error", "none"} -> "error"
                [] OTHER -> "failed")
    /\ UNCHANGED <<harness, tree, gitIndex, edits, pending, checkTree, baseline>>

JudgeNext ==
    \/ \E f \in Files, content \in {"base", "edited", "binary", "absent"} : AgentEdits(f, content)
    \/ AgentCommits \/ BeginGrading \/ MakePatch
    \/ \E ok \in BOOLEAN : CreateVerification(ok)
    \/ \E f \in Files : ApplyDiff(f)
    \/ \E command \in {"passes", "fails", "throws"} : GradeAll(command)
    \/ \E report \in {"resolved", "infra_failure", "error", "unresolved", "missing", "none"} :
          OfficialVerdict(report)

(* What the grader finds at the place of the script: in the repository      *)
(* benchmarks what the agent has put there, the dataset's own over anything *)
(* in HumanEval, which writes it last, and in Terminal-Bench, where it is   *)
(* there first, the dataset's unless the submission has such a file.        *)
VerifierFor(submitted) ==
    CASE harness = "codeden" -> submitted
      [] harness = "terminal" /\ submitted # "absent" -> submitted
      [] OTHER -> "script"

(* Graders see all the agent has done and nothing else, whatever it has     *)
(* added, changed and deleted, with the script of the verifier put in       *)
(* before or after it; and a repository case is passed with the tests of    *)
(* the dataset only (harness.ts 708-736, unchanged-paths.grader.ts 15-30).  *)
GradedAsSubmitted ==
    harness # "official" /\ verdict \in {"passed", "failed"} =>
        /\ \A f \in {"program", "newdir"} : checkTree[f] = tree[f]
        /\ harness = "codeden" /\ verdict = "passed" => checkTree["test"] = "patched"
        /\ checkTree["verifier"] = VerifierFor(tree["verifier"])

=============================================================================
