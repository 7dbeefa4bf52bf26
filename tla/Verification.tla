---------------------------- MODULE Verification ----------------------------
(***************************************************************************)
(* The verification of a turn (packages/agent-runtime/src/verification):   *)
(* the required commands run once before the turn, for a baseline, and     *)
(* again when the agent proposes completion, between two looks at the      *)
(* paths it changed.  What the commands report is names of failing tests,  *)
(* or nothing but an exit code; a command may itself write files, and a    *)
(* background task may write while they run.                               *)
(***************************************************************************)
EXTENDS Integers, FiniteSets

CONSTANTS Tests,      \* tests; each is in a file of its own name
          MaxEdits    \* bound on the edits of a turn and of what runs beside it

ASSUME VerificationAssumption == IsFiniteSet(Tests) /\ MaxEdits \in Nat

VARIABLES required,   \* the plan has a required command; if not, its commands are optional
          failing,    \* tests that fail as the workspace is
          broken,     \* no test runs: 0, or which of two errors is printed instead
          testFiles,  \* test files of the workspace
          changed,    \* changedPaths() by what the task says of them
          baseline,   \* what the run before the turn has reported
          check,      \* where the verification is
          final,      \* what its run of the commands has reported
          quiet,      \* nothing has touched the work since the proposal
          edits

verifyVars == <<required, failing, broken, testFiles, changed, baseline, check, final, quiet, edits>>

(* "allowed" by the task, "other", "secret" (SensitivePathPolicy), "ignored" *)
(* (isIgnoredWorkspacePath).                                                *)
PathKind == {"allowed", "other", "secret", "ignored"}

(* toSnapshot(): the names parseFailingIdentities finds, the exit code and, *)
(* when there are no names, the digest of the output.                       *)
Snapshot ==
    [failing |-> IF broken # 0 THEN {} ELSE failing \cap testFiles,
     exitCode |-> IF broken # 0 \/ failing \cap testFiles # {} THEN 1 ELSE 0,
     fingerprint |-> broken]

NoRun == [failing |-> {}, exitCode |-> 0, fingerprint |-> 0]

VerifyInit ==
    /\ required \in BOOLEAN
    /\ failing \in SUBSET Tests
    /\ broken \in {0, 1}
    /\ testFiles = Tests
    /\ changed = {}
    /\ baseline = [run |-> Snapshot, files |-> testFiles]
    /\ check = "none" /\ final = NoRun /\ quiet = TRUE
    /\ edits = 0

-----------------------------------------------------------------------------
(* The work is touched: a test, or what it tests.                           *)
TestsChange ==
    /\ \/ \E t \in Tests :
              /\ failing' = IF t \in failing THEN failing \ {t} ELSE failing \cup {t}
              /\ UNCHANGED <<broken, testFiles>>
       \/ broken' \in {0, 1, 2} \ {broken} /\ UNCHANGED <<failing, testFiles>>
       \/ \E t \in testFiles : testFiles' = testFiles \ {t} /\ UNCHANGED <<failing, broken>>
    /\ quiet' = FALSE

(* By a tool call of the agent while nothing is verified, and by a          *)
(* background task at any time.                                             *)
Edit ==
    /\ edits < MaxEdits /\ edits' = edits + 1
    /\ TestsChange
    /\ \E k \in PathKind : changed' = changed \cup {k}
    /\ UNCHANGED <<required, baseline, check, final>>

(* An edit is undone: git no longer reports the path.                       *)
Revert ==
    /\ check = "none" /\ changed # {}
    /\ \E k \in changed : changed' = changed \ {k}
    /\ UNCHANGED <<required, failing, broken, testFiles, baseline, check, final, quiet, edits>>

-----------------------------------------------------------------------------
(* verifyDiffPolicy() of a task that names the paths it may change.         *)
DiffAllowed ==
    LET relevant == changed \ {"ignored"}
    IN  "secret" \notin relevant /\ relevant \subseteq {"allowed"} /\ relevant # {}

(* compareBaseline(), its returns in their order.                           *)
NoRegression(base, now) ==
    IF now.failing \ base.failing # {} THEN FALSE
    ELSE IF base.failing # {} \/ now.failing # {} THEN TRUE
    ELSE IF now.exitCode = 0 THEN TRUE
    ELSE base.exitCode # 0 /\ base.fingerprint = now.fingerprint

(* The agent proposes completion: the first look at the changed paths.      *)
Propose ==
    /\ check = "none"
    /\ check' = IF DiffAllowed THEN "files" ELSE "refused"
    /\ quiet' = TRUE
    /\ UNCHANGED <<required, failing, broken, testFiles, changed, baseline, final, edits>>

(* No test file of the baseline may be gone.  captureBaseline() makes none  *)
(* for a plan without a required command.                                   *)
ListTestFiles ==
    /\ check = "files"
    /\ check' = IF required => baseline.files \subseteq testFiles THEN "commands" ELSE "refused"
    /\ UNCHANGED <<required, failing, broken, testFiles, changed, baseline, final, quiet, edits>>

(* runVerificationCommands() for the required commands, verifyCommands()    *)
(* for the optional ones, which cannot fail the check.  A command may write *)
(* files of any kind, and the work itself, before or after the tests have   *)
(* run on it; and the exec of a required one that throws ends the           *)
(* verification without a verdict, whatever has been written until then.    *)
RunCommands ==
    /\ check = "commands"
    /\ TestsChange \/ UNCHANGED <<failing, broken, testFiles, quiet>>
    /\ \E written \in SUBSET PathKind : changed' = changed \cup written
    /\ \/ \E run \in {Snapshot, Snapshot'} :
              /\ final' = run
              /\ check' = IF required => NoRegression(baseline.run, run) THEN "diff" ELSE "refused"
       \/ required /\ check' = "none" /\ UNCHANGED final
    /\ UNCHANGED <<required, baseline, edits>>

(* Mutant: the look before the commands stands for the one after them.      *)
FinalDiffSkipped ==
    /\ check = "diff"
    /\ check' = "verified"
    /\ UNCHANGED <<required, failing, broken, testFiles, changed, baseline, final, quiet, edits>>

(* The second look, and mergeChecks() of the two.                           *)
FinalDiff ==
    /\ check = "diff"
    /\ check' = IF DiffAllowed THEN "verified" ELSE "refused"
    /\ UNCHANGED <<required, failing, broken, testFiles, changed, baseline, final, quiet, edits>>

(* The evidence goes back to the agent.                                     *)
Repair ==
    /\ check = "refused"
    /\ check' = "none"
    /\ UNCHANGED <<required, failing, broken, testFiles, changed, baseline, final, quiet, edits>>

(* The turn ends with or without a verdict, and the next one has a baseline *)
(* of its own.                                                              *)
NextTask ==
    /\ check \in {"none", "refused", "verified"}
    /\ baseline' = [run |-> Snapshot, files |-> testFiles]
    /\ check' = "none" /\ final' = NoRun
    /\ UNCHANGED <<required, failing, broken, testFiles, changed, quiet, edits>>

VerifyNext ==
    \/ Edit \/ Revert \/ Propose \/ ListTestFiles \/ RunCommands \/ FinalDiff
    \/ Repair \/ NextTask

-----------------------------------------------------------------------------
(* Work that is accepted, and that nothing else has touched meanwhile, has  *)
(* lost no test of the baseline, has every test passing that did, and has   *)
(* changed what the task allows and no more, whatever files the             *)
(* verification commands have written besides (completion-verifier.ts,      *)
(* regression-verifier.ts); one that writes the work itself has touched it. *)
(* A run in which no test reports is left to NewFailureRefused.             *)
AcceptedWork ==
    check = "verified" /\ quiet =>
        /\ DiffAllowed
        /\ required => baseline.files \subseteq testFiles
        /\ required /\ broken = 0 => failing \cap testFiles \subseteq baseline.run.failing

(* docs/STAGE_3_BASELINE_REGRESSION.md 67-73: an exit code that is not 0    *)
(* and cannot be explained by names is accepted only when the run before    *)
(* has failed with the same output.                                         *)
NewFailureRefused ==
    check = "verified" /\ required /\ final.fingerprint # 0 =>
        baseline.run.fingerprint = final.fingerprint
=============================================================================
