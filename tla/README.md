# A TLA+ verification of codeden

codeden is a coding agent (a command line program that works in an isolated Git
worktree of the user's project) together with an evaluation platform that runs
the agent on benchmark cases and keeps the results. This directory holds TLA+
models of the parts of it that are concurrent or can fail half way, TLC
configurations that model-check them, and proofs about most of them. Paths are
relative to the repository, without `src/` and, where it is clear, without
`packages/` or `apps/`.

## How to run

    tlc -config EvalJobs_Retry.cfg MCEvalJobs.tla     # a run of the table below
    tlapm EvalJobsProofs.tla                          # proofs, about 2.5 minutes
    tlapm AgentLoopProofs.tla                         # proofs, about 2 minutes
    tlapm WritebackProofs.tla                         # proofs, seconds
    tlapm EvalRunsProofs.tla                          # proofs, about 4 minutes
    tlapm EvidenceProofs.tla                          # proofs, about 1.5 minutes
    tlapm SessionProofs.tla                           # proofs, about 2.5 minutes
    tlapm PlatformProofs.tla                          # proofs, about 6 minutes
    tlapm RuntimeProofs.tla                           # proofs, about 5 minutes

`PROJECT.json` maps every definition to the source lines it stands for and
lists the components, the runs with their properties, and the hazards: the
places where this code is hard to test, each with the properties that watch it.
For each property it names mutated definitions with which the property fails.
They stand beside the definition they mutate, under a comment that begins
"Mutant", and are used by nothing else.

## Inventory

Two applications over four packages; arrows are calls.

    eval-platform: http -> service -> job-store, trace-store -> PostgreSQL, pg-boss
                   worker -> executor -> harness -> eval-runner -> trial-runner
                   web console <- HTTP polls, event stream
    agent:         agent-command <-> terminal-ui
                   agent-command -> agent-session -> agent-runner -> tools, models
                                 -> git-worktree-session -> writeback-coordinator
                                 -> trace capture -> trace outbox

| component | state | operations | hard behaviour | what makes it correct |
|---|---|---|---|---|
| jobs (`eval-platform/src/platform/job-store.ts`) | rows of jobs, benchmark runs, trial plans, execution attempts | create, cancel, delete, claim, finish, recover, reset for retry | transactions of HTTP handlers, workers and recovery timers interleave; any of them can fail or die | an ended job stays ended; ledger, plan and counter agree; nothing late is recorded |
| worker (`worker.ts`) | active jobs, their abort reasons, monitors | run, monitor, recover, stop | heartbeat against recovery, time limit, queue expiry, shutdown, crash | every claimed job ends |
| executor (`executor.ts`) | per benchmark run: phase, selected retries | run benchmark runs concurrently, retry preparation faults | `Promise.all` rejects while other loops go on | a completed job is decided; no trial is paid twice |
| repository (`eval-repository.ts`) | trial rows, ledger, counter | saveTrial, appendEvent | concurrent saves, lost replies | one entry per attempt |
| plans and verdicts (`trial-plan.ts`, `database.ts`) | none | deriveTrialOutcome, backfill of the migration | the order of the tests | a verdict rests on evidence |
| statistics, comparison (`statistics.ts`, `comparison.ts`) | what one reader has read | compareJobs | plan rows change between its queries | what is compared is final |
| harness (`harness.ts`) | build lock, images, workspaces of a trial | prepare environments, set up, judge | jobs and workers share images; aborts and deaths in a build | a ready environment has its image; the judge sees the submission and the dataset's tests |
| trial workspaces (`eval-engine/src/adapters/workspaces`) | semaphore, directories | set up, dispose | aborts while queued or handed a slot | no slot or directory is lost |
| trial runner (`eval-engine/src/application/trial-runner.ts`) | one trial | prepare, run agent against a timer, grade, persist, map failures, clean up | agent ignores its abort, saves whose reply is lost | the trial ends, once, with what it cost |
| trace review (`trace-store.ts`, `catalog.ts`) | uploads, drafts, dataset versions | receive, review, draft, publish | two reviewers between read and write | a decision is never taken back |
| live events (`event-recorder.ts`, `http.ts`) | sequence, rows, connection, page | emit, append, stream, reconnect | appends fail or commit out of order; connections break | the stream leaves out nothing; a viewer whose stream is not refused misses nothing |
| web console (`web/src/app/page.tsx`) | list, selection, detail, requests in flight | poll, select, create, cancel, delete | answers out of order, closures with an old selection | the page catches up |
| candidates (`eval-engine/src/candidates`) | a file per case, a lock directory | promote, list | two promoters, a death with the lock | the dataset can be read |
| release gate (`eval-engine/src/optimization`) | run records | record, build evidence, decide | cases edited between runs, trials missing or doubled | a promotion compares like with like |
| agent loop (`agent-runtime/src/agent/agent-runner.ts`) | messages, budgets, completion state | model turns, tool calls, approval, verification | abort, budget, breaker, retries | calls and results are paired; a status has its verdict; the run ends |
| model providers (`agent-runtime/src/models`) | a reply in pieces | stream, retry, continue | replies that break off or are cut | a reply is taken whole |
| verification (`agent-runtime/src/verification`) | baseline, diff | run commands before and after | commands write files; tests vanish or are renamed | no regression is accepted |
| session (`agent-runtime/src/session/agent-session.ts`, `context/`) | context, note, conversation | submit, fold, compact, clear, resume | a fold awaits the model while commands run; its save fails | the model is shown what the session counts |
| session store (`session/session-store.ts`) | four files | save, startTurn, load | torn appends, crashes, damaged summaries | a saved turn can be loaded |
| interactive program (`agent/src/agent-command.ts`) | sessions, tasks, question, snapshot | turns, new, resume, delete, exit | the first prompt runs beside commands | sessions stay apart |
| terminal (`agent/src/terminal-ui.ts`) | byte buffer, timer, line, prompt, messages | parse keys, ask, type replies | chunks end anywhere; a reply ends while it is typed | keys and replies come through |
| write-back (`workspace/`, `attempts/`) | checkout, worktree, verified snapshot, baselines, staging directory | verify, inspect, stage, back up, commit, roll back, discard | the user edits at any moment; any file operation fails; the process dies | no edit of the user is overwritten or lost; all or nothing |
| background tasks (`tools/background-task-manager.ts`) | processes, output windows | start, get, kill, killAll | abort before start, kill during start | an ended task has no process |
| subagents (`tools/builtins/subagent.ts`) | slots, queue | acquire, release, abort | a waiter is aborted as it is served | slots are exact |
| MCP clients (`mcp/`) | connection, pending requests | start, call, time out, close | exits and restarts, late replies | each request settles once, with its server |
| sandboxes (`sandbox/`) | process, container | run, time out, abort | the end races the timer and the abort | a command that was cut off is not a success |
| telemetry (`packages/telemetry`) | traces, queue, receipts | record, queue, recover, prune, deliver | crashes between any two steps, two processes | a captured trace is never lost |
| artifact store, dataset registry, repositories on files, CLI, built-in tools, memory and skills, core, launchers, charts, scripts | files, or none | | | see "Not modelled" |

## The modules

Each component module declares its own `CONSTANTS` and `VARIABLES`, an initial
predicate, one action per operation or step between two awaits, a next-state
relation and its properties. Modules that share no state are put together in an
MC module (`MCRuntime`, `MCEvidence`, `MCFiles`, `MCPlatform`): a variable
`part` says which of them a behaviour is about, the others stay in their
initial state. The states of such a run are the sum of those of its parts, and
its composite properties are conjunctions of a property of each part. What is
fair is stated per part: an action of another part is disabled.

Where components do share state, they are in one module or one EXTENDS: jobs,
worker, executor and repository in `EvalJobs`; session and store in
`SessionStore`; runner and provider in `ModelStream`; recorder, table, stream
and page in `LiveEvents`.

### EvalJobs, ExperimentLedger

One variable per column that decides something (`status`, `completed`,
`fresh` for a heartbeat younger than 30 s, `runStatus`, `lifecycle`, `judged`,
`attempts`, `ledger`) and per piece of process state (`pc` of
`EvalWorker.run`, `host`, `abort`, `beating`; `runPc`, `todo`, `active`,
`retry`, `runThrew` of `executeBenchmarkRun`; `trial` in flight). A database
transaction, or a statement outside one, is one action; so is everything a
process does between two awaits.

- `Create`, `Cancel`, `Delete` are the HTTP requests that change something.
- `Fetch`, `QueueExpire` are what the code relies on in pg-boss: one handler
  at a time per worker (`batchSize: 1`), an item that expires after 900 s frees
  the worker while the handler still runs, and no retry (`retryLimit: 0`).
- `EnterRun`, `Claim`, `BeginExecution`, `ExecutionSettles`, `FinishJob` are
  the straight line of `EvalWorker.run`; `ClaimFault`, `FinishFault`,
  `StartFails` its error paths.
- `Heartbeat` is one turn of the monitor with the abort it may cause;
  `HeartbeatAges` lets 30 s pass, for a job whose monitor is silent, or for any
  job when `SlowMonitor` (a stalled event loop, clock skew between hosts).
- `HarnessReady` to `DisposeRun` are the phases of `executeBenchmarkRun`;
  `BillTrial`, `EndTrial`, `EndTrialFault` are a trial as `TrialRun` models it,
  reduced to its result.
- `Recover`, `StopWorker`, `ExitWorker`, `CrashWorker`, `StartWorker` are the
  process around it.

`ResetPlan` takes one plan at a time because `resetPlansForRetry` is not a
transaction. A legacy job is one that was queued before the trial plans of
schema version 6: it has no plan rows, so `saveTrial` takes its other path.

`ExperimentLedger` is what a user of the platform may rely on: attempts are
recorded only while the job is open, an entry is never changed, a trial is
repeated at most once and only after a preparation fault without model
requests. `EvalJobs` implements it under a mapping of statuses to waiting, open
and closed, for jobs with plans (`ImplementsLedger`).

### TrialOutcome, TrialRun

`TrialOutcome` translates `deriveTrialOutcome`, `isTrialResolved`, the failure
classification and the CASE of the backfill, over results abstracted to the
fields these look at. `TrialRun` is `TrialRunner.run` with its two persists, the
`finally`, and the agent as a process of its own that may detach.

### AgentLoop, TaskState

One call of `AgentRunner.run` with `ToolExecutor`. `config` says what the run
was given (a verifier, tools, research tools, an approver, continuation), `pc`
where it is: requesting the model, executing the calls of the reply, waiting
for an approval, in a tool, verifying, backing off. Of the transcript only what
a provider insists on is kept: how many calls of the last reply are `open`, and
whether a message was pushed over open calls (`broken`). The model answers with
any calls, text, truncation or failure; tools succeed, fail and count as
research; the verifier passes or fails; the approver never answers if he does
not want to. The abort of the caller or of the run's timeout comes at any
moment. A submission is collected and then reported (`CollectSubmission`,
`ReportSubmission`): between the transition to `SUBMITTED` and the result lies
the storing of `agent.submitted`, which may throw, and then a task that is
submitted is reported as an error.

`TaskState` is what the life of a task promises: its state moves along
`ALLOWED_TRANSITIONS` and no other way (`transition()` throws), and one status is
reported, in a state that supports it, after which nothing changes. `AgentLoop`
implements it (`ImplementsTask`), the state being `machine` and the report the
status in `result`. The table of what supports what is read off the loop; it
allows an aborted or failing run to keep the state it had reached, and no task
to be reported as failed, or as anything, while its state is `RUNNING`.

### SessionFold, SessionStore

`SessionFold` has the two threads that can touch one session, the first prompt
and the commands, each with its place in `submit`, in a fold, in the save after
it. A fold computes from what it has seen, awaits the model, switches, saves,
and switches back when that fails. `conversation` is what the model is shown;
`note` and `context` what the session says it is.

`SessionStore` has the four files of a session and the `AgentSession` that
stores itself in them. A log is a sequence of lines, each of a generation
(`commitId`), and the state of its end: terminated, a fragment, a whole record
without its newline, or a fragment that has swallowed such a record. `step`
names the next file operation of the save under way: append every turn, append
the chat record, rename the settings, rename the summary (the commit), compact
both logs. Each may fail (`SaveFails`) or be cut off by the death of the process
(`Crash`), with what `CutOff` says it may leave. `phase` is where `submit` is.
A load is split into `Recovered` (`recoverSummary`), `Loadable`, `LoadedTurns`
and `LoadedSettings`. A process is the only one of its session: others are a
non-goal of `docs/SESSION_MANAGEMENT.md`.

### Writeback

The files of the user's checkout (`origin`, and `index` for what Git has), of
the worktree, `shown` (what `changedPaths` compares with), the verified
`snapshot`, the `baseline` digests of paths the session has written, and the
plan of the write-back under way. `pc` names the phase; each phase takes its
paths one at a time, in any order, so the user, who edits and commits at any
moment (`UserEdits`, `UserCommits`), and background commands of the agent
(`AgentWrites`) come in between. `Failing` names the phases in which an
operation may throw. There is no crash action: nothing is fair here, so a
behaviour may stop in any state, and `NothingLost` speaks of every state.

History variables: `mine` is what the user last put in a file or was given by a
completed delivery; `given` all that the base commit and the session put in it;
`contested` the files edited after verification, where the design accepts a
window (`docs/STAGE_5_CONFLICT_PATCH_PROCESS.md:168`), which the properties
leave out; `broken` says that a rename away or back has failed, after which
`FailedKeepsOrigin` shows what happens. A snapshot without files and no snapshot
are the same value: `/apply` refuses with either. Directories, links, sensitive
and ignored paths are conflicts by name in the code and left out.

### InteractiveShell

The program around the sessions: `/new`, `/resume` and `/delete` as the chain of
awaits each is, turns that ask questions, background tasks, exit. `terminal` is
whether it accepts input, `asker` who holds its one question. The first prompt
of `--prompt --interactive` (`first`) runs beside the commands. A session object
is the number of its creation, a session id what is stored.

### BackgroundTask, SubagentSlots, McpClient, SandboxRun

The things a tool call may start. `BackgroundTask` is one task (tasks share
nothing): its child, its temporary HOME, its timer, the window of output that is
kept, a reader that waits and reads. `SubagentSlots` is the queue for
`maxConcurrent` slots with aborts. `McpClient` is a client over stdio or SSE
that connects again on the next call; servers are numbered, so that a request
knows which it was sent to. A call waits for the connection before it is sent,
and a close may begin in between: a stdio client then has no process to write to, an
SSE client still has its endpoint (`CallSentLate`). `SandboxRun` is one command on the host or in a
container, with its own end, its timer and its abort.

### Verification, TraceOutbox

`Verification` takes the baseline before a turn and, at the proposal, looks at
the changed paths, runs the commands, looks again and compares. What commands
report is a set of names of failing tests, or an exit code and a fingerprint. They
may write any path, and tests or what these test, before or after the look that they
report on, also when their exec throws. Work that something else than the agent has
touched since it proposed it is not `quiet`, and `AcceptedWork` is about quiet work.
`TraceOutbox` has the traces on disk, the queue and the receipts, agent
processes that record, end, recover, prune and die, and an uploader (external)
that may die between receipt and removal.

### ModelStream, TerminalInput, Typewriter

`ModelStream` is a reply as it comes in chunks from either provider, with
breaks, and what the runner does with it: retry, continue after the token limit,
execute, send a text back for want of research, of a source or of a verification that
passes, or end with it. `responses` are the values `finalResponse` takes, each as the
replies it was put together from; `streamed` counts what was shown of each reply.
`TerminalInput` turns what was pressed into bytes, delivers them in chunks cut
anywhere, and has the parser with its 50 ms timer, the prompt, the line editor.
Keys that send one byte stand for themselves, `left` and `wheel` for the two
kinds of sequences. A bracket typed after the escape key is left out
(`KeysAssumption`): its bytes are those of a sequence, for any reader of them.
`Typewriter` shows one reply after another letter by letter behind what has
arrived, while other messages come and messages are cleared.

### Judging, EnvironmentBuild, WorkspaceSetup

`Judging` follows four kinds of files from the agent's workspace to the judge's,
for each harness, the place of the verifier's script included, where the agent's
workspace has no file until the agent makes one. `EnvironmentBuild` has jobs of several workers that prepare
one image under the directory lock, the script with its git and docker commands,
and commands that outlive a killed script. `WorkspaceSetup` has the trials of a
job at the setup semaphore, once for the agent and once for the judge.

### Comparison, ReleaseGate, CandidateStore, CaseReview

`Comparison` reads two jobs in queries of their own while the worker decides
trials. `ReleaseGate` records runs while the cases, the grader or the environment
may change between them and requests may go uncounted, and decides. `CandidateStore` is two promoters with the directory lock.
`CaseReview` is receive, review, draft and publish under READ COMMITTED with two
reviewers, and the promise the catalog keeps of what it has read.

### LiveEvents, EvalConsole

`LiveEvents` follows an event from `emit` over its append, the table and the
stream to the page, with a cursor on the server and a last id in the browser. An
opening may be answered with an error (`EventStreamRefused`), and the browser then
leaves the stream closed until the page replaces its streams.
`EvalConsole` is the page: every answer carries what the server had when it
answered and the selection its closure was made with, and arrives when it will.

## The runs

| run | question | bounds | distinct states |
|---|---|---|---|
| `jobs_retry` | ledger, retry, billing, progress, refinement; does every claimed job end | 1 job, run, trial; 2 workers, 1 fault, 1 stop; 4 kinds of result | 181 000 |
| `jobs_two_runs` | concurrent loops, one of which throws, and a recovery that overtakes the worker | 1 job, runs of 2 and 1 trials, concurrency 2 and 2, 1 fault; the twin trials are symmetric | 2.95 million |
| `jobs_two_jobs` | cancel, claim, finish, recovery and deletion race | 2 jobs, one of them legacy, 1 worker, 1 stop | 3.26 million |
| `files` | write-backs against the user's edits and failing operations; what a session load returns after failing saves, a crash at any point and a damaged summary | 2 files, one tracked; 1 user edit, any commits, 2 agent edits. 2 turns, 5 saves, 1 failing operation, 1 crash, 1 damage | 3.4 million |
| `agent` | is what the agent loop sends well formed, what it reports verified and supported by the state of the task; does it end | 3 turns, budget of 3 calls, 2 calls per reply, 2 retries, 2 signatures, breaker at 2 of the last 2 | 480 000 |
| `runtime` | background tasks, subagent slots, MCP requests, sandboxed commands, folds, session switches | 4 pieces of output of which 2 are kept; 4 calls for 2 slots; 2 connections, 3 requests; 3 turns of which a fold keeps 1; 2 sessions | 236 000 |
| `evidence` | trial, comparison, release gate, candidates, verification, traces | 2 model requests; 2 cases twice; 3 cases in 3 suites, 3 runs, 2 mishaps or changes; 5 candidates that clash in each way, 2 promoters, 1 death; 1 test, 2 edits; 2 traces, 2 processes, 1 fault, 1 torn line | 686 000 |
| `platform` | streamed replies, terminal, typewriter, judging, builds, workspaces, reviews, live events, console | 2 calls and 3 replies; 3 keys of 7; 3 streams of 2 pieces; 2 agent edits; 2 builders, 1 death, 1 prune; 3 trials for 1 slot; 2 reviewers, 2 drafts, 2 versions; 4 events in pages of 2, 2 broken, refused or replaced connections; 2 jobs, 2 user steps, 2 requests in flight | 511 000 |
| `failed_keeps_origin`, `torn_tail_ignored`, `new_failure_refused`, `truncated_call` | statements of the repository that the code does not keep | the smallest instance that shows it | |

Why the bounds are enough to be interesting.

- Jobs: a plan has at most two attempts; a retry, a fault, a recovery and a stop
  each occur in `jobs_retry`, with a pass, a preparation fault without and with
  model requests, an aborted trial. Two workers suffice for one to recover what
  the other still runs. Two runs with two loops each are needed for one loop to
  throw while another saves, and for the job to report without waiting; a second
  job adds what jobs share, the worker and the recovery.
- Files: two files make a half delivery possible, two agent edits a second
  write-back of a file the session owns, and one edit of the user can hit each
  phase. Five saves are two whole turns and a save between them or after a
  resumption; the failure and the crash may both tear a line. With two crashes
  the session properties hold as well (7.9 million states, too long for a run).
- Agent: a reply may have more calls than the budget has left, the breaker can
  trip in the middle of a reply, and every limit is reached by some behaviour.
- Runtime: more output than the window keeps; more callers than slots and a
  queue of two, so that an abort hits the head and the tail; a second connection
  while requests of the first are pending; a second fold after a first one.
- Evidence: a promoter can die before and after its link; runs can overlap in a
  case, miss one, and be of two versions of one. The recovery limit is above the
  number of torn traces: torn traces are never taken out, and a limit of them
  would fill every recovery.
- Platform: each key that starts with ESC can be cut at each byte and follow
  another one; a waiter exists when a slot is handed on; a page boundary falls
  between events that commit out of order; two answers are under way at a time.

Symmetry is used in one run that checks invariants only. `CHECK_DEADLOCK FALSE`
is set everywhere because everything here may really stop: a job ends and
processes stay down, a run, a trial, a request and a session end, a user does
nothing.

What the properties of the composed runs say, part by part:

- `ToolCallsAccounted`: a reader that follows the lengths it is told sees every
  character of a task (`OutputFollowed`); slots taken are those of running calls
  and nobody queues beside a free one (`SlotsExact`); no request is pending with
  a server that was let go (`NoOrphanRequest`); a command that was cut off has no
  exit code (`CutOffReported`).
- `ConversationFaithful`: the model is shown note and context as the session
  counts them (`ConversationIsContext`), and a fold switches both or neither
  (`FoldSwitchesWhole`, outside of `overlap`, see below).
- `SessionsApart`: no question waits unheard (`PromptNotLost`), after a switch
  nothing of the session before is left (`SwitchLeavesNothing`), a deleted
  session stays deleted. Not so where a command meets the housekeeping or the
  question of the first prompt (`gap`, below).
- `NothingLeftOver`, `NothingHalfDone`, `PlatformSettles`: what is pending does
  not stay pending, for each part that has something pending.
- `RepliesTakenWhole`: the text of each reply without calls is in one response, as
  long as it was shown and in its place; a reply that was cut off does not end a
  response (with continuation switched on); no tool runs with a part of its arguments.
  The text of a reply that holds calls is shown, and is in no response: the code means
  it so. A reply that was cut off and then followed by calls waits in the prefix and
  is in the response of the next reply without calls.
- `GradedAsSubmitted`: what the judge has of the agent's files is what was submitted,
  the tests of the dataset have replaced the agent's, and the script of the verifier is
  the dataset's unless a file at its place was submitted (below).
- `NothingSkipped`, and the part of `PlatformSettles` about events: the stream leaves
  out no event before the last one received, and every event is seen in the end unless
  the stream was refused.
- `PromotionSound`: the two sides were measured on the same cases in the same version,
  by the same grader in the same environment, by completed runs that left no request
  uncounted, and in no suite the champion solved more.
- `TrialVerdictSound`: a verdict has its evidence, whether the runner or the
  migration derives it, and what may be retried was not billed.
- `TerminalFaithful`: keys are taken as pressed, replies are whole on the screen.

### Fairness

- `EvalJobs`: `WF(Executor(j))`, every promise the executor awaits settles (a
  trial by its own timer, which `NothingHalfDone` shows of `TrialRun`; a query by
  the driver); `WF(Heartbeat(j))`, the 500 ms timer; `WF(HeartbeatAges(j) /\
  ~beating[j])`, time passes for a job without a monitor; `WF(\E w :
  Recover(w))`, the recovery timer of the workers that are up. Nothing is assumed
  of users, of the queue, or that a worker that went down comes back; the bound
  on stops leaves one worker up in `jobs_retry`.
- `TrialRun`: the runner's own steps and its timer are fair, the agent is not.
- `AgentLoop`: the loop's own steps are (the model, the tools and the verifier
  have timeouts); an approval is not, except that an abort denies it.
- `BackgroundTask`, `SandboxRun`, `McpClient`, `SubagentSlots`: timers fire, a
  process that was sent SIGKILL closes, a child run has limits of its own. A
  command nobody ends need not end, a caller need not come back.
- `SessionFold`: the model answers or fails, file operations end.
- `TraceOutbox`: a process that is up goes on or dies, and who works on the
  project starts the agent again and again. The uploader is not fair.
- `TerminalInput`, `Typewriter`: their timers. The user is not fair.
- `EnvironmentBuild`, `WorkspaceSetup`: awaited commands end (they have a
  timeout or the job's signal), and waiting for the lock ends at its limit.
- `LiveEvents`, `EvalConsole`: the server polls its table, what was sent
  arrives, the browser asks for a broken event stream again and is answered, with the
  stream or with an error, the page runs its effects and its timer. Breaks and
  replacements are bounded. That an opening succeeds is not assumed: what is promised
  of events ends with a refusal.

## What is proved

`EvalJobsProofs` proves for any number of jobs, runs, plans and workers, any
concurrency limits, results, faults and stops, from `ConstantsAssumption`
alone (finite sets, functions of the right type):

- `TypeCorrect`: the type invariant.
- `EndedStaysEnded`, `CancellationKept`: the status of an ended or
  cancelling job. Only six transactions write the status (`StatusStep`).
- `LedgerCorrect`, `RetriesUnbilled`: neither invariant is inductive. A save
  appends at `attempts[p]` because the plan is open, and `ResetPlan` opens a plan
  because it was selected many steps before. `LedgerInv` adds, per plan
  (`PlanInv`): a plan without a row has no attempt and no result, the ledger is
  as long as the attempts made, a second attempt follows an unbilled preparation
  fault; and `ResetsFaulty`: whatever is in `todo` of a run that resets is
  completed by such a fault and stays so until it is reset; and `LegacyKnown`.
  Most actions leave the plans alone (`Quiet`); there is a lemma for each of the
  eight that do not.
- `LateResultsRefused`: `saveTrial` accepts only for a job being executed.
- `ProgressCorrect`: the counter is the maximum of itself and a count that
  `JobPlans` bounds, and only a save completes a plan.
- `LedgerImplemented`: the initial states and every step map to
  `ExperimentLedger` or to a stutter; `Recover` closes several jobs in one step,
  hence `Close(js)`.

`AgentLoopProofs` proves for any limits, numbers of calls and set of signatures,
from `BoundsAssumption` (the limits are natural numbers, most of them at least
1):

- `LoopInvariant`: `IInv` is inductive. That calls are paired before a request
  says nothing of the places in between, and that a status has its verdict
  nothing of a run that goes on. `IInv` adds what each place of the loop relies
  on: between the reply and its last result exactly the calls left are open, and
  none anywhere else (`CallsOpen`); the state of the machine is the one of the
  place, and a passed check is known only where the submission is collected or
  reported (`MachineAgrees`); a repeated request has shown nothing (`TextInLastAttempt`).
  There is a lemma for each action.
- `TypeCorrect`, `Paired`, `VerdictCorrect`, `ShownOnce`, `RequestsCorrect`
  (`RequestsSound`, the last and `Paired` together): its consequences.
- `TaskImplemented` (`ImplementsTask`): the initial states map to those of
  `TaskState`, and every step maps to a step or a stutter (`StepMaps`). What is
  needed of the invariant is which state the machine is in at each place of the
  loop (`MachineAgrees`), so that each transition asked for is an allowed one,
  and that a run without a result is not at its end.

`WritebackProofs` proves for any files, contents, failing phases and number of
edits, from `WritebackAssumption`, of `WritebackSpec` (the specification without
fairness):

- `FilesTraced`: `IInv` is inductive. Neither `AllOrNothing` nor `NothingLost` is:
  a rollback puts back what the backup kept, so it must be known of each file of
  the batch, at each phase, whether it is in place, in the staging directory
  (`Saved`) or replaced (`Traced`). That holds of the files nobody else has
  written during the batch, as long as moving an origin away or back has not failed
  (`broken`).
- `BatchIsAtomic`, `NoFileLost`: its consequences.
- `EditsSurvive` (`UserEditsKept`): needs what holds of a file whatever has broken off before
  (`Kept`): the baseline the session recorded is something it had put there; what
  the user last put in a file that has been verified is the session's or the base
  commit's, or is gone; where a file is while a batch is moved and recorded. A
  rollback that breaks off may leave a delivered file where the user had deleted
  one and committed that; the property leaves this out (`broken`). It takes three
  writes of the agent, one more than the bound of the run.

`EvalRunsProofs` goes on from `EvalJobsProofs`, under the same assumption, with
the properties that are about more than one transaction:

- `BilledOnce` (`EachPlanBilledOnce`): a plan is taken by a loop, billed, saved,
  perhaps chosen for the retry and reset, in as many transactions. `StageInv` says how
  the places of an execution, the queue item and the status of the job go together, so
  that nothing executes a job twice; `LoopsInv` says for each place of a run what
  `todo`, `active` and `retry` mean: what is yet to be taken has not been billed, what
  is chosen for the retry neither (`Billing`).
- `CompletedDecided` (`CompletedJobDecided`) and `RunsEnded` (`EndedJobHasEndedRuns`):
  the job is finished by one transaction, its runs by many earlier ones, any of which
  may have thrown. `RowsInv` says which rows the status of the job allows, and
  `DecisionInv` that what has no result is still in a loop, or something threw.

`EvidenceProofs` proves of the modules that `MCEvidence` composes, each for its own
specification (of `TrialRun` without its fairness):

- `ResultRecorded`: `TrialInv` is inductive, for any number of model requests. It
  ties the runner's variables to its place (`AgentAwaited`: requests are made only
  while the runner waits, so the count in a result is final; `GradedOnce`: an agent
  that timed out is not graded) and the stored row to them (`Recorded`), whichever
  save wrote it.
- `VerdictSound`: the three parts of `TrialVerdictSound`.
- `TracesKept` (`CapturedKept`): nothing leaves the queue but what has a receipt,
  and no file is removed before its trace is in the queue or delivered.
- `WorkAccepted` (`AcceptedWork`): the diff, the list of tests and the commands are
  looked at in different steps, so `VerifyInv` says at each place what is known of the
  work as long as nothing else touches it: after the listing that no test is missing,
  after the commands that their run is of the work as it is (`Snapshot`).
- `DatasetKept` (`DatasetReadable`): only one promoter is past the lock (`Alone`), and
  what it has read is what is stored until it writes.
- `PromotionsSound` (`PromotionSound`): the numbers the gate compares are those of
  the recorded trials (`Solved`), which takes counting: each case is in one run of each
  agent, so cases and trials are as many. Equal digests of the dataset and the grader
  say that each case was decided in the same world (`SameGrader`, `SameWorld`).
- `ComparisonFinal` (`ComparedIsFinal`): rows do not change once the job has completed,
  and each flipped case is one whose row changed.

`SessionProofs` proves for any sessions, turns and lengths of a log, with a crash
between any two writes and a torn last line:

- `LoadsCommittedKept` (`LoadsCommitted`): a load reads three files that were
  written at different moments, so nothing follows from what one of them holds
  now. The invariant says of each step of a save what each file has: the
  generation being saved is in no log when the save begins, it is whole in
  `updates` before `chat` names it, and a generation that is committed is in
  `chat`. That a commit reads back (`CommitOK`) is known only of files that are
  intact; what resuming reads needs only that they are readable.
- `InterruptedTurnKept` (`InterruptedKept`): the turn that was announced is in
  memory, in the snapshot being saved, and in the committed generation or in the
  `pending` of the summary.
- `ClearedGone` (`ClearedIsGone`): a save without turns rewrites the logs, and every
  line written since is of a later generation.

`PlatformProofs` proves of eight modules that `MCPlatform` composes, without their
fairness:

- `RepliesWhole` (`RepliesTakenWhole`): `StreamInv` says where the text of every reply
  is: the one in hand is as long as what was shown of it, also when a retry begins it
  anew; each earlier one without calls is a part of one response or of the prefix, in
  the order of the replies (`TextKeeps`, `ContinuedKeeps`); and no response ends with
  one that was cut off (`LastNotCut`).
- `RepliesShown` (`RepliesIntact`): from `TypewriterAssumption`; `StreamPlaced` says where
  the message of the stream is and that what it shows with what waits is what was
  received, so flushing changes nothing. It is the half of `TerminalFaithful` about
  output.
- `KeysKept` (`KeysAsPressed`), from `KeysAssumption`, is the other half, for any keys
  and any number of them. `InputInv` says that, unless a sequence was torn, what was read
  is what was pressed first, and that the bytes in the buffer followed by those on their
  way are the bytes of the rest (`ReadSoFar`): there are places, increasing, at which
  they can be cut into those of one key each (`Cuts`). From it follows what the parser
  finds at each of these places (`WidthAtCut`: the whole key if it has arrived,
  otherwise nothing), hence that it reads exactly the keys that have arrived as a whole
  (`KeysRead`) and keeps the bytes of the others (`RestEncodes`). The parser is a
  recursive function, and that there is one such function and what it gives is shown
  with the least place at which it would be otherwise (`LeastNumber`). An interface that
  stopped drops what is in the buffer, and reads nothing any more.
- `TerminalKept` (`TerminalFaithful`): of `Spec` of `MCPlatform`. Since the parts share no
  variable, a behaviour of the whole is one of each part (`PartsOfTheWhole`), so
  `PlatformSafe` and `PlatformStepsSafe` state the properties below, too, of the whole.
- `WorkGraded` (`GradedAsSubmitted`): `JudgeInv` says which tree holds what before the
  patch is moved (`BeforeJudge`) and after it (`Submitted`), and which file is at the
  place of the verifier's script (`VerifierPlaced`).
- `EnvironmentHasImage` (`ReadyHasImage`): a script that is about to write the manifest
  has made the image, and nothing prunes it from then on.
- `SlotsAndRoots` (`SlotsAndRootsExact`), from `SetupAssumption` (a finite set of
  trials and at least one slot): a slot is counted for each owner and for nobody
  else, also when a waiting trial is aborted; who waits is in the queue once.
- `DecisionsKept` (`DecisionsStand`): what a reviewer holds while waiting (`ReviewInv`)
  never allows a later write to lower the status.
- `StreamSkipsNothing` (`NothingSkipped`), from `PageAssumption`: rows are sent
  in the order of their numbers and the cursor is the last one sent, so a stream
  that is opened again misses none, and one that is refused or replaced begins anew. `Ordered` chooses the rows in
  ascending order, and that there is such a sequence is itself proved
  (`OrderExists`): the library's induction theorems cannot be used (they take an
  operator), but the least counterexample that `WFMin` gives can.

`RuntimeProofs` proves of `MCRuntime`, the specification that composes the parts of
the runtime around the agent loop, for any set of calls and from the assumptions of
those parts (their bounds are natural numbers, there is a slot and a session). Each part has an inductive invariant
of its own, `RuntimeInv` is their conjunction, and a step of one part stutters for
the others:

- `ToolCallsAreAccounted` (`ToolCallsAccounted`). `TaskInv`: what a reader was told is
  all there was up to its offset, also while it waits, where `OutputFollowed` speaks of
  a reader at rest. `SlotsInv`: who is queued is in the queue once and nobody else
  (`Queued`), so that the slot an ending call hands on goes to a call that waits.
  `McpInv`: a failed start closes nothing while an earlier `stop()` is under way, so
  that a request may not be left with the new server: it has been sent one request at
  most, and none before its endpoint is known (`OneRequest`). The server that is being
  stopped is not the current one, so a call sent late is none of the current one's.
  `SandboxInv`: a process
  that ends while nobody has asked the container to go has taken it along.
- `ConversationStaysFaithful` (`ConversationFaithful`). A fold takes three awaits, and
  with a first prompt beside the commands turns go on meanwhile. `ApartInv` says that as
  long as no fold overlaps another, one under way still finds the turns it froze at the
  head of the context, or has cut them off (`Frozen`), and that a turn that runs is in
  none of what is kept for a rollback (`NewTurns`), so that putting them back restores
  the history and repeats none of it. That the model replays the context
  (`Replayed`) needs none of this and holds when folds overlap, too.
- `SessionsStayApart` (`SessionsApart`). `ShellInv`: a switch of the session goes on only
  while no turn does (`OneTurn`), the question that is asked is that of the turn or of
  the command (`OneQuestion`), and only the session that is shown, or the one being left,
  has tasks (`OneSession`). All of it holds as long as no command was let in at the
  housekeeping of a turn (`gap`), as the properties say.

Five definitions were rewritten so that they can be reasoned about, and say the
same as before: `TakeIn` of `TerminalInput` handles the keys of a chunk by a
recursive function where it was a fold, `Generation` of `SessionStore` is one where
it was a `SelectSeq`, `AbortTrial` of `WorkspaceSetup` removes the entry at the index it
finds and `AbortQueued` of `SubagentSlots` does the same with the queue, as the code
does, and `Ordered` of `LiveEvents` stands for the ORDER BY.
`AcceptedWork` lost a conjunct it did not need and became stronger.

Model-checked only:

- every liveness property (`RunEnds`, `ExecutingEnds`, `NothingHalfDone`,
  `NothingLeftOver`, `PlatformSettles`, ...): out of the prover's reach. Every
  invariant and every other property of a passing run is a theorem.

## Where the code and what is said of it differ

Shown by a run:

- `failed_keeps_origin`: when moving a file of the user away fails, the rollback
  removes that file and has no backup of it (`writeback-coordinator.ts:274`).
- `torn_tail_ignored`: an unterminated last line is ignored by a load, but the
  next save appends to it, and if the process dies before the compaction the
  session is refused from then on (`session-store.ts:313`).
- `new_failure_refused`: a final run in which no test reports is accepted after
  a baseline with a failing test (`regression-verifier.ts:90`).
- `truncated_call`: a reply at its token limit that has a complete call is taken
  for one that ended by itself (`openai-model-provider.ts:315`).

Met while modelling, and kept in the models as the code has it.

Jobs:

- `JobStore.delete` leaves the rows of plans and attempts, whose foreign keys
  then refuse the transaction (`job-store.ts:400`); no job with plans can be
  deleted (`docs/prd/eval-platform-ui-direction.md:51` offers it).
- A stopping worker throws away the item of a queued job (`worker.ts:43`), which
  stays queued with nothing in the queue (`docs/prd/eval-platform-v1.md:102`).
- `completed` stays too high when a job ends between the reset of a plan and the
  result of its retry (`job-store.ts:731`; `eval-repository.ts:182` says they
  agree). `ProgressBounded` is what remains true.
- The model calls of a trial in flight when its job ends are in no ledger entry,
  since `saveTrial` refuses it (`docs/prd/eval-repeat-experiments.md:60` counts
  every call).
- `resetPlansForRetry` does not look at the job, and reopens plans of a job that
  another worker has recovered in the meantime. `NoLateResult` allows that and
  excludes a result.
- The loss of the worker answers an acknowledged cancellation with
  `interrupted`. The monitor never aborts with `LEASE_LOST` when the row is gone
  or ended: it resets its failure count first.
- The migration of schema version 6 calls a passed verification of an agent that
  failed or timed out a `pass`; `deriveTrialOutcome` calls it `unknown`
  (`database.ts:180` says that they agree). `BackfillAgrees` holds for the others.
- A case whose own id ends in `#1` is not told from a repetition
  (`trial-plan.ts:32`). The retry `EvalRunner` writes a run record of the retried
  cases over the whole one (`eval-runner.ts:91`).
- The comparison does not list the environment among its conditions
  (`comparison.ts`).

Agent, sessions and terminal:

- An abort or a throw between two calls ends the run with calls that have no
  result in its transcript (`agent-runner.ts:431`; the comment at `:465` fills
  them in for the breaker). `TranscriptPaired` is about runs that end by
  themselves.
- `cancel()` while the session is at its housekeeping before the run is lost
  (`agent-session.ts:554`).
- A `/fold` beside the automatic fold of the first prompt removes turns twice,
  and a `/clear` during a fold brings them back (`agent-session.ts:398`): the
  `overlap` of `FoldSwitchesWhole`.
- A fold forgets that calls were open in what it folds (`session-folder.ts:264`).
- A command that is saved while a turn runs writes a summary without the pending
  turn (`agent-session.ts:308`), and a crash then loses that the turn ever began.
  `InterruptedKept` excludes it.
- A command let in at the housekeeping of the first prompt, which `isRunning`
  does not see, can leave two questions for the one place there is
  (`terminal-ui.ts:223`), and the session's tasks behind: the `gap` of
  `PromptNotLost` and `SwitchLeavesNothing`. Exit does not wait for a task that
  is starting (`background-task-manager.ts:157`, `agent-command.ts:920`).
- `killAll` goes through the tasks that are running; one that is still starting
  runs on (`background-task-manager.ts:157`).
- When the output window moves past an offset, what it still holds is skipped
  up to the length (`get-command-output.ts:20`).
- A mouse sequence cut after its first byte is typed into the line (the comment
  at `terminal-ui.ts:403` rules that out), and a lone ESC of a cut sequence
  cancels (`:499`). `/clear` leaves `streamMessageIndex` (`:112`).
- The baseline is taken before each turn (`agent-command.ts:744`): what one turn
  breaks is a known failure in the next.
- A late exit of an MCP server process rejects what is pending with its
  successor (`stdio-mcp-client.ts:79`); `NoOrphanRequest` does not claim
  otherwise. A result of an SSE server that comes while the POST is pending is
  lost when the POST fails, and `stop()` resets the endpoint. A call that is sent
  after the close has emptied `pending` (`sse-mcp-client.ts:100`) is rejected by
  nobody and waits for its own timer; `NoOrphanRequest` leaves it out.
- A stream that ends without a finish reason is taken for a full reply
  (`openai-model-provider.ts:204`), so what `RepliesTakenWhole` says of replies that
  were cut off is about those the service has marked.

Write-back and verification:

- A committed deletion of a file is not a conflict: the file comes back
  (`git-repository.ts:94`; `tests/e2e/git-worktree-session.test.ts:270` refuses
  to overwrite commits).
- The revision of a verified snapshot is captured after the checks have passed
  (`verified-workspace-snapshot.ts:66`); background writes in between are bound
  to it. `refreshSnapshot` after an apply takes in what was written during the
  apply, which is then never shown (`git-worktree-session.ts:193`).
- An edit of the user between the verification of a file and its rename goes
  away with the staging directory; one between its delivery and the recording of
  its baseline becomes the session's own. `contested` excludes both.
- A rollback that throws lets the `finally` block remove the staging directory
  with the backups in it.

Platform and evaluation:

- The patch of an official submission is `git diff` without `HEAD`
  (`harness.ts:694`): what the agent has committed is missing from it. A file in
  a directory the repository does not have cannot be written to the judge's
  workspace (`:725`) and the verification ends in an error.
- The environment lock is given back while docker and git commands of a killed
  script go on (`harness.ts:868`), and a death leaves the lock for good; each
  later job then waits to its limit and fails.
- In a Terminal-Bench trial, a file of the agent at the place of the verifier's
  script is part of its changes and is copied to the judge like any other, over the
  script that was put there before (`harness.ts:714`, `:756`).
- The event stream is opened after a query (`http.ts:134`) whose failure is answered
  with an error, and the page has no handler for it (`page.tsx:2215`): until the set
  of live trials changes, the page then shows of that trial the first 200 events and the
  last 100 of each poll (`page.tsx:2176`, `job-store.ts:278`).
- The judge's workspace does not see the trial's signal (`harness.ts:713`). A
  failing `captureSnapshot` leaves the directory (`temporary-workspace.ts:101`).
- A death in `promote` leaves `candidates.lock`; one edited fixture makes the
  whole listing throw.
- A publisher that has collected the published cases before another one commits
  makes a later version without the other's case (`trace-store.ts:200`). The
  catalog keeps its first answer, a rejected promise included
  (`catalog.ts:49`), and offers nothing that was published since.
- The detail of another job can arrive late and is shown until the next poll
  (`page.tsx:743`); the cancel button acts on the selected job, which need not be
  the one shown (`:862`).

## What is not modelled

- Text: prompts, project facts, memory, skills, redaction, formatting, patches,
  reports, charts; the schemas of configuration, tasks and events.
- The dataset registry, its cache and fetcher, the conversion of benchmark
  formats and the artifact store: files written once under their own digest or
  name, by one process.
- The repositories on files and in memory and the evaluation command line, which
  one process uses alone; the platform uses the database.
- The built-in tools on files, search and the network, and the path policy: the
  executor calls one at a time, and `AgentLoop` has their outcomes,
  `Verification` and `Writeback` the answers of the policy.
- The adapters of external services (models, Docker, PostgreSQL, pg-boss, Git)
  beyond their outcomes and their failures. Definitions that stand for them are
  marked external in `PROJECT.json`.
- The routes of the HTTP service that only check their input, the listings and
  queries of the stores, schema migrations other than the backfill.
- The attempt state machine of `agent-attempt.ts`, which tests alone use, and
  sessions without isolation.
- Launchers and build scripts, except the environment build script.
- Time: a timer fires at some moment after it was set, in any order with others.
