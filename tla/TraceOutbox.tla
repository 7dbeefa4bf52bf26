---------------------------- MODULE TraceOutbox ----------------------------
(***************************************************************************)
(* Local traces and their way into the upload queue (packages/telemetry/   *)
(* src): every run of the agent records a trace and queues it when it      *)
(* ends; a start of another run makes up for what a crash has left out and *)
(* removes old traces.  Processes share the files and nothing else.        *)
(* Uploading is not in this repository; listReady, markDelivered and       *)
(* markFailed are offered to it.                                           *)
(***************************************************************************)
EXTENDS Integers, Sequences, FiniteSets

CONSTANTS Traces,         \* run ids; a number each, the order readdir gives
          Processes,      \* agent processes on the project
          RecoveryLimit,  \* limit of recoverTraceOutbox
          MaxTorn,        \* bound on the traces a failed write has torn
          MaxFaults       \* bound on deaths of a process and failures of a link

ASSUME OutboxAssumption ==
    /\ Traces \subseteq Nat /\ IsFiniteSet(Traces)
    /\ MaxTorn < RecoveryLimit /\ MaxFaults \in Nat

VARIABLES file,      \* .codeden/traces: "none", "open", "ended" (terminal written), "removed"
          consent,   \* captureConsentDigest of the terminal: "same" as now, or "other" (or none)
          torn,      \* traces with a line that cannot be parsed
          queued,    \* traces with a record in outbox/
          delivered, \* traces with a receipt in delivered/
          proc,      \* what each process is at
          upload,    \* what the uploader is at
          faults

traceVars == <<file, consent, torn, queued, delivered, proc, upload, faults>>

Down == [at |-> "down", trace |-> 0, left |-> {}, attempts |-> 0]
Idle == [at |-> "idle", trace |-> 0]
At(p, step) == proc[p].at = step
MoveTo(p, step) == proc' = [proc EXCEPT ![p].at = step]

(* Traces of earlier runs may be there, captured under any consent.         *)
TraceInit ==
    /\ \E old \in SUBSET Traces :
           file = [t \in Traces |-> IF t \in old THEN "ended" ELSE "none"]
    /\ consent \in [Traces -> {"same", "other"}]
    /\ \A t \in Traces : file[t] = "none" => consent[t] = "same"
    /\ torn = {} /\ queued = {} /\ delivered = {}
    /\ proc = [p \in Processes |-> Down]
    /\ upload = Idle /\ faults = 0

ContainsTrace(t) == t \in queued \cup delivered

Files == {t \in Traces : file[t] \in {"open", "ended"}}

-----------------------------------------------------------------------------
(* createTraceCaptureSink(): recovery, then pruning, then the run.          *)
BeginRun(p) ==
    /\ At(p, "down")
    /\ proc' = [proc EXCEPT ![p] = [at |-> "recovering", trace |-> 0, left |-> Files,
                                    attempts |-> 0]]
    /\ UNCHANGED <<file, consent, torn, queued, delivered, upload, faults>>

(* Mutant: a trace that is skipped ends the recovery.                       *)
RecoverStopping(p) ==
    /\ At(p, "recovering") /\ proc[p].left # {}
    /\ LET t == CHOOSE u \in proc[p].left : \A v \in proc[p].left : u <= v
           rest == [proc[p] EXCEPT !.left = @ \ {t}]
       IN proc' = [proc EXCEPT ![p] =
              IF file[t] # "ended" \/ consent[t] # "same" \/ ContainsTrace(t) \/ t \in torn
              THEN [rest EXCEPT !.left = {}]
              ELSE [rest EXCEPT !.attempts = @ + 1, !.trace = t, !.at = "requeueing"]]
    /\ UNCHANGED <<file, consent, torn, queued, delivered, upload, faults>>

(* The next trace of the directory: skipped when it has no terminal, was    *)
(* captured under another consent or is contained already; otherwise an     *)
(* attempt, which a torn trace spends for nothing.                          *)
Recover(p) ==
    /\ At(p, "recovering") /\ proc[p].left # {}
    /\ LET t == CHOOSE u \in proc[p].left : \A v \in proc[p].left : u <= v
           rest == [proc[p] EXCEPT !.left = @ \ {t}]
       IN proc' = [proc EXCEPT ![p] =
              IF file[t] # "ended" \/ consent[t] # "same" \/ ContainsTrace(t)
              THEN rest
              ELSE IF rest.attempts >= RecoveryLimit
              THEN [rest EXCEPT !.left = {}]
              ELSE [rest EXCEPT !.attempts = @ + 1,
                                !.trace = t,
                                !.at = IF t \in torn THEN "recovering" ELSE "requeueing"]]
    /\ UNCHANGED <<file, consent, torn, queued, delivered, upload, faults>>

RecoveryEnds(p) ==
    /\ At(p, "recovering") /\ proc[p].left = {}
    /\ proc' = [proc EXCEPT ![p].at = "pruning", ![p].left = Files]
    /\ UNCHANGED <<file, consent, torn, queued, delivered, upload, faults>>

(* enqueue(): no second record for a trace that is delivered or queued; the *)
(* record is linked exclusively, but not at the moment of the look.         *)
Requeue(p) ==
    /\ At(p, "requeueing")
    /\ \/ ContainsTrace(proc[p].trace) /\ MoveTo(p, "recovering")
       \/ ~ContainsTrace(proc[p].trace) /\ MoveTo(p, "relinking")
    /\ UNCHANGED <<file, consent, torn, queued, delivered, upload, faults>>

LinkRecord(p) ==
    \/ queued' = queued \cup {proc[p].trace} /\ UNCHANGED faults
    \/ faults < MaxFaults /\ faults' = faults + 1 /\ UNCHANGED queued

Relink(p) ==
    /\ At(p, "relinking")
    /\ LinkRecord(p)
    /\ MoveTo(p, "recovering")
    /\ UNCHANGED <<file, consent, torn, delivered, upload>>

(* Mutant: an old trace goes without a look at the queue.                   *)
PruneUnlooked(p) ==
    /\ At(p, "pruning") /\ proc[p].left # {}
    /\ \E t \in proc[p].left : \E expired \in BOOLEAN :
        /\ proc' = [proc EXCEPT ![p].left = @ \ {t}]
        /\ file' = IF expired /\ file[t] = "ended" THEN [file EXCEPT ![t] = "removed"] ELSE file
    /\ UNCHANGED <<consent, torn, queued, delivered, upload, faults>>

(* pruneLocalTraces(): an expired trace is kept when it has no terminal and *)
(* when its consent is the one of now and the queue has not got it.         *)
Prune(p) ==
    /\ At(p, "pruning") /\ proc[p].left # {}
    /\ \E t \in proc[p].left : \E expired \in BOOLEAN :
        /\ proc' = [proc EXCEPT ![p].left = @ \ {t}]
        /\ file' = IF /\ expired /\ file[t] = "ended"
                      /\ consent[t] = "same" => ContainsTrace(t)
                   THEN [file EXCEPT ![t] = "removed"]
                   ELSE file
    /\ UNCHANGED <<consent, torn, queued, delivered, upload, faults>>

(* The run gets an id of its own and opens its trace with the first event.  *)
OpenTrace(p) ==
    /\ At(p, "pruning") /\ proc[p].left = {}
    /\ IF \E t \in Traces : file[t] = "none"
       THEN \E t \in Traces :
                /\ file[t] = "none"
                /\ file' = [file EXCEPT ![t] = "open"]
                /\ proc' = [proc EXCEPT ![p].at = "running", ![p].trace = t]
       ELSE proc' = [proc EXCEPT ![p] = Down] /\ UNCHANGED file
    /\ UNCHANGED <<consent, torn, queued, delivered, upload, faults>>

(* A write that fails after part of its line.                               *)
TearTrace(p) ==
    /\ At(p, "running") /\ Cardinality(torn) < MaxTorn
    /\ torn' = torn \cup {proc[p].trace}
    /\ UNCHANGED <<file, consent, queued, delivered, proc, upload, faults>>

(* TraceCaptureSink: the terminal carries the digest of the consent, and    *)
(* the trace is queued after it has been written.                           *)
WriteTerminal(p) ==
    /\ At(p, "running")
    /\ file' = [file EXCEPT ![proc[p].trace] = "ended"]
    /\ MoveTo(p, IF proc[p].trace \in torn THEN "ending" ELSE "queueing")
    /\ UNCHANGED <<consent, torn, queued, delivered, upload, faults>>

Enqueue(p) ==
    /\ At(p, "queueing")
    /\ MoveTo(p, IF ContainsTrace(proc[p].trace) THEN "ending" ELSE "linking")
    /\ UNCHANGED <<file, consent, torn, queued, delivered, upload, faults>>

Link(p) ==
    /\ At(p, "linking")
    /\ LinkRecord(p)
    /\ MoveTo(p, "ending")
    /\ UNCHANGED <<file, consent, torn, delivered, upload>>

ProcessEnds(p) ==
    /\ At(p, "ending")
    /\ proc' = [proc EXCEPT ![p] = Down]
    /\ UNCHANGED <<file, consent, torn, queued, delivered, upload, faults>>

ProcessDies(p) ==
    /\ ~At(p, "down") /\ faults < MaxFaults
    /\ faults' = faults + 1
    /\ proc' = [proc EXCEPT ![p] = Down]
    /\ UNCHANGED <<file, consent, torn, queued, delivered, upload>>

-----------------------------------------------------------------------------
(* The uploader.                                                            *)

ListReady ==
    /\ upload.at = "idle"
    /\ \E t \in queued \ delivered : upload' = [at |-> "uploading", trace |-> t]
    /\ UNCHANGED <<file, consent, torn, queued, delivered, proc, faults>>

Uploaded ==
    /\ upload.at = "uploading"
    /\ upload' \in {[upload EXCEPT !.at = "accepted"], [upload EXCEPT !.at = "refused"], Idle}
    /\ UNCHANGED <<file, consent, torn, queued, delivered, proc, faults>>

(* markDelivered(): the receipt first, then the record goes.                *)
MarkDelivered ==
    /\ upload.at = "accepted"
    /\ delivered' = delivered \cup {upload.trace}
    /\ upload' = [upload EXCEPT !.at = "receipted"]
    /\ UNCHANGED <<file, consent, torn, queued, proc, faults>>

RemoveRecord ==
    /\ upload.at = "receipted"
    /\ queued' = queued \ {upload.trace}
    /\ upload' = Idle
    /\ UNCHANGED <<file, consent, torn, delivered, proc, faults>>

(* markFailed(): the record is written again with its next time.            *)
MarkFailed ==
    /\ upload.at = "refused"
    /\ queued' = queued \cup {upload.trace}
    /\ upload' = Idle
    /\ UNCHANGED <<file, consent, torn, delivered, proc, faults>>

UploaderDies ==
    /\ upload.at # "idle"
    /\ upload' = Idle
    /\ UNCHANGED <<file, consent, torn, queued, delivered, proc, faults>>

TraceStep(p) ==
    \/ Recover(p) \/ RecoveryEnds(p) \/ Requeue(p) \/ Relink(p) \/ Prune(p) \/ OpenTrace(p)
    \/ WriteTerminal(p) \/ Enqueue(p) \/ Link(p) \/ ProcessEnds(p)

TraceNext ==
    \/ \E p \in Processes : BeginRun(p) \/ TraceStep(p) \/ TearTrace(p) \/ ProcessDies(p)
    \/ ListReady \/ Uploaded \/ MarkDelivered \/ RemoveRecord \/ MarkFailed \/ UploaderDies

(* A run that has begun goes on, and what goes wrong goes wrong a finite    *)
(* number of times.                                                         *)
TraceFairness == \A p \in Processes : WF_traceVars(TraceStep(p))

-----------------------------------------------------------------------------
Captured == {t \in Traces : file[t] \in {"ended", "removed"} /\ consent[t] = "same"}

(* A trace that was captured under the consent of now is never lost: it is  *)
(* on the disk, queued or delivered, whichever processes died at whichever  *)
(* point, and a delivery that was accepted is not forgotten                 *)
(* (trace-capture-sink.ts 30, trace-capture-factory.ts 96-108).             *)
CapturedKept ==
    /\ \A t \in Captured : file[t] = "ended" \/ ContainsTrace(t)
    /\ upload.at = "receipted" => upload.trace \in delivered

(* What a crash or a failure has left out of the queue and can be read.     *)
TraceLeftOut == \E t \in Captured \ torn : ~ContainsTrace(t)

=============================================================================
