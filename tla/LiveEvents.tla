----------------------------- MODULE LiveEvents -----------------------------
(***************************************************************************)
(* The events of a running trial on their way to the page that shows them: *)
(* EventRecorder (packages/eval-engine/src/application/event-recorder.ts), *)
(* the rows of eval_events (apps/eval-platform/src/platform/               *)
(* eval-repository.ts, job-store.ts), the event stream (http.ts), and      *)
(* what the page merges (web/src/app/page.tsx).                            *)
(***************************************************************************)
EXTENDS Integers, Sequences, SequencesExt, FiniteSets

CONSTANTS MaxEvents,  \* bound on the events of the trial
          PageLimit,  \* events of one page of the stream and of the history
          LastEvents, \* events of a trial in the detail of its job
          MaxDrops    \* bound on the connections that break or are opened anew

ASSUME PageAssumption == PageLimit \in Nat \ {0}

VARIABLES emitted,   \* calls of emit() that have not been appended yet
          sequence,  \* EventRecorder.sequence
          appending, \* appendEvent in flight: the numbers of the events
          rows,      \* the sequence numbers of eval_events
          stream,    \* the connection: open or not, the cursor of the server
          refused,   \* the EventSource is closed for good
          wire,      \* events sent and not received yet
          lastId,    \* the last event id the EventSource has seen
          shown,     \* eventState of the page
          drops      \* connections gone, counted for the bound only

eventVars == <<emitted, sequence, appending, rows, stream, refused, wire, lastId, shown, drops>>

EventsInit ==
    /\ emitted = 0 /\ sequence = 0 /\ appending = {} /\ rows = {}
    /\ stream = [open |-> FALSE, cursor |-> -1] /\ refused = FALSE
    /\ wire = <<>> /\ lastId = -1 /\ shown = {} /\ drops = 0

viewerVars == <<stream, refused, wire, lastId, shown, drops>>
recorderVars == <<emitted, sequence, appending, rows>>

(* The agent, its tools and the verifier emit without waiting for each      *)
(* other.                                                                   *)
Emit ==
    /\ sequence + emitted < MaxEvents
    /\ emitted' = emitted + 1
    /\ UNCHANGED <<sequence, appending, rows, viewerVars>>

(* Mutant: without the queue of the recorder.                               *)
AppendStartsUnqueued ==
    /\ emitted > 0
    /\ emitted' = emitted - 1 /\ sequence' = sequence + 1
    /\ appending' = appending \union {sequence}
    /\ UNCHANGED <<rows, viewerVars>>

(* The number is taken when the event before it has been appended.          *)
AppendStarts ==
    /\ emitted > 0 /\ appending = {}
    /\ emitted' = emitted - 1 /\ sequence' = sequence + 1
    /\ appending' = {sequence}
    /\ UNCHANGED <<rows, viewerVars>>

(* An append that fails leaves a gap.                                       *)
AppendEnds(e, committed) ==
    /\ e \in appending
    /\ appending' = appending \ {e}
    /\ rows' = IF committed THEN rows \union {e} ELSE rows
    /\ UNCHANGED <<emitted, sequence, viewerVars>>

(* The page opens the stream, or the browser opens it again: with the id of *)
(* the last event it has seen.                                              *)
EventStreamOpens ==
    /\ ~stream.open /\ ~refused
    /\ stream' = [open |-> TRUE, cursor |-> lastId]
    /\ wire' = <<>>
    /\ UNCHANGED <<recorderVars, refused, lastId, shown, drops>>

(* The job cannot be read, so the answer is a status and no stream.  The    *)
(* browser tries no more, and the page does not hear of it.                 *)
EventStreamRefused ==
    /\ ~stream.open /\ ~refused
    /\ refused' = TRUE
    /\ UNCHANGED <<recorderVars, stream, wire, lastId, shown, drops>>

(* ORDER BY sequence.                                                       *)
Ordered(events) ==
    CHOOSE s \in [1 .. Cardinality(events) -> events] :
        \A i, j \in DOMAIN s : i < j => s[i] < s[j]

(* eventStream: the next page after the cursor.                             *)
RowsAfter(cursor) == Ordered({e \in rows : e > cursor})
FirstOf(events) == SubSeq(events, 1, IF Len(events) < PageLimit THEN Len(events) ELSE PageLimit)

StreamPage ==
    LET page == FirstOf(RowsAfter(stream.cursor)) IN
    /\ stream.open /\ page # <<>>
    /\ wire' = wire \o page
    /\ stream' = [stream EXCEPT !.cursor = Last(page)]
    /\ UNCHANGED <<recorderVars, refused, lastId, shown, drops>>

EventArrives ==
    /\ stream.open /\ wire # <<>>
    /\ shown' = shown \union {Head(wire)}
    /\ lastId' = Head(wire)
    /\ wire' = Tail(wire)
    /\ UNCHANGED <<recorderVars, stream, refused, drops>>

(* The connection breaks, or the query of the server fails and it closes.   *)
StreamBreaks ==
    /\ stream.open /\ drops < MaxDrops
    /\ stream' = [stream EXCEPT !.open = FALSE]
    /\ wire' = <<>> /\ drops' = drops + 1
    /\ UNCHANGED <<recorderVars, refused, lastId, shown>>

(* The set of live trials or the job on display changes: the streams are    *)
(* closed, whatever has become of them, and new ones are to open from the   *)
(* first event.                                                             *)
StreamReplaced ==
    /\ drops < MaxDrops
    /\ stream' = [open |-> FALSE, cursor |-> -1] /\ refused' = FALSE
    /\ wire' = <<>> /\ lastId' = -1 /\ drops' = drops + 1
    /\ UNCHANGED <<recorderVars, shown>>

(* The refresh of the detail brings the last events, the history the first. *)
LastOf(events) == SubSeq(events, IF Len(events) < LastEvents THEN 1 ELSE Len(events) - LastEvents + 1, Len(events))

SnapshotArrives ==
    /\ shown' = shown \union ToSet(LastOf(RowsAfter(-1))) \union ToSet(FirstOf(RowsAfter(-1)))
    /\ UNCHANGED <<recorderVars, stream, refused, wire, lastId, drops>>

EventsNext ==
    \/ Emit \/ AppendStarts
    \/ \E e \in appending, committed \in BOOLEAN : AppendEnds(e, committed)
    \/ EventStreamOpens \/ EventStreamRefused \/ StreamPage \/ EventArrives
    \/ StreamBreaks \/ StreamReplaced \/ SnapshotArrives

(* The stream skips nothing: whatever is in the table up to the last event  *)
(* received has been shown, through concurrent emits, failed appends, pages *)
(* and broken connections (event-recorder.ts 19-38, http.ts 171-189).       *)
NothingSkipped == \A e \in rows : e <= lastId => e \in shown

(* An event of the running trial that is not on the page, which has a       *)
(* stream or tries to get one.                                              *)
EventUnseen == ~refused /\ ~(rows \subseteq shown)

=============================================================================
