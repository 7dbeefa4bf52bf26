---------------------------- MODULE SessionFold ----------------------------
(***************************************************************************)
(* The conversation of an AgentSession and how it is shortened             *)
(* (packages/agent-runtime/src/session/agent-session.ts and                *)
(* src/context/folding/): structured folds, plain compaction, the turns    *)
(* between them, saves that fail, a crash and a resumption.  The terminal  *)
(* lets one command run at a time (terminal-ui.ts 340-350), but with       *)
(* --prompt and --interactive the first prompt runs beside the commands    *)
(* (agent-command.ts 893-913): two threads, which only Submit keeps apart. *)
(***************************************************************************)
EXTENDS Integers, Sequences, SequencesExt

CONSTANTS MaxTurns,    \* bound on the turns of the session
          KeepTurns    \* compactKeepTurns

ASSUME FoldAssumption == MaxTurns \in Nat /\ KeepTurns \in Nat

Threads == {"prompt", "command"}

VARIABLES folding,       \* foldOptions is configured
          kind,          \* what each turn was: see Kinds
          context,       \* contextTurns, as turn numbers
          note,          \* compactionNote
          conversation,  \* what the next request replays: a note and turns
          nextTurn,
          thread,        \* the await each thread is at, with its locals
          foldEvent,     \* the last context.compacted event, with what the fold was about
          overlap,       \* a fold or a clear has ever been begun during a fold
          projection,    \* fold-projection.json: the turns it is about, {} for no file
          up,            \* the process is there
          disk           \* the last committed snapshot

memory == <<kind, context, note, conversation>>
foldVars == <<folding, memory, nextTurn, thread, foldEvent, overlap, projection, up, disk>>

(* "open": the turn left a tool call without a result.  "secret": its       *)
(* prompt holds something the redactor replaces; a turn read back from disk *)
(* has been redacted.                                                       *)
Kinds == {"none", "plain", "open", "secret"}

(* What a note tells the model: the turns it is about and the open calls it *)
(* names.                                                                   *)
NoNote == [about |-> {}, open |-> {}]
Fallback == NoNote         \* "... turn(s) were removed", nothing of them

TurnsOf(s) == {s[i] : i \in DOMAIN s}
OpenTurns(s) == {t \in TurnsOf(s) : kind[t] = "open"}
Rebuilt(n, turns) == [note |-> n, turns |-> turns]

AtRest == [at |-> "idle", auto |-> FALSE, removed |-> <<>>, note |-> NoNote,
           next |-> NoNote, turn |-> 0]
NoEvent == [how |-> "none", removed |-> <<>>, note |-> NoNote]

At(p, steps) == up /\ thread[p].at \in steps
MoveTo(p, step) == thread' = [thread EXCEPT ![p].at = step]
Folds == {"summarizing", "saving", "persisting"}

FoldInit ==
    /\ folding \in BOOLEAN
    /\ kind = [t \in 1..MaxTurns |-> "none"]
    /\ context = <<>> /\ note = NoNote /\ conversation = Rebuilt(NoNote, <<>>)
    /\ nextTurn = 1 /\ thread = [p \in Threads |-> AtRest]
    /\ foldEvent = NoEvent /\ overlap = FALSE /\ projection = {} /\ up = TRUE
    /\ disk = [context |-> <<>>, note |-> NoNote, conversation |-> Rebuilt(NoNote, <<>>),
               nextTurn |-> 1, kind |-> kind]

-----------------------------------------------------------------------------
(* persist(): the snapshot is committed, or the save fails, before or after *)
(* its commit.                                                              *)
Redacted == [t \in 1..MaxTurns |-> IF kind[t] = "secret" THEN "plain" ELSE kind[t]]

Snapshot == [context |-> context, note |-> note, conversation |-> conversation,
             nextTurn |-> nextTurn, kind |-> Redacted]

Persist(ok) == disk' \in IF ok THEN {Snapshot} ELSE {disk, Snapshot}

-----------------------------------------------------------------------------
(* fold() and compactHistory().                                             *)

Removable == SubSeq(context, 1, Len(context) - KeepTurns)

(* SessionFolder compares the raw first and last prompt with the redacted   *)
(* ones of the memory it has made, and refuses when they differ.            *)
FolderRefuses(removed) ==
    folding /\ (kind[Head(removed)] = "secret" \/ kind[Last(removed)] = "secret")

After(auto) == IF auto THEN "starting" ELSE "idle"

(* A failed fold is swallowed before a turn; a failed compaction rejects    *)
(* the turn, and the process ends when it is the one of --prompt.           *)
FoldFails(p, local) ==
    /\ foldEvent' = [how |-> "failed", removed |-> local.removed, note |-> local.note]
    /\ thread' = [thread EXCEPT ![p] = [local EXCEPT !.at = IF folding THEN After(local.auto)
                                                            ELSE "idle"]]
    /\ up' = (folding \/ p = "command")

BeginFold(p, auto) ==
    LET local == [AtRest EXCEPT !.auto = auto, !.removed = Removable, !.note = note] IN
    /\ overlap' = (overlap \/ \E q \in Threads \ {p} : At(q, Folds))
    /\ IF FolderRefuses(Removable)
       THEN FoldFails(p, local)
       ELSE /\ thread' = [thread EXCEPT ![p] = [local EXCEPT !.at = "summarizing"]]
            /\ foldEvent' = NoEvent /\ UNCHANGED up
    /\ UNCHANGED <<folding, memory, nextTurn, projection, disk>>

(* The memory is about the turns of this fold.  The summary of the model    *)
(* may replace the open calls, if one at least is still marked; otherwise   *)
(* the deterministic memory stands, which names them all.                   *)
Memories(removed) ==
    {[about |-> TurnsOf(removed), open |-> named] :
        named \in {n \in SUBSET OpenTurns(removed) : OpenTurns(removed) # {} => n # {}}}

(* A compaction gives the model the note before and the turns removed.      *)
Summaries(p) ==
    {[about |-> thread[p].note.about \cup TurnsOf(thread[p].removed),
      open |-> thread[p].note.open \cup OpenTurns(thread[p].removed)], Fallback}

(* Mutant: the context is cut before the projection has been saved.         *)
SummarizeAndCut(p) ==
    /\ At(p, {"summarizing"}) /\ folding
    /\ \E next \in Memories(thread[p].removed) :
           thread' = [thread EXCEPT ![p].next = next, ![p].at = "saving"]
    /\ context' = SubSeq(context, Len(thread[p].removed) + 1, Len(context))
    /\ conversation' = Rebuilt(note, context')
    /\ UNCHANGED <<folding, kind, note, nextTurn, foldEvent, overlap, projection, up, disk>>

Summarize(p) ==
    /\ At(p, {"summarizing"}) /\ folding
    /\ \E next \in Memories(thread[p].removed) :
           thread' = [thread EXCEPT ![p].next = next, ![p].at = "saving"]
    /\ UNCHANGED <<folding, memory, nextTurn, foldEvent, overlap, projection, up, disk>>

(* The switch to the shortened history: as many turns go as the fold froze, *)
(* from whatever the context is by now.                                     *)
Switch(p, next) ==
    /\ note' = next
    /\ context' = SubSeq(context, Len(thread[p].removed) + 1, Len(context))
    /\ conversation' = Rebuilt(note', context')
    /\ MoveTo(p, "persisting")
    /\ UNCHANGED <<foldEvent, up>>

SaveProjection(p) ==
    /\ At(p, {"saving"})
    /\ \/ projection' = thread[p].next.about /\ Switch(p, thread[p].next)
       \/ FoldFails(p, thread[p]) /\ UNCHANGED <<context, note, conversation, projection>>
    /\ UNCHANGED <<folding, kind, nextTurn, overlap, disk>>

Compact(p) ==
    /\ At(p, {"summarizing"}) /\ ~folding
    /\ \/ \E summary \in Summaries(p) : Switch(p, summary)
       \/ \* summarize throws
          FoldFails(p, thread[p]) /\ UNCHANGED <<context, note, conversation>>
    /\ UNCHANGED <<folding, kind, nextTurn, overlap, projection, disk>>

(* Mutant: the rollback forgets the conversation.                           *)
RestoreTurnsOnly(local) ==
    /\ context' = local.removed \o context
    /\ note' = local.note
    /\ UNCHANGED conversation

Restore(local) ==
    /\ context' = local.removed \o context
    /\ note' = local.note
    /\ conversation' = Rebuilt(note', context')

PersistFold(p) ==
    /\ At(p, {"persisting"})
    /\ \/ /\ Persist(TRUE)
          /\ foldEvent' = [how |-> "ok", removed |-> thread[p].removed, note |-> thread[p].note]
          /\ MoveTo(p, After(thread[p].auto))
          /\ UNCHANGED <<context, note, conversation, projection, up>>
       \/ /\ Persist(FALSE)
          /\ Restore(thread[p])
          /\ projection' \in IF folding THEN {{}, projection} ELSE {projection}
          /\ FoldFails(p, thread[p])
    /\ UNCHANGED <<folding, kind, nextTurn, overlap>>

-----------------------------------------------------------------------------
(* submit(), /fold, /clear.                                                 *)

(* The first prompt is submitted before the first key is read.              *)
ReadsCommand == At("command", {"idle"}) /\ ~At("prompt", {"submitted"})

(* beforeTurnHousekeeping(): the conversation has grown too long, or the    *)
(* last turn went in circles.  A submission waits for the one before.       *)
Submit(p) ==
    /\ IF p = "prompt" THEN At(p, {"submitted"}) ELSE ReadsCommand /\ At("prompt", {"idle"})
    /\ nextTurn <= MaxTurns
    /\ \E long \in BOOLEAN :
           IF long /\ Removable # <<>>
           THEN BeginFold(p, TRUE)
           ELSE /\ thread' = [thread EXCEPT ![p] = [AtRest EXCEPT !.at = "starting"]]
                /\ foldEvent' = NoEvent
                /\ UNCHANGED <<folding, memory, nextTurn, overlap, projection, up, disk>>

FoldCommand ==
    ReadsCommand /\ Removable # <<>> /\ BeginFold("command", FALSE)

StartTurn(p) ==
    /\ At(p, {"starting"})
    /\ nextTurn' = nextTurn + 1
    /\ disk' \in {disk, [Snapshot EXCEPT !.nextTurn = nextTurn + 1]}
    /\ thread' = [thread EXCEPT ![p] = [AtRest EXCEPT !.at = "running", !.turn = nextTurn]]
    /\ UNCHANGED <<folding, memory, foldEvent, overlap, projection, up>>

TurnEnds(p) ==
    /\ At(p, {"running"})
    /\ \/ /\ \E k \in Kinds \ {"none"} : kind' = [kind EXCEPT ![thread[p].turn] = k]
          /\ conversation' = [conversation EXCEPT !.turns = Append(@, thread[p].turn)]
          /\ context' = Append(context, thread[p].turn)
          /\ MoveTo(p, "recording")
          /\ UNCHANGED up
       \/ \* the task, the context or the run throws
          /\ thread' = [thread EXCEPT ![p] = AtRest] /\ up' = (p = "command")
          /\ UNCHANGED <<kind, conversation, context>>
    /\ UNCHANGED <<folding, note, nextTurn, foldEvent, overlap, projection, disk>>

RecordTurn(p) ==
    /\ At(p, {"recording"})
    /\ \E ok \in BOOLEAN : Persist(ok)
    /\ thread' = [thread EXCEPT ![p] = AtRest]
    /\ UNCHANGED <<folding, memory, nextTurn, foldEvent, overlap, projection, up>>

(* clearHistory() does not look at what is under way.                       *)
Clear ==
    /\ ReadsCommand
    /\ context' = <<>> /\ note' = NoNote /\ conversation' = Rebuilt(NoNote, <<>>)
    /\ foldEvent' = NoEvent
    /\ overlap' = (overlap \/ At("prompt", Folds))
    /\ MoveTo("command", "recording")
    /\ UNCHANGED <<folding, kind, nextTurn, projection, up, disk>>

Crash ==
    /\ up
    /\ up' = FALSE
    /\ UNCHANGED <<folding, memory, nextTurn, thread, foldEvent, overlap, projection, disk>>

(* The program starts again: restore(); the projection is looked at for a   *)
(* warning only.  It goes on to a first prompt or to the commands.          *)
Resume ==
    /\ ~up /\ up' = TRUE
    /\ context' = disk.context /\ note' = disk.note /\ conversation' = disk.conversation
    /\ nextTurn' = disk.nextTurn /\ kind' = disk.kind
    /\ \E first \in IF nextTurn' <= MaxTurns THEN {"idle", "submitted"} ELSE {"idle"} :
           thread' = [p \in Threads |-> [AtRest EXCEPT !.at = IF p = "prompt" THEN first ELSE @]]
    /\ foldEvent' = NoEvent
    /\ UNCHANGED <<folding, overlap, projection, disk>>

FoldStep(p) == Summarize(p) \/ SaveProjection(p) \/ Compact(p) \/ PersistFold(p)

FoldNext ==
    \/ FoldCommand \/ Clear \/ Crash \/ Resume
    \/ \E p \in Threads : Submit(p) \/ FoldStep(p) \/ StartTurn(p) \/ TurnEnds(p)
                         \/ RecordTurn(p)

(* The model answers or fails, file operations end, a run has its limits.   *)
FoldFairness ==
    \A p \in Threads : WF_foldVars(FoldStep(p)) /\ WF_foldVars(StartTurn(p))

-----------------------------------------------------------------------------
(* The model is shown the note and the turns the session counts as its      *)
(* context, no more and no less, also after a fold has been rolled back,    *)
(* after a resumption and when a fold, a clear and a turn overlap           *)
(* (agent-session.ts 270-278: one set of facts for compaction, trimming and *)
(* persistence).                                                            *)
ConversationIsContext == conversation = Rebuilt(note, context)

(* A fold switches as a whole or not at all: after one that is reported as  *)
(* failed the history is the one before, after one that succeeded the note  *)
(* is about every turn that left the context (the fold transaction,         *)
(* agent-session.ts 346-350).  Not so when a second fold or a clear has     *)
(* been begun in the middle of it: nothing keeps them apart.                *)
FoldSwitchesWhole ==
    ~overlap =>
        /\ (foldEvent.how = "failed") =>
               /\ note = foldEvent.note
               /\ IsPrefix(foldEvent.removed, context)
        /\ (foldEvent.how = "ok" /\ folding) =>
               /\ TurnsOf(foldEvent.removed) \subseteq note.about
               /\ TurnsOf(foldEvent.removed) \cap TurnsOf(context) = {}

(* A turn that was submitted runs, whatever becomes of the fold before it.  *)
AutoFoldNeverBlocks ==
    \A p \in Threads :
        (folding /\ thread[p].auto /\ At(p, Folds)) ~> (At(p, {"running"}) \/ ~up)

=============================================================================
