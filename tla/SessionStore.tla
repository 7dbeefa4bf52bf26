---------------------------- MODULE SessionStore ----------------------------
(***************************************************************************)
(* A persistent session (packages/agent-runtime/src/session):              *)
(*   session-store.ts   load, save, startTurn; two append-only logs, the   *)
(*                      settings and the summary, whose rename commits     *)
(*   agent-session.ts   submit, clearHistory, the settings, resume         *)
(*                                                                         *)
(* Saves are serialised by promise chains, so a save is a sequence of file *)
(* operations between which the process may die and each of which may      *)
(* fail.  An append may get only part of its line to the file.  Writing    *)
(* the settings or the summary, and compacting a log, replace the file     *)
(* atomically.  A session has one process (others are a documented         *)
(* non-goal), so the sequence number of a record is its position.  Titles, *)
(* metrics, the model context and the settings other than the permission   *)
(* mode travel with the snapshot and are left out.                         *)
(***************************************************************************)
EXTENDS Naturals, Sequences, FiniteSets

CONSTANTS
    MaxTurns,    \* bound: submitted prompts
    MaxSaves,    \* bound: generations
    MaxFaults,   \* bound: failing file operations
    MaxCrashes,  \* bound: deaths of the process
    MaxDamages   \* bound: summaries a crash of the machine leaves unreadable

ASSUME SessionAssumption ==
    {MaxTurns, MaxSaves, MaxFaults, MaxCrashes, MaxDamages} \subseteq Nat

VARIABLES
    updates, chat,          \* updates.jsonl and chat_history.jsonl
    settings,               \* settings.json
    summary,                \* summary.json
    snapshots,              \* the snapshot each save was given; the last may be in progress
    turns, mode, nextTurn,  \* of the AgentSession
    phase,                  \* of the process: where the turn is, or that it is down
    step, written,          \* of a save: the next file operation, turns appended so far
    committed,              \* history: the generation the summary was last written for
    emptied,                \* history: the last generation without turns that was saved
    announced,              \* history: the turn startTurn has recorded
    limits

files   == <<updates, chat, settings, summary>>
memory  == <<turns, mode, nextTurn>>
history == <<committed, emptied, announced>>
sessionStoreVars == <<files, snapshots, memory, phase, step, written, history, limits>>

-----------------------------------------------------------------------------
(* The files.  A log is its lines and the state of what follows the last     *)
(* newline: nothing, the last of the lines itself ("bare"), a fragment, or a *)
(* fragment that has "swallowed" such a line.                                *)
Garbled    == [gen |-> 0]
NoLog      == [lines |-> <<>>, tail |-> "none"]
NoFile     == [gen |-> 0]
Unreadable == [gen |-> 0, damaged |-> TRUE]

Mode     == {"ask", "auto"}
(* The latest generation and what save writes of it.                         *)
gen == Len(snapshots)
Saved == snapshots[gen]
UpdateRecord(i) == [gen |-> gen, turn |-> Saved.turns[i]]
ChatRecord == [gen |-> gen, count |-> Len(Saved.turns), mode |-> Saved.mode, next |-> Saved.next]

(* The records of a generation, in their order.                              *)
Generation(g, log) ==
    LET among[i \in 0..Len(log.lines)] ==
            IF i = 0 THEN <<>>
            ELSE IF log.lines[i].gen = g THEN Append(among[i - 1], log.lines[i])
            ELSE among[i - 1]
    IN  among[Len(log.lines)]

(* readRecords: a line that does not parse throws, unless it is unterminated.*)
Readable(log) == \A i \in DOMAIN log.lines : log.lines[i] # Garbled

(* Bytes after an unterminated line make one line with it.                   *)
Terminated(log) == IF log.tail = "bare" THEN SubSeq(log.lines, 1, Len(log.lines) - 1)
                                        ELSE log.lines

Appended(log, record) ==
    [lines |-> Append(Terminated(log), IF log.tail = "none" THEN record ELSE Garbled),
     tail  |-> "none"]

(* What an append that fails, or is cut off, may leave: the log as it was,   *)
(* part of the line, or all of it without the newline.                       *)
PartlyAppended(log, record) ==
    {log, [lines |-> Terminated(log),
           tail  |-> IF log.tail \in {"none", "fragment"} THEN "fragment" ELSE "swallowed"]}
    \cup (IF log.tail = "none" THEN {[lines |-> Append(log.lines, record), tail |-> "bare"]}
                               ELSE {})

(* No record was lost because another was appended to an unterminated line.  *)
Intact == \A log \in {updates, chat} : Readable(log) /\ log.tail # "swallowed"

-----------------------------------------------------------------------------
(* load, of the files as they are.                                           *)

(* Nothing was ever stored: undefined, and the session starts afresh.        *)
Absent == summary = NoFile /\ updates.lines = <<>> /\ chat.lines = <<>>

HasSummary == summary \notin {NoFile, Unreadable}

(* recoverSummary: the newest chat record all of whose turns are there.      *)
Complete == {g \in 1..gen : \E i \in DOMAIN chat.lines :
                /\ chat.lines[i].gen = g
                /\ Len(Generation(g, updates)) = chat.lines[i].count}

Recovered ==
    IF HasSummary THEN summary
    ELSE IF Complete = {} THEN NoFile
    ELSE LET g == CHOOSE g \in Complete : \A h \in Complete : h <= g IN
         [gen |-> g, count |-> Len(Generation(g, updates)), pending |-> 0]

Loadable ==
    LET g == Recovered.gen IN
    /\ Readable(updates) /\ Readable(chat)
    /\ g # 0 /\ Generation(g, chat) # <<>>
    /\ Len(Generation(g, updates)) = Recovered.count

(* Mutant: the settings of another generation are taken too.                 *)
LoadedAnySettings ==
    LET snapshot == Generation(Recovered.gen, chat)[1] IN
    IF settings = NoFile THEN [mode |-> "ask", next |-> snapshot.next] ELSE settings

(* readSettings: without the file the mode is "ask"; settings of another     *)
(* generation give way to the snapshot's.                                    *)
LoadedSettings ==
    LET snapshot == Generation(Recovered.gen, chat)[1] IN
    IF settings = NoFile THEN [mode |-> "ask", next |-> snapshot.next]
    ELSE IF settings.gen = Recovered.gen THEN settings
    ELSE snapshot

LoadedTurns ==
    LET stored == Generation(Recovered.gen, updates) IN
    [i \in DOMAIN stored |-> stored[i].turn] \o
    (IF Recovered.pending = 0 THEN <<>> ELSE <<[id |-> Recovered.pending, done |-> FALSE]>>)

-----------------------------------------------------------------------------
SessionInit ==
    /\ updates = NoLog /\ chat = NoLog /\ settings = NoFile /\ summary = NoFile
    /\ snapshots = <<>>
    /\ turns = <<>> /\ mode = "ask" /\ nextTurn = 1
    /\ phase = "idle" /\ step = "none" /\ written = 0
    /\ committed = 0 /\ emptied = 0 /\ announced = 0
    /\ limits = [faults |-> 0, crashes |-> 0, damages |-> 0]

-----------------------------------------------------------------------------
(* AgentSession.                                                             *)

(* persist: the snapshot is taken when the save's turn has come.             *)
Persist ==
    /\ step = "none" /\ Len(snapshots) < MaxSaves
    /\ snapshots' = Append(snapshots, [turns |-> turns', mode |-> mode', next |-> nextTurn'])
    /\ step' = "read"
    /\ UNCHANGED <<files, written, limits>>

(* submit: the turn takes its number and the session is saved.               *)
BeginTurn ==
    /\ phase = "idle" /\ nextTurn <= MaxTurns
    /\ nextTurn' = nextTurn + 1 /\ UNCHANGED <<turns, mode>>
    /\ phase' = "begun"
    /\ announced' = 0 /\ UNCHANGED <<committed, emptied>>
    /\ Persist

(* Mutant: the session is saved once more after the start is recorded.       *)
StartTurnThenPersist ==
    /\ phase = "starting"
    /\ announced' = nextTurn - 1
    /\ phase' = "running"
    /\ UNCHANGED <<memory, committed, emptied>>
    /\ Persist

(* startTurn, when that save has succeeded.                                  *)
StartTurn ==
    /\ phase = "starting" /\ step = "none"
    /\ summary' = [summary EXCEPT !.pending = nextTurn - 1]
    /\ announced' = nextTurn - 1
    /\ phase' = "running"
    /\ UNCHANGED <<updates, chat, settings, snapshots, memory, step, written>>
    /\ UNCHANGED <<committed, emptied, limits>>

StartTurnFails ==
    /\ phase = "starting" /\ step = "none" /\ limits.faults < MaxFaults
    /\ phase' = "running"
    /\ limits' = [limits EXCEPT !.faults = @ + 1]
    /\ UNCHANGED <<files, snapshots, memory, step, written, history>>

TurnEnds ==
    /\ phase = "running"
    /\ turns' = Append(turns, [id |-> nextTurn - 1, done |-> TRUE])
    /\ UNCHANGED <<mode, nextTurn>>
    /\ phase' = "idle"
    /\ UNCHANGED history
    /\ Persist

(* The agent throws: nothing is stored.                                      *)
TurnThrows ==
    /\ phase = "running" /\ step = "none"
    /\ phase' = "idle"
    /\ announced' = 0
    /\ UNCHANGED <<files, snapshots, memory, step, written, committed, emptied, limits>>

(* The terminal takes no command while it waits for one, but it does while   *)
(* the prompt of the command line runs.  The save forgets that turn's start. *)
SetPermissionMode(m) ==
    /\ phase \in {"idle", "starting", "running"}
    /\ mode' = m /\ UNCHANGED <<turns, nextTurn>>
    /\ announced' = IF phase = "running" THEN 0 ELSE announced
    /\ UNCHANGED <<phase, committed, emptied>>
    /\ Persist

ClearHistory ==
    /\ phase \in {"idle", "starting", "running"}
    /\ turns' = <<>> /\ UNCHANGED <<mode, nextTurn>>
    /\ announced' = 0
    /\ UNCHANGED <<phase, committed, emptied>>
    /\ Persist

-----------------------------------------------------------------------------
(* SessionStore.save, one file operation after the other.                    *)

(* persistSafely keeps the session going; only the begin of a turn looks at  *)
(* the outcome.                                                              *)
SaveEnds(ok) ==
    /\ step' = "none"
    /\ phase' = IF phase # "begun" THEN phase ELSE IF ok THEN "starting" ELSE "running"
    /\ emptied' = IF ok /\ Saved.turns = <<>> THEN gen ELSE emptied

ReadLogs ==
    /\ step = "read"
    /\ IF Readable(updates) /\ Readable(chat)
       THEN step' = "turns" /\ UNCHANGED <<phase, emptied>>
       ELSE SaveEnds(FALSE)
    /\ written' = 0
    /\ UNCHANGED <<files, snapshots, memory, committed, announced, limits>>

AppendTurn ==
    /\ step = "turns" /\ written < Len(Saved.turns)
    /\ updates' = Appended(updates, UpdateRecord(written + 1))
    /\ written' = written + 1
    /\ UNCHANGED <<chat, settings, summary, snapshots, memory, phase, step, history, limits>>

TurnsAppended ==
    /\ step = "turns" /\ written = Len(Saved.turns)
    /\ step' = "chat"
    /\ UNCHANGED <<files, snapshots, memory, phase, written, history, limits>>

AppendChat ==
    /\ step = "chat"
    /\ chat' = Appended(chat, ChatRecord)
    /\ step' = "settings"
    /\ UNCHANGED <<updates, settings, summary, snapshots, memory, phase, written, history, limits>>

WriteSettings ==
    /\ step = "settings"
    /\ settings' = [gen |-> gen, mode |-> Saved.mode, next |-> Saved.next]
    /\ step' = "summary"
    /\ UNCHANGED <<updates, chat, summary, snapshots, memory, phase, written, history, limits>>

(* The rename of the summary commits the generation.                         *)
WriteSummary ==
    /\ step = "summary"
    /\ summary' = [gen |-> gen, count |-> Len(Saved.turns), pending |-> 0]
    /\ committed' = gen
    /\ step' = "shrink updates"
    /\ UNCHANGED <<updates, chat, settings, snapshots, memory, phase, written>>
    /\ UNCHANGED <<emptied, announced, limits>>

ShrinkUpdates ==
    /\ step = "shrink updates"
    /\ updates' = [lines |-> [i \in DOMAIN Saved.turns |-> UpdateRecord(i)], tail |-> "none"]
    /\ step' = "shrink chat"
    /\ UNCHANGED <<chat, settings, summary, snapshots, memory, phase, written, history, limits>>

ShrinkChat ==
    /\ step = "shrink chat"
    /\ chat' = [lines |-> <<ChatRecord>>, tail |-> "none"]
    /\ SaveEnds(TRUE)
    /\ UNCHANGED <<updates, settings, summary, snapshots, memory, written, committed>>
    /\ UNCHANGED <<announced, limits>>

(* What the operation under way may have done when it fails or is cut off.   *)
CutOff ==
    \/ /\ step = "turns" /\ written < Len(Saved.turns)
       /\ updates' \in PartlyAppended(updates, UpdateRecord(written + 1))
       /\ UNCHANGED <<chat, settings, summary>>
    \/ /\ step = "chat"
       /\ chat' \in PartlyAppended(chat, ChatRecord)
       /\ UNCHANGED <<updates, settings, summary>>
    \/ UNCHANGED files

Compacting == step \in {"shrink updates", "shrink chat"}

(* Mutant: a failed compaction never matters.                                *)
SaveFailsLeniently ==
    /\ step # "none" /\ limits.faults < MaxFaults
    /\ CutOff
    /\ SaveEnds(Compacting)
    /\ limits' = [limits EXCEPT !.faults = @ + 1]
    /\ UNCHANGED <<snapshots, memory, written, committed, announced>>

(* A failed compaction is forgiven when the generation has turns.            *)
SaveFails ==
    /\ step # "none" /\ limits.faults < MaxFaults
    /\ CutOff
    /\ SaveEnds(Compacting /\ Saved.turns # <<>>)
    /\ limits' = [limits EXCEPT !.faults = @ + 1]
    /\ UNCHANGED <<snapshots, memory, written, committed, announced>>

-----------------------------------------------------------------------------
(* The process ends, in the middle of a save or not, and a new one resumes.  *)
Crash ==
    /\ phase # "down" /\ limits.crashes < MaxCrashes
    /\ CutOff
    /\ phase' = "down" /\ step' = "none" /\ written' = 0
    /\ turns' = <<>> /\ mode' = "ask" /\ nextTurn' = 1
    /\ limits' = [limits EXCEPT !.crashes = @ + 1]
    /\ UNCHANGED <<snapshots, history>>

(* Renames are not synced to the disk.                                       *)
Damage ==
    /\ phase = "down" /\ summary # NoFile /\ limits.damages < MaxDamages
    /\ summary' = Unreadable
    /\ limits' = [limits EXCEPT !.damages = @ + 1]
    /\ UNCHANGED <<updates, chat, settings, snapshots, memory, phase, step, written, history>>

StartAfresh ==
    /\ phase = "down" /\ Absent
    /\ phase' = "idle"
    /\ UNCHANGED <<files, snapshots, memory, step, written, history, limits>>

(* load writes the summary it had to recover.  When it refuses, the program  *)
(* ends, and nothing changes for the next attempt.                           *)
Resume ==
    /\ phase = "down" /\ ~Absent /\ Loadable
    /\ turns' = LoadedTurns
    /\ mode' = LoadedSettings.mode /\ nextTurn' = LoadedSettings.next
    /\ IF HasSummary THEN UNCHANGED <<summary, committed>>
                     ELSE summary' = Recovered /\ committed' = Recovered.gen
    /\ phase' = "idle"
    /\ UNCHANGED <<updates, chat, settings, snapshots, step, written, emptied, announced, limits>>

-----------------------------------------------------------------------------
Save == ReadLogs \/ AppendTurn \/ TurnsAppended \/ AppendChat \/ WriteSettings \/ WriteSummary
        \/ ShrinkUpdates \/ ShrinkChat \/ SaveFails

SessionNext ==
    \/ BeginTurn \/ StartTurn \/ StartTurnFails \/ TurnEnds \/ TurnThrows
    \/ \E m \in Mode : SetPermissionMode(m)
    \/ ClearHistory
    \/ Save
    \/ Crash \/ Damage \/ StartAfresh \/ Resume

-----------------------------------------------------------------------------
(* Properties.                                                               *)

(* Whatever process died or operation failed in the middle of a save, what a *)
(* load returns is one whole generation: its turns, its settings, and the    *)
(* turn that was under way.  It is the committed one unless the summary was  *)
(* damaged, and then none older; and it is refused only for a garbled line.  *)
(* (Without a settings file the mode is the safe default.)                   *)
LoadsCommitted ==
    committed # 0 /\ Intact =>
        /\ Loadable
        /\ IF HasSummary THEN Recovered.gen = committed ELSE Recovered.gen >= committed
        /\ LET snapshot == snapshots[Recovered.gen] IN
           /\ SubSeq(LoadedTurns, 1, Len(snapshot.turns)) = snapshot.turns
           /\ LoadedSettings.next = snapshot.next
           /\ LoadedSettings.mode = IF settings = NoFile THEN "ask" ELSE snapshot.mode

(* A turn whose start was recorded is in every later load, as interrupted or *)
(* with its result, until the next turn begins, however often the process    *)
(* dies and saves fail (with the summary intact, no garbled line, and no     *)
(* command saved while it ran).                                              *)
InterruptedKept ==
    announced # 0 /\ limits.damages = 0 /\ Intact =>
        /\ Loadable
        /\ \E i \in DOMAIN LoadedTurns : LoadedTurns[i].id = announced

(* After a save without turns has succeeded (a clear), the logs hold nothing *)
(* of what was stored before (tests/unit/session-store.test.ts:180).         *)
ClearedIsGone ==
    \A log \in {updates, chat} : \A i \in DOMAIN log.lines :
        log.lines[i] # Garbled => log.lines[i].gen >= emptied

(* docs/SESSION_MANAGEMENT.md:23 says that an incomplete last line is        *)
(* ignored, so a session that was committed can be loaded.  But save appends *)
(* to that line, which then is in the middle.                                *)
TornTailIgnored == committed # 0 => Loadable
=============================================================================
