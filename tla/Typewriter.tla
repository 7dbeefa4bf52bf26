----------------------------- MODULE Typewriter -----------------------------
(***************************************************************************)
(* The replies of the model on the screen of the interactive agent (apps/  *)
(* agent/src/terminal-ui.ts, terminal-ui-event-sink.ts): the text of a     *)
(* reply is in its message as it arrives, and on the screen letter by      *)
(* letter behind it.  Text is a pair: of which reply, how many pieces.     *)
(***************************************************************************)
EXTENDS Integers, Sequences

CONSTANTS MaxStreams, \* bound on the replies
          MaxText,    \* bound on the pieces of one
          MaxOthers   \* bound on the other messages

ASSUME TypewriterAssumption == MaxStreams \in Nat /\ MaxText \in Nat /\ MaxOthers \in Nat

VARIABLES messages,    \* content of the messages
          streamIndex, \* streamMessageIndex, 0 for none
          streaming,   \* streaming, streamCompleted, and whether its turn is over
          target,      \* streamTarget
          displayed,   \* streamDisplayed
          streamTimer, \* is set
          begun,       \* replies begun
          received,    \* pieces of each that have arrived
          moved        \* messages were cleared under a stream

typeVars == <<messages, streamIndex, streaming, target, displayed, streamTimer, begun, received, moved>>

NoText == [of |-> 0, pieces |-> 0]

TypeInit ==
    /\ messages = <<>> /\ streamIndex = 0
    /\ streaming = [on |-> FALSE, completed |-> FALSE, over |-> FALSE]
    /\ target = NoText /\ displayed = 0 /\ streamTimer = FALSE
    /\ begun = 0 /\ received = [s \in 1 .. MaxStreams |-> 0] /\ moved = FALSE

(* pumpStream: sets the timer, or is done with a completed reply.           *)
Pump(shown, text, on) ==
    /\ displayed' = shown
    /\ streamTimer' = (streamTimer \/ shown < text.pieces)
    /\ IF ~streamTimer /\ shown >= text.pieces /\ on.completed
       THEN streamIndex' = 0 /\ streaming' = [on EXCEPT !.on = FALSE]
       ELSE streamIndex' = streamIndex /\ streaming' = on

(* Messages with the flushed text of the stream in its place.               *)
Flushed == IF streamIndex \in DOMAIN messages THEN [messages EXCEPT ![streamIndex] = target] ELSE messages

(* Mutant: the reply goes on after the text of the one before.              *)
BeginStreamKeepsTarget ==
    /\ begun < MaxStreams
    /\ begun' = begun + 1
    /\ messages' = Append(Flushed, [of |-> begun + 1, pieces |-> 0])
    /\ streamIndex' = Len(messages) + 1 /\ displayed' = 0 /\ streamTimer' = FALSE
    /\ streaming' = [on |-> TRUE, completed |-> FALSE, over |-> FALSE]
    /\ target' = [target EXCEPT !.of = begun + 1]
    /\ UNCHANGED <<received, moved>>

(* model.requested: beginAssistantStream, after flushStream for the reply   *)
(* before, which may have failed or been cancelled.                         *)
BeginStream ==
    /\ begun < MaxStreams
    /\ begun' = begun + 1
    /\ messages' = Append(Flushed, [of |-> begun + 1, pieces |-> 0])
    /\ streamIndex' = Len(messages) + 1 /\ displayed' = 0 /\ streamTimer' = FALSE
    /\ streaming' = [on |-> TRUE, completed |-> FALSE, over |-> FALSE]
    /\ target' = [of |-> begun + 1, pieces |-> 0]
    /\ UNCHANGED <<received, moved>>

(* Of a turn that is running and has begun its reply.                       *)
Arriving == streaming.on /\ ~streaming.completed /\ ~streaming.over

(* model.text_delta: appendAssistantDelta.                                  *)
Delta ==
    /\ Arriving /\ received[begun] < MaxText
    /\ messages' = [messages EXCEPT ![streamIndex].pieces = @ + 1]
    /\ received' = [received EXCEPT ![begun] = @ + 1]
    /\ target' = [target EXCEPT !.pieces = @ + 1]
    /\ Pump(displayed, target', streaming)
    /\ UNCHANGED <<begun, moved>>

(* model.completed: finishAssistantStream.                                  *)
Completed ==
    /\ Arriving
    /\ Pump(displayed, target, [streaming EXCEPT !.completed = TRUE])
    /\ UNCHANGED <<messages, target, begun, received, moved>>

(* The timer shows some more; the step grows with what is to be shown.      *)
TypeOn ==
    /\ streamTimer
    /\ LET shown == displayed + ((target.pieces - displayed + 15) \div 16)
       IN /\ displayed' = shown
          /\ streamTimer' = (shown < target.pieces)
          /\ IF shown >= target.pieces /\ streaming.completed
             THEN streamIndex' = 0 /\ streaming' = [streaming EXCEPT !.on = FALSE]
             ELSE UNCHANGED <<streamIndex, streaming>>
    /\ UNCHANGED <<messages, target, begun, received, moved>>

(* addMessage: of a tool, of the program, or of the user.                   *)
AddMessage ==
    /\ Len(messages) < MaxStreams + MaxOthers
    /\ messages' = Append(messages, NoText)
    /\ UNCHANGED <<streamIndex, streaming, target, displayed, streamTimer, begun, received, moved>>

(* /clear and a change of session, between turns: clearMessages, which      *)
(* leaves the stream of a reply that was cancelled as it is.                *)
ClearMessages ==
    /\ messages # <<>>
    /\ messages' = <<>>
    /\ streaming' = [streaming EXCEPT !.over = TRUE]
    /\ moved' = (moved \/ streamIndex # 0)
    /\ UNCHANGED <<streamIndex, target, displayed, streamTimer, begun, received>>

TypeNext == BeginStream \/ Delta \/ Completed \/ TypeOn \/ AddMessage \/ ClearMessages

TypeFairness == WF_typeVars(TypeOn)

(* Every reply stays in a message of its own with all its pieces and        *)
(* nothing else, whatever replies were cut off before it (terminal-ui.ts    *)
(* 118-153, 536-572), unless messages are cleared under a stream.           *)
RepliesIntact ==
    ~moved => \A i \in DOMAIN messages :
        messages[i].of # 0 =>
            /\ messages[i].pieces = received[messages[i].of]
            /\ \A j \in DOMAIN messages \ {i} : messages[j].of # messages[i].of

(* A completed reply that is not all on the screen.                         *)
TypingLags == streaming.on /\ streaming.completed

=============================================================================
