--------------------------- MODULE TerminalInput ---------------------------
(***************************************************************************)
(* The keys of the interactive agent (apps/agent/src/terminal-ui.ts).  The *)
(* terminal sends keys and mouse events as bytes, and they arrive in       *)
(* chunks that end anywhere; what is left of a chunk is flushed after 50   *)
(* ms.  A key goes to the open prompt, to the running turn or to the line. *)
(***************************************************************************)
EXTENDS Integers, Sequences, SequencesExt

CONSTANTS Keys,    \* what the user presses
          MaxKeys, \* bound on the keys pressed
          MaxTurns \* bound on the lines submitted

(* ESC is a byte; the key that sends it alone is "escape", and a bracket    *)
(* typed after that key is, to any reader, a sequence that begins.          *)
ASSUME KeysAssumption ==
    "ESC" \notin Keys /\ ("escape" \notin Keys \/ "[" \notin Keys) /\ MaxKeys \in Nat

VARIABLES pressed,     \* the keys, in order
          sent,        \* their bytes that have not arrived
          rawInput,    \* rawInputBuffer
          escapeTimer, \* "off", "set", "stale" when older than the last chunk
          read,        \* the keys the bytes were taken for
          torn,        \* a chunk ended right after the ESC of a sequence, or the rest took 50 ms
          ui           \* active, submitting, the prompt, the line and its cursor

byteVars == <<pressed, sent, rawInput, escapeTimer, read, torn>>
inputVars == <<byteVars, ui>>

InputInit ==
    /\ pressed = <<>> /\ sent = <<>> /\ rawInput = <<>> /\ escapeTimer = "off" /\ read = <<>>
    /\ torn = FALSE
    /\ ui = [active |-> TRUE, submitting |-> FALSE, prompt |-> "none", line |-> <<>>,
             cursor |-> 0, turns |-> 0]

(* A wheel event carries numbers, which are one byte here.                  *)
Bytes(key) ==
    CASE key = "escape" -> <<"ESC">>
      [] key = "left" -> <<"ESC", "[", "D">>
      [] key = "wheel" -> <<"ESC", "[", "<", "0", "M">>
      [] OTHER -> <<key>>

Press(key) ==
    /\ Len(pressed) < MaxKeys
    /\ pressed' = Append(pressed, key)
    /\ sent' = sent \o Bytes(key)
    /\ UNCHANGED <<rawInput, escapeTimer, read, torn, ui>>

(* How many bytes from i on are one key; none when the rest has to arrive.  *)
Width(bytes, i) ==
    LET At(j, b) == j <= Len(bytes) /\ bytes[j] = b
    IN IF ~(At(i, "ESC") /\ At(i + 1, "[")) THEN 1
       ELSE IF At(i + 2, "<") THEN IF i + 4 <= Len(bytes) THEN 5 ELSE 0
       ELSE IF i + 2 <= Len(bytes) THEN 3 ELSE 0

KeyOf(bytes) == IF \E key \in Keys : Bytes(key) = bytes
                THEN CHOOSE key \in Keys : Bytes(key) = bytes
                ELSE IF bytes = <<"ESC">> THEN "escape" ELSE Head(bytes)

(* consumeInputBuffer: the keys in the buffer, and what stays in it.        *)
Consumed(bytes) ==
    LET from[i \in 1 .. Len(bytes) + 1] ==
            LET w == IF i > Len(bytes) THEN 0 ELSE Width(bytes, i)
            IN IF w = 0 THEN [keys |-> <<>>, rest |-> SubSeq(bytes, i, Len(bytes))]
               ELSE [from[i + w] EXCEPT !.keys = <<KeyOf(SubSeq(bytes, i, i + w - 1))>> \o @]
    IN from[1]

(* Text at the cursor.                                                      *)
Typed(u, value) ==
    [u EXCEPT !.line = SubSeq(@, 1, u.cursor) \o <<value>> \o SubSeq(@, u.cursor + 1, Len(@)),
              !.cursor = @ + 1]

(* onKeypress.  Anything but an answer is ignored while a prompt is open,   *)
(* ^C too; what is pressed during a turn and does not cancel it is dropped. *)
Handled(u, key) ==
    CASE u.prompt = "confirm" ->
           IF key \in {"y", "n", "return", "escape"} THEN [u EXCEPT !.prompt = "none"] ELSE u
      [] u.prompt = "question" ->
           IF key \in {"1", "return", "escape"} THEN [u EXCEPT !.prompt = "none"] ELSE u
      [] u.prompt = "none" /\ key \in {"^C", "escape"} ->
           IF u.submitting THEN u ELSE [u EXCEPT !.active = FALSE]
      [] u.prompt = "none" /\ key \notin {"^C", "escape"} ->
           IF ~u.active \/ u.submitting \/ key = "wheel" THEN u
           ELSE CASE key = "return" ->
                       [u EXCEPT !.line = <<>>, !.cursor = 0, !.submitting = (u.line # <<>>)]
                  [] key = "backspace" ->
                       IF u.cursor = 0 THEN u
                       ELSE [u EXCEPT !.line = RemoveAt(@, u.cursor), !.cursor = @ - 1]
                  [] key = "left" -> [u EXCEPT !.cursor = IF @ = 0 THEN 0 ELSE @ - 1]
                  [] OTHER -> Typed(u, key)

(* The bytes are taken in; stop() drops what is left of them.               *)
TakeIn(bytes, oldTimer) ==
    LET c == Consumed(bytes)
        after[k \in 0 .. Len(c.keys)] ==
            IF k = 0 THEN ui ELSE Handled(after[k - 1], c.keys[k])
        u == after[Len(c.keys)]
        rest == IF u.active THEN c.rest ELSE <<>>
    IN /\ ui' = u /\ rawInput' = rest /\ read' = read \o c.keys
       /\ escapeTimer' = IF rest = <<>> \/ oldTimer # "off" THEN oldTimer ELSE "set"

(* A chunk that ends after the ESC of a sequence.                           *)
EndsInside(n) == sent[n] = "ESC" /\ n < Len(sent) /\ sent[n + 1] = "["

(* Mutant: the timer of the chunk before goes on.                           *)
InputArrivesTimerKept(n) ==
    /\ ui.active /\ n <= Len(sent)
    /\ torn' = (torn \/ EndsInside(n))
    /\ sent' = SubSeq(sent, n + 1, Len(sent))
    /\ TakeIn(rawInput \o SubSeq(sent, 1, n), IF escapeTimer = "off" THEN "off" ELSE "stale")
    /\ UNCHANGED pressed

(* onInputData.                                                             *)
InputArrives(n) ==
    /\ ui.active /\ n <= Len(sent)
    /\ torn' = (torn \/ EndsInside(n))
    /\ sent' = SubSeq(sent, n + 1, Len(sent))
    /\ TakeIn(rawInput \o SubSeq(sent, 1, n), "off")
    /\ UNCHANGED pressed

(* The flush takes what is there of the sequence for the escape key.        *)
EscapeFlush ==
    /\ escapeTimer # "off"
    /\ escapeTimer' = "off"
    /\ IF rawInput = <<>> THEN UNCHANGED <<rawInput, read, torn, ui>>
       ELSE /\ rawInput' = <<>> /\ read' = Append(read, "escape")
            /\ torn' = (torn \/ escapeTimer = "set")
            /\ ui' = Handled(ui, "escape")
    /\ UNCHANGED <<pressed, sent>>

(* The turn asks for a permission or a choice; a second prompt takes the    *)
(* place of the first.                                                      *)
PromptOpens(kind) ==
    /\ ui.active /\ ui.submitting
    /\ ui' = [ui EXCEPT !.prompt = kind]
    /\ UNCHANGED byteVars

PromptAborted ==
    /\ ui.prompt # "none"
    /\ ui' = [ui EXCEPT !.prompt = "none"]
    /\ UNCHANGED byteVars

TurnEnds ==
    /\ ui.submitting /\ ui.turns < MaxTurns
    /\ ui' = [ui EXCEPT !.submitting = FALSE, !.turns = @ + 1]
    /\ UNCHANGED byteVars

InputNext ==
    \/ \E key \in Keys : Press(key)
    \/ \E n \in 1 .. 5 * MaxKeys : InputArrives(n)
    \/ \E kind \in {"confirm", "question"} : PromptOpens(kind)
    \/ EscapeFlush \/ PromptAborted \/ TurnEnds

InputFairness == WF_inputVars(EscapeFlush)

(* However the bytes are cut into chunks, they are taken for the keys that  *)
(* were pressed, one by one, except for a sequence cut after its first byte *)
(* or kept waiting for 50 ms (terminal-ui.ts 404-465, 499-510).             *)
KeysAsPressed ==
    ~torn => /\ IsPrefix(read, pressed)
             /\ ui.active /\ sent = <<>> /\ rawInput = <<>> => read = pressed

(* A sequence whose rest has not arrived.                                   *)
FragmentWaits == ui.active /\ rawInput # <<>>

=============================================================================
