---------------------------- MODULE ModelStream ----------------------------
(***************************************************************************)
(* The replies of one run as they come over the wire: the streams of the   *)
(* two providers (packages/agent-runtime/src/models/openai-model-provider  *)
(* .ts and anthropic-model-provider.ts), and what the runner makes of a    *)
(* reply that fails, is cut off or holds tool calls (agent/agent-runner    *)
(* .ts).  Text is counted in pieces; the arguments of a call are a JSON    *)
(* object, of which none, a part or all has arrived.                       *)
(***************************************************************************)
EXTENDS Integers, Sequences

CONSTANTS MaxPieces,      \* bound on the pieces of text of one reply
          MaxReplyCalls,  \* bound on the tool calls of one reply
          MaxReplies,     \* bound on the replies of the run
          MaxModelRetries \* limits.modelRetries

VARIABLES provider,  \* "openai" or "anthropic"
          continues, \* limits.maxTokensContinuation
          tools,     \* toolsEnabled
          stage,     \* "request", "stream", "done"
          replies,   \* turns: requests the runner has made, retries not counted
          retries,   \* attempt of requestModelWithRetry
          text,      \* pieces of the reply in hand
          buffers,   \* tool calls of the reply: has arguments at all, and how much is here
          reason,    \* finish_reason or stop_reason on the wire
          prefix,    \* truncatedPrefix, as the parts it was put together from
          continued, \* continuationUsed
          responses, \* every finalResponse so far; the last is the one that counts
          ending,    \* "none", "final", "exhausted", "failed", "aborted"
          (* What has happened, for the properties only.                    *)
          streamed,  \* pieces given to onTextDelta, by reply
          plain,     \* replies that have ended without calls
          executed   \* calls handed to the tool executor

wireVars == <<text, buffers, reason>>
runVars == <<provider, continues, tools>>
textVars == <<prefix, continued, responses, plain>>
streamVars == <<runVars, stage, replies, retries, wireVars, textVars, streamed, executed, ending>>

StreamInit ==
    /\ provider \in {"openai", "anthropic"} /\ continues \in BOOLEAN /\ tools \in BOOLEAN
    /\ stage = "request" /\ replies = 1 /\ retries = 0
    /\ text = 0 /\ buffers = <<>> /\ reason = "none"
    /\ prefix = <<>> /\ continued = FALSE /\ responses = <<>>
    /\ streamed = <<0>> /\ plain = {} /\ executed = {} /\ ending = "none"

(* The reply in hand is done with.                                          *)
NewReply == text' = 0 /\ buffers' = <<>> /\ reason' = "none"

Stops(how) == stage' = "done" /\ ending' = how /\ NewReply

(* The service answers with a status, or not at all.  Without a status the  *)
(* error is not retryable, and 408 is for one provider only.                *)
RetryableStatus == IF provider = "openai" THEN {408, 429, 500} ELSE {429, 500}

RequestFails(status) ==
    /\ stage = "request"
    /\ IF status \in RetryableStatus /\ retries < MaxModelRetries /\ streamed[replies] = 0
       THEN /\ retries' = retries + 1
            /\ UNCHANGED <<stage, wireVars, ending>>
       ELSE Stops("failed") /\ UNCHANGED retries
    /\ UNCHANGED <<runVars, replies, textVars, streamed, executed>>

StreamOpens ==
    /\ stage = "request"
    /\ stage' = "stream"
    /\ UNCHANGED <<runVars, replies, retries, wireVars, textVars, streamed, executed, ending>>

TextArrives ==
    /\ stage = "stream" /\ reason = "none" /\ text < MaxPieces
    /\ text' = text + 1 /\ streamed' = [streamed EXCEPT ![replies] = @ + 1]
    /\ UNCHANGED <<runVars, stage, replies, retries, buffers, reason, textVars, executed, ending>>

(* meant: the model calls the tool with arguments.                          *)
CallBegins(meant) ==
    /\ stage = "stream" /\ reason = "none" /\ Len(buffers) < MaxReplyCalls
    /\ buffers' = Append(buffers, [meant |-> meant, args |-> "none"])
    /\ UNCHANGED <<runVars, stage, replies, retries, text, reason, textVars, streamed, executed, ending>>

ArgumentsArrive ==
    /\ stage = "stream" /\ reason = "none"
    /\ \E i \in DOMAIN buffers, part \in {"part", "all"} :
          /\ buffers[i].meant /\ buffers[i].args # "all"
          /\ buffers' = [buffers EXCEPT ![i].args = part]
    /\ UNCHANGED <<runVars, stage, replies, retries, text, reason, textVars, streamed, executed, ending>>

(* The service stops at its limit anywhere, and otherwise after a whole     *)
(* reply.                                                                   *)
ReasonArrives(r) ==
    /\ stage = "stream" /\ reason = "none"
    /\ r # "length" =>
          /\ r = (IF buffers = <<>> THEN "stop" ELSE "tools")
          /\ \A i \in DOMAIN buffers : buffers[i].meant => buffers[i].args = "all"
    /\ reason' = r
    /\ UNCHANGED <<runVars, stage, replies, retries, text, buffers, textVars, streamed, executed, ending>>

(* The connection breaks: an error without a status for the one, and an     *)
(* error of the reader nothing maps for the other.  The runner retries      *)
(* neither.                                                                 *)
ConnectionBreaks ==
    /\ stage = "stream"
    /\ Stops("failed")
    /\ UNCHANGED <<runVars, replies, retries, textVars, streamed, executed>>

RunAborted ==
    /\ stage # "done"
    /\ Stops("aborted")
    /\ UNCHANGED <<runVars, replies, retries, textVars, streamed, executed>>

(* parseToolCall, parseStreamTool.                                          *)
Parses(c) == c.args # "part"

(* Mutant: the limit of the service is not told from its other reasons.     *)
StopReasonUnlimited(r, hasTools) ==
    IF r = "tools" \/ hasTools THEN "tool_use" ELSE IF r = "stop" THEN "end_turn" ELSE "unknown"

StopReason(r, hasTools) ==
    IF r = "tools" \/ hasTools THEN "tool_use"
    ELSE CASE r = "length" -> "max_tokens" [] r = "stop" -> "end_turn" [] OTHER -> "unknown"

Fails ==
    /\ Stops("failed")
    /\ UNCHANGED <<runVars, replies, retries, textVars, streamed, executed>>

(* The next turn, if there is one.                                          *)
Another ==
    /\ IF replies < MaxReplies
       THEN /\ stage' = "request" /\ replies' = replies + 1 /\ streamed' = Append(streamed, 0)
            /\ NewReply /\ UNCHANGED ending
       ELSE Stops("exhausted") /\ UNCHANGED <<replies, streamed>>
    /\ retries' = 0
    /\ UNCHANGED runVars

(* response.text, as a part of what the user is told.                       *)
Part == [reply |-> replies, pieces |-> text, cut |-> reason = "length"]

(* The text of a truncated reply stays in the prefix of the reply without   *)
(* calls that comes next.                                                   *)
ContinueReply ==
    /\ continued' = TRUE /\ prefix' = Append(prefix, Part) /\ plain' = plain \union {replies}
    /\ Another
    /\ UNCHANGED <<responses, executed>>

(* The run ends where it is, with the replies there are.                    *)
Ends(ways) ==
    /\ \E how \in ways : Stops(how)
    /\ UNCHANGED <<runVars, replies, retries, streamed>>

(* Mutant: the prefix is not forgotten with the response it went into.      *)
TextReplyKeepsPrefix ==
    /\ responses' = Append(responses, Append(prefix, Part)) /\ plain' = plain \union {replies}
    /\ Another \/ Ends({"final", "failed", "aborted"})
    /\ UNCHANGED <<prefix, continued, executed>>

(* A reply without calls is the response of the run until the next one: it  *)
(* is sent back for want of research, of a source or of a verification that *)
(* passes, or it is the last.  The verification and the collection of the   *)
(* submission may throw.                                                    *)
TextReply ==
    /\ responses' = Append(responses, Append(prefix, Part)) /\ plain' = plain \union {replies}
    /\ Another \/ Ends({"final", "failed", "aborted"})
    /\ prefix' = <<>>
    /\ UNCHANGED <<continued, executed>>

(* The calls are executed in their order, if the model may use tools at     *)
(* all.  One that is refused, over the budget or repeated once too often,   *)
(* and an abort, end the run before the others.                             *)
ExecuteFirst(n) ==
    executed' = executed \union {[args |-> buffers[i].args, cut |-> reason = "length"] : i \in 1 .. n}

ExecuteCalls ==
    /\ \/ ExecuteFirst(IF tools THEN Len(buffers) ELSE 0) /\ Another
       \/ /\ tools /\ \E n \in 0 .. Len(buffers) : ExecuteFirst(n)
          /\ Ends({"exhausted", "failed", "aborted"})
    /\ UNCHANGED textVars

(* The stream ends, whether a reason has come or not.                       *)
StreamEnds ==
    /\ stage = "stream"
    /\ LET stopped == StopReason(reason, buffers # <<>>)
           limited == stopped = "max_tokens" /\ continues
       IN IF \E i \in DOMAIN buffers : ~Parses(buffers[i]) THEN Fails
          ELSE IF limited /\ (buffers # <<>> \/ continued) THEN Fails
          ELSE IF limited THEN ContinueReply
          ELSE IF buffers # <<>> THEN ExecuteCalls
          ELSE TextReply

StreamNext ==
    \/ \E status \in {0, 400, 408, 429, 500} : RequestFails(status)
    \/ StreamOpens \/ TextArrives \/ ArgumentsArrive \/ ConnectionBreaks \/ RunAborted \/ StreamEnds
    \/ \E meant \in BOOLEAN : CallBegins(meant)
    \/ \E r \in {"stop", "tools", "length"} : ReasonArrives(r)

(* What the user is told, response by response, with what is kept for the   *)
(* next.                                                                    *)
Texts == Append(responses, prefix)

(* Every reply without calls is in one response, whole and in its place,    *)
(* through retries, continuations, tool calls in between and responses that *)
(* are sent back: none has more or less than was shown, none is lost or     *)
(* said again, and none that the service has cut off stands at the end of a *)
(* response.  And a tool never runs with a part of its arguments            *)
(* (agent-runner.ts 291-400).                                               *)
RepliesTakenWhole ==
    /\ \A r \in DOMAIN Texts : \A p \in DOMAIN Texts[r] :
           Texts[r][p].pieces = streamed[Texts[r][p].reply]
    /\ \A r, s \in DOMAIN Texts : \A p \in DOMAIN Texts[r], q \in DOMAIN Texts[s] :
           r < s \/ (r = s /\ p < q) => Texts[r][p].reply < Texts[s][q].reply
    /\ \A i \in plain : \E r \in DOMAIN Texts : \E p \in DOMAIN Texts[r] : Texts[r][p].reply = i
    /\ continues => \A r \in DOMAIN responses : ~responses[r][Len(responses[r])].cut
    /\ \A e \in executed : e.args # "part"

(* A call out of a reply the service has cut off is not executed, as the    *)
(* comment at agent-runner.ts 292-293 says.                                 *)
TruncatedCallRefused == continues => \A e \in executed : ~e.cut

=============================================================================
