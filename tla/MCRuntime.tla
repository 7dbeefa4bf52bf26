----------------------------- MODULE MCRuntime -----------------------------
(***************************************************************************)
(* The parts of the runtime around the agent loop that hold state of their *)
(* own over several steps: background tasks, subagents queued for a slot,  *)
(* requests to MCP servers, sandboxed commands, folds of the conversation, *)
(* and the shell that switches between sessions.  They share no state      *)
(* here, so a behaviour is about one of them, chosen at the start, and the *)
(* run checks each against all it can do.                                  *)
(***************************************************************************)
EXTENDS BackgroundTask, SubagentSlots, McpClient, SandboxRun, SessionFold, InteractiveShell

VARIABLE part

toolVars == <<taskVars, slotVars, mcpVars, sandboxVars>>
runtimeVars == <<part, toolVars, foldVars, shellVars>>

(* A part that is not at work is in one initial state.                      *)
Init ==
    /\ part \in {"task", "slots", "mcp", "sandbox", "fold", "shell"}
    /\ TaskInit /\ SlotsInit /\ McpInit /\ SandboxInit /\ FoldInit /\ ShellInit
    /\ part # "mcp" => transport = "stdio"
    /\ part # "sandbox" => runner = "host"
    /\ part # "fold" => folding
    /\ part # "shell" => ~first /\ stored = {}

Next ==
    /\ UNCHANGED part
    /\ \/ /\ part = "task" /\ TaskNext
          /\ UNCHANGED <<slotVars, mcpVars, sandboxVars, foldVars, shellVars>>
       \/ /\ part = "slots" /\ SlotsNext
          /\ UNCHANGED <<taskVars, mcpVars, sandboxVars, foldVars, shellVars>>
       \/ /\ part = "mcp" /\ McpNext
          /\ UNCHANGED <<taskVars, slotVars, sandboxVars, foldVars, shellVars>>
       \/ /\ part = "sandbox" /\ SandboxNext
          /\ UNCHANGED <<taskVars, slotVars, mcpVars, foldVars, shellVars>>
       \/ /\ part = "fold" /\ FoldNext /\ UNCHANGED <<toolVars, shellVars>>
       \/ /\ part = "shell" /\ ShellNext /\ UNCHANGED <<toolVars, foldVars>>

(* What is fair is disabled in the initial state of a part.                 *)
Fairness ==
    TaskFairness /\ SlotsFairness /\ McpFairness /\ SandboxFairness /\ FoldFairness

Spec == Init /\ [][Next]_runtimeVars /\ Fairness

(* What a tool call is told is what has become of it: the output of a task  *)
(* is its own and in order, a subagent runs in a slot of its own, a request *)
(* to an MCP server is never left with a server that is gone, and a         *)
(* sandboxed command that was cut off is not taken for one that succeeded.  *)
ToolCallsAccounted == OutputFollowed /\ SlotsExact /\ NoOrphanRequest /\ CutOffReported

(* The conversation is what the model is given of it, and a fold replaces   *)
(* it as a whole or not at all.                                             *)
ConversationFaithful == ConversationIsContext /\ FoldSwitchesWhole

(* Nothing of one session gets into another, is lost when it is left, or    *)
(* comes back when it was deleted.                                          *)
SessionsApart == PromptNotLost /\ SwitchLeavesNothing /\ DeletedStaysDeleted

(* Nothing a tool call started is left over for good: an ended task has no  *)
(* process, a queued subagent call is served or aborted, a request to an    *)
(* MCP server settles, a sandboxed command settles.  And a turn that was    *)
(* submitted runs, whatever becomes of the fold before it.                  *)
LeftOver == TaskLeft \/ CallWaits \/ RequestWaits \/ CommandRuns
NothingLeftOver == (LeftOver ~> ~LeftOver) /\ AutoFoldNeverBlocks

=============================================================================
