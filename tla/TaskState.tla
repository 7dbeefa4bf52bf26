----------------------------- MODULE TaskState -----------------------------
(***************************************************************************)
(* What the life of a task promises (packages/core/src/task/task-state.ts):*)
(* its state only moves along ALLOWED_TRANSITIONS, and one report is made, *)
(* in a state that supports it and that nothing changes any more.          *)
(***************************************************************************)

VARIABLES state,    \* AgentStateMachine.current
          reported  \* the status of the AgentRunResult, "none" before it

(* ALLOWED_TRANSITIONS.                                                     *)
Allowed ==
    [CREATED                 |-> {"RUNNING"},
     RUNNING                 |-> {"MODEL_PROPOSED_COMPLETE", "TIMEOUT", "BUDGET_EXHAUSTED", "FAILED"},
     MODEL_PROPOSED_COMPLETE |-> {"SUBMITTED", "VERIFIED_COMPLETE", "RUNNING", "FAILED"},
     SUBMITTED               |-> {},
     VERIFIED_COMPLETE       |-> {},
     TIMEOUT                 |-> {},
     BUDGET_EXHAUSTED        |-> {},
     FAILED                  |-> {}]

(* The statuses a task may end with in each state.  A run that is aborted   *)
(* or fails on its last way out keeps the state it had reached; an open     *)
(* task is never reported as one that failed.                               *)
Supported ==
    [CREATED                 |-> {},
     RUNNING                 |-> {},
     MODEL_PROPOSED_COMPLETE |-> {"timeout"},
     SUBMITTED               |-> {"submitted", "timeout", "agent_error"},
     VERIFIED_COMPLETE       |-> {"verified_complete", "timeout", "agent_error"},
     TIMEOUT                 |-> {"timeout"},
     BUDGET_EXHAUSTED        |-> {"budget_exhausted", "timeout", "agent_error"},
     FAILED                  |-> {"agent_error"}]

Init == state \in Allowed["CREATED"] /\ reported = "none"

(* transition(): what is not allowed throws.                                *)
Transition(next) == next \in Allowed[state] /\ state' = next

Report == reported = "none" /\ reported' \in Supported[state']

Next ==
    /\ reported = "none"
    /\ UNCHANGED state \/ \E next \in Allowed[state] : Transition(next)
    /\ UNCHANGED reported \/ Report

Spec == Init /\ [][Next]_<<state, reported>>

=============================================================================
