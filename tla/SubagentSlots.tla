--------------------------- MODULE SubagentSlots ---------------------------
(***************************************************************************)
(* The execution slots of the subagent tool (packages/agent-runtime/src/   *)
(* tools/builtins/subagent.ts): calls take a slot or queue for one, and a  *)
(* queued call may be aborted at any moment, by its run or by the tool     *)
(* timeout.                                                                *)
(***************************************************************************)
EXTENDS Integers, Sequences, FiniteSets, SequencesExt

CONSTANTS Calls,           \* calls of the tool
          MaxConcurrent    \* options.maxConcurrent

ASSUME SlotsAssumption == MaxConcurrent \in Nat \ {0}

VARIABLES call,      \* "idle", "queued", "running", "ended"
          active,    \* this.active
          waiters    \* this.waiters

slotVars == <<call, active, waiters>>

SlotsInit == call = [c \in Calls |-> "idle"] /\ active = 0 /\ waiters = <<>>

(* acquire().                                                               *)
Acquire(c) ==
    /\ call[c] = "idle"
    /\ IF active < MaxConcurrent
       THEN /\ active' = active + 1
            /\ call' = [call EXCEPT ![c] = "running"]
            /\ UNCHANGED waiters
       ELSE /\ waiters' = Append(waiters, c)
            /\ call' = [call EXCEPT ![c] = "queued"]
            /\ UNCHANGED active

(* A call that is refused: it may write, or its signal is aborted already.  *)
Refuse(c) ==
    /\ call[c] = "idle"
    /\ call' = [call EXCEPT ![c] = "ended"]
    /\ UNCHANGED <<active, waiters>>

(* Mutant: the aborted waiter stays in the queue.                           *)
AbortQueuedKept(c) ==
    /\ call[c] = "queued"
    /\ call' = [call EXCEPT ![c] = "ended"]
    /\ UNCHANGED <<active, waiters>>

AbortQueued(c) ==
    /\ call[c] = "queued"
    /\ call' = [call EXCEPT ![c] = "ended"]
    /\ \E i \in DOMAIN waiters : waiters[i] = c /\ waiters' = RemoveAt(waiters, i)
    /\ UNCHANGED active

(* The child run has returned, failed or timed out; release() hands the     *)
(* slot to the first waiter, unless that one has been settled before.       *)
Release(c) ==
    /\ call[c] = "running"
    /\ IF waiters = <<>>
       THEN /\ active' = active - 1
            /\ call' = [call EXCEPT ![c] = "ended"]
            /\ UNCHANGED waiters
       ELSE /\ waiters' = Tail(waiters)
            /\ IF call[Head(waiters)] = "queued"
               THEN /\ call' = [call EXCEPT ![c] = "ended", ![Head(waiters)] = "running"]
                    /\ UNCHANGED active
               ELSE /\ call' = [call EXCEPT ![c] = "ended"]
                    /\ active' = active - 1

SlotsNext == \E c \in Calls : Acquire(c) \/ Refuse(c) \/ AbortQueued(c) \/ Release(c)

(* A child run has limits of its own and ends.                              *)
SlotsFairness == \A c \in Calls : WF_slotVars(Release(c))

(* The slots taken are those of running calls, never more than allowed, and *)
(* no call waits while a slot is free: an aborted waiter takes none with it *)
(* (subagent.ts 108-152).                                                   *)
SlotsExact ==
    /\ active = Cardinality({c \in Calls : call[c] = "running"})
    /\ active <= MaxConcurrent
    /\ (\E c \in Calls : call[c] = "queued") => active = MaxConcurrent

(* A call that has neither got a slot nor been aborted.                     *)
CallWaits == \E c \in Calls : call[c] = "queued"

=============================================================================
