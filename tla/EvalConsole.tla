---------------------------- MODULE EvalConsole ----------------------------
(***************************************************************************)
(* The page of the evaluation platform (apps/eval-platform/web/src/app/    *)
(* page.tsx): the list of jobs, the one selected and its detail, refreshed *)
(* by timers and by every action of the user.  A response is what the      *)
(* server had when it answered, and arrives when it will; the functions    *)
(* that take it in see the selection they were made with.                  *)
(***************************************************************************)
EXTENDS Integers, FiniteSets

CONSTANTS Jobs,         \* job ids
          MaxUserSteps, \* bound on what the user does
          MaxInFlight   \* bound on the responses under way

ASSUME ConsoleAssumption == "none" \notin Jobs

VARIABLES job,       \* on the server: "none", "active", "ended", "deleted"
          hasEvents, \* jobs with events in the table
          listed,    \* jobs
          selected,  \* selectedJobId
          detail,    \* detail: the job, its status, and whose progress it shows
          inFlight,  \* responses that have not arrived
          listDue,   \* the effect that loads the list has to run
          detailDue, \* the effect that refreshes the detail has to run
          ticking,   \* its timer is set
          userSteps  \* counted for the bound only

serverVars == <<job, hasEvents>>
pageVars == <<listed, selected, detail, listDue, detailDue, ticking>>
consoleVars == <<serverVars, pageVars, inFlight, userSteps>>

NoDetail == [of |-> "none", status |-> "none", progress |-> "none"]
Existing == {j \in Jobs : job[j] \in {"active", "ended"}}

ConsoleInit ==
    /\ job \in [Jobs -> {"none", "active", "ended"}] /\ hasEvents = {}
    /\ listed = {} /\ selected = "none" /\ detail = NoDetail /\ inFlight = {}
    /\ listDue = TRUE /\ detailDue = FALSE /\ ticking = FALSE /\ userSteps = 0

(* The worker.                                                              *)
JobProceeds(j) ==
    /\ job[j] = "active"
    /\ \/ j \notin hasEvents /\ hasEvents' = hasEvents \union {j} /\ UNCHANGED job
       \/ job' = [job EXCEPT ![j] = "ended"] /\ UNCHANGED hasEvents
    /\ UNCHANGED <<pageVars, inFlight, userSteps>>

Answers(response) == inFlight' = inFlight \union {response}

(* loadJobs, loadDetail: the request, and the answer of the server to it.   *)
LoadJobs ==
    /\ listDue /\ Cardinality(inFlight) < MaxInFlight
    /\ listDue' = FALSE
    /\ Answers([kind |-> "list", jobs |-> Existing,
                active |-> {j \in Existing : job[j] = "active"}, madeFor |-> selected])
    /\ UNCHANGED <<serverVars, listed, selected, detail, detailDue, ticking, userSteps>>

LoadDetail ==
    /\ detailDue \/ ticking
    /\ selected # "none" /\ Cardinality(inFlight) < MaxInFlight
    /\ detailDue' = FALSE /\ ticking' = TRUE
    /\ IF selected \in Existing
       THEN Answers([kind |-> "detail", of |-> selected, status |-> job[selected],
                     progress |-> IF selected \in hasEvents THEN selected ELSE "none"])
       ELSE UNCHANGED inFlight
    /\ UNCHANGED <<serverVars, listed, selected, detail, listDue, userSteps>>

(* The effects that depend on the selection, and the one that clears the    *)
(* detail when there is none.                                               *)
Selects(j) ==
    /\ selected' = j
    /\ IF j = selected THEN UNCHANGED <<listDue, detailDue, ticking>>
       ELSE /\ listDue' = TRUE /\ detailDue' = (j # "none") /\ ticking' = FALSE

ListArrives(q) ==
    /\ q \in inFlight /\ q.kind = "list"
    /\ inFlight' = inFlight \ {q}
    /\ listed' = q.jobs
    /\ \/ q.madeFor # "none" /\ q.madeFor \in q.jobs
          /\ UNCHANGED <<selected, detail, listDue, detailDue, ticking>>
       \/ q.madeFor # "none" /\ q.madeFor \notin q.jobs
          /\ Selects("none") /\ detail' = NoDetail
       \/ q.madeFor = "none" /\ q.jobs = {}
          /\ Selects("none") /\ detail' = NoDetail
       \/ q.madeFor = "none" /\ q.jobs # {}
          /\ \E j \in IF q.active # {} THEN q.active ELSE q.jobs : Selects(j)
          /\ UNCHANGED detail
    /\ UNCHANGED <<serverVars, userSteps>>

(* Mutant: the timer of the detail is set for an active job only.           *)
DetailArrivesOnce(q) ==
    /\ q \in inFlight /\ q.kind = "detail"
    /\ inFlight' = inFlight \ {q}
    /\ detail' = [of |-> q.of, status |-> q.status, progress |-> q.progress]
    /\ ticking' = (selected # "none" /\ q.status = "active")
    /\ UNCHANGED <<serverVars, listed, selected, listDue, detailDue, userSteps>>

(* A detail is taken in whatever is selected by now.  That of an active job *)
(* without progress keeps the progress on display.  The status decides how  *)
(* often the refresh comes, so a change of it refreshes at once.            *)
DetailArrives(q) ==
    /\ q \in inFlight /\ q.kind = "detail"
    /\ inFlight' = inFlight \ {q}
    /\ detail' = [of |-> q.of, status |-> q.status,
                  progress |-> IF q.status = "active" /\ q.progress = "none"
                               THEN detail.progress ELSE q.progress]
    /\ detailDue' = (detailDue \/ (selected # "none" /\ q.status # detail.status))
    /\ UNCHANGED <<serverVars, listed, selected, listDue, ticking, userSteps>>

UserMay == userSteps < MaxUserSteps /\ userSteps' = userSteps + 1

UserSelects(j) ==
    /\ UserMay /\ j \in listed /\ Selects(j)
    /\ UNCHANGED <<serverVars, listed, detail, inFlight>>

(* createJob; the list in flight may not have the job yet.                  *)
UserCreates(j) ==
    /\ UserMay /\ job[j] = "none"
    /\ job' = [job EXCEPT ![j] = "active"]
    /\ listed' = listed \union {j}
    /\ Selects(j)
    /\ UNCHANGED <<hasEvents, detail, inFlight>>

(* cancelJob: the job that is selected is cancelled, and its new status     *)
(* goes into the detail that is on display when the answer arrives.         *)
UserCancels ==
    /\ UserMay /\ detail.status = "active"
    /\ selected # "none" /\ job[selected] = "active"
    /\ Cardinality(inFlight) < MaxInFlight
    /\ job' = [job EXCEPT ![selected] = "ended"]
    /\ Answers([kind |-> "cancelled", of |-> selected, status |-> "ended"])
    /\ UNCHANGED <<hasEvents, pageVars>>

CancelArrives(q) ==
    /\ q \in inFlight /\ q.kind = "cancelled"
    /\ inFlight' = inFlight \ {q}
    /\ detail' = IF detail = NoDetail THEN detail
                 ELSE [detail EXCEPT !.of = q.of, !.status = q.status]
    /\ detailDue' = (detailDue \/ (selected # "none" /\ q.status # detail.status))
    /\ UNCHANGED <<serverVars, listed, selected, listDue, ticking, userSteps>>

(* deleteSelectedJobs, with its answer, and the list it loads.              *)
UserDeletes(j) ==
    /\ UserMay /\ j \in listed /\ job[j] = "ended"
    /\ Cardinality(inFlight) < MaxInFlight
    /\ job' = [job EXCEPT ![j] = "deleted"]
    /\ listed' = listed \ {j}
    /\ IF selected = j THEN Selects("none") /\ detail' = NoDetail
       ELSE UNCHANGED <<selected, detail, listDue, detailDue, ticking>>
    /\ Answers([kind |-> "list", jobs |-> Existing \ {j},
                active |-> {k \in Existing : job[k] = "active"}, madeFor |-> selected])
    /\ UNCHANGED hasEvents

ConsoleNext ==
    \/ LoadJobs \/ LoadDetail \/ UserCancels
    \/ \E j \in Jobs : JobProceeds(j) \/ UserSelects(j) \/ UserCreates(j) \/ UserDeletes(j)
    \/ \E q \in inFlight : ListArrives(q) \/ DetailArrives(q) \/ CancelArrives(q)

(* The detail on display is not that of the selected job as the server has  *)
(* it.                                                                      *)
DetailIsStale ==
    /\ selected \in Existing
    /\ detail.of # selected \/ detail.status # job[selected]

=============================================================================
