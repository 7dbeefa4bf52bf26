---------------------------- MODULE CaseReview -----------------------------
(***************************************************************************)
(* From an uploaded trace to a case evaluations run (apps/eval-platform/   *)
(* src/platform/trace-store.ts): receive, review, draft, publish, and the  *)
(* catalog that offers what was published (service.ts, catalog.ts and the  *)
(* reviewed entry of dataset-registry.ts).  Several reviewers work at the  *)
(* same time.  The transactions are READ COMMITTED: every statement sees   *)
(* what is committed by then, and an insert of a version that exists       *)
(* fails.                                                                  *)
(***************************************************************************)
EXTENDS Integers, Sequences, SequencesExt

CONSTANTS Uploads,     \* uploadId
          Drafts,      \* draft ids
          Reviewers,   \* requests in flight at the same time
          MaxVersions  \* bound on the dataset versions

VARIABLES upload,    \* status of the rows of trace_uploads, "none" without a row
          draft,     \* rows of trace_case_drafts
          versions,  \* dataset_versions of the one target dataset: the cases of v1, v2, ...
          request,   \* the request of each reviewer, and what it has read
          offered    \* EvalCatalog.viewPromise: "unread", "empty", "cases", "rejected"

reviewVars == <<upload, draft, versions, request, offered>>

NoDraft == [of |-> "none", status |-> "none"]
Idle == [op |-> "idle"]

ReviewInit ==
    /\ upload = [t \in Uploads |-> "none"]
    /\ draft = [d \in Drafts |-> NoDraft]
    /\ versions = <<>>
    /\ request = [r \in Reviewers |-> Idle]
    /\ offered = "unread"

(* The outbox of an agent delivers an upload any number of times; the row   *)
(* that is there stays as it is, whether the content is the same or not.    *)
Receive(t) ==
    /\ upload[t] = "none"
    /\ upload' = [upload EXCEPT ![t] = "received"]
    /\ UNCHANGED <<draft, versions, request, offered>>

NextTraceStatus(status, action) ==
    CASE action = "start" /\ status = "received" -> "reviewing"
      [] action = "discard" /\ status \in {"received", "reviewing"} -> "discarded"
      [] OTHER -> "none"

Asks(r, ask) ==
    /\ request[r] = Idle
    /\ request' = [request EXCEPT ![r] = ask]
    /\ UNCHANGED <<upload, draft, versions, offered>>

Answered(r) == request' = [request EXCEPT ![r] = Idle]

ReviewReads(r, t, action) ==
    /\ NextTraceStatus(upload[t], action) # "none"
    /\ Asks(r, [op |-> "review", upload |-> t, action |-> action, saw |-> upload[t]])

(* Mutant: the update is by the id alone.                                   *)
ReviewWritesUnguarded(r) ==
    LET q == request[r] IN
    /\ q.op = "review"
    /\ upload' = [upload EXCEPT ![q.upload] = NextTraceStatus(q.saw, q.action)]
    /\ Answered(r) /\ UNCHANGED <<draft, versions, offered>>

(* A status that has changed since is answered with 409.                    *)
ReviewWrites(r) ==
    LET q == request[r] IN
    /\ q.op = "review"
    /\ IF upload[q.upload] = q.saw
       THEN upload' = [upload EXCEPT ![q.upload] = NextTraceStatus(q.saw, q.action)]
       ELSE UNCHANGED upload
    /\ Answered(r) /\ UNCHANGED <<draft, versions, offered>>

DraftReads(r, t) ==
    /\ upload[t] \in {"received", "reviewing"}
    /\ Asks(r, [op |-> "draft", upload |-> t, saw |-> upload[t]])

DraftWrites(r, d) ==
    LET t == request[r].upload IN
    /\ request[r].op = "draft" /\ draft[d] = NoDraft
    /\ upload' = [upload EXCEPT ![t] =
           IF request[r].saw = "received" /\ @ = "received" THEN "reviewing" ELSE @]
    /\ draft' = [draft EXCEPT ![d] = [of |-> t, status |-> "draft"]]
    /\ Answered(r) /\ UNCHANGED <<versions, offered>>

PublishReadsDraft(r, d) ==
    /\ draft[d].status = "draft"
    /\ Asks(r, [op |-> "publish", draft |-> d])

PublishReadsPublished(r) ==
    /\ request[r].op = "publish"
    /\ request' = [request EXCEPT ![r] =
           [op |-> "collected", draft |-> @.draft,
            cases |-> Append(SetToSeq({e \in Drafts : draft[e].status = "published"}), @.draft)]]
    /\ UNCHANGED <<upload, draft, versions, offered>>

PublishReadsVersion(r) ==
    /\ request[r].op = "collected" /\ Len(versions) < MaxVersions
    /\ request' = [request EXCEPT ![r] =
           [op |-> "numbered", draft |-> @.draft, cases |-> @.cases, version |-> Len(versions) + 1]]
    /\ UNCHANGED <<upload, draft, versions, offered>>

(* The insert, the two updates and the commit.                              *)
PublishCommits(r) ==
    LET q == request[r] IN
    /\ q.op = "numbered"
    /\ IF q.version > Len(versions)
       THEN LET t == draft[q.draft].of IN
            /\ versions' = Append(versions, q.cases)
            /\ draft' = [draft EXCEPT ![q.draft].status = "published"]
            /\ upload' = [upload EXCEPT ![t] = IF @ = "reviewing" THEN "drafted" ELSE @]
       ELSE UNCHANGED <<versions, draft, upload>>
    /\ Answered(r) /\ UNCHANGED offered

(* The request fails, and its transaction with it.                          *)
RequestLost(r) ==
    /\ request[r] # Idle
    /\ Answered(r) /\ UNCHANGED <<upload, draft, versions, offered>>

(* view(): the promise is made once and kept, a rejected one too; only the  *)
(* reviewed entry reads the database.                                       *)
CatalogReads(fails) ==
    /\ offered = "unread"
    /\ offered' = IF fails THEN "rejected" ELSE IF versions = <<>> THEN "empty" ELSE "cases"
    /\ UNCHANGED <<upload, draft, versions, request>>

PlatformRestarts ==
    /\ request' = [r \in Reviewers |-> Idle]
    /\ offered' = "unread"
    /\ UNCHANGED <<upload, draft, versions>>

ReviewNext ==
    \/ \E t \in Uploads : Receive(t)
    \/ \E r \in Reviewers, t \in Uploads, action \in {"start", "discard"} : ReviewReads(r, t, action)
    \/ \E r \in Reviewers, t \in Uploads : DraftReads(r, t)
    \/ \E r \in Reviewers, d \in Drafts : DraftWrites(r, d) \/ PublishReadsDraft(r, d)
    \/ \E r \in Reviewers : \/ ReviewWrites(r) \/ PublishReadsPublished(r)
                            \/ PublishReadsVersion(r) \/ PublishCommits(r) \/ RequestLost(r)
    \/ \E fails \in BOOLEAN : CatalogReads(fails)
    \/ PlatformRestarts

(* What is decided about a trace stays decided, whoever else decides at the *)
(* same time: discarded and drafted are final, and a review that has begun  *)
(* is not taken back (trace-store.ts 64-76, 134-153, 166-186, 232-236).     *)
Rank(status) ==
    CASE status = "none" -> 0 [] status = "received" -> 1 [] status = "reviewing" -> 2 [] OTHER -> 3
DecisionsStand ==
    [][\A t \in Uploads : upload'[t] # upload[t] => Rank(upload[t]) < Rank(upload'[t])]_reviewVars

=============================================================================
