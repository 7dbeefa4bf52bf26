--------------------------- MODULE CandidateStore ---------------------------
(***************************************************************************)
(* The dataset of reviewed candidates (packages/eval-engine/src/           *)
(* candidates): a file per case under .codeden/evals/candidates.  promote  *)
(* takes a lock that is a directory, reads every record, checks the        *)
(* candidate against them and links its file; a listing takes no lock and  *)
(* fails altogether when one record is not acceptable.                     *)
(***************************************************************************)
EXTENDS Integers, FiniteSets, Sequences

CONSTANTS Candidates,  \* records of id, fingerprint, evalCase and sound
          Promoters,   \* processes; each runs its operations one at a time
          MaxCrashes

ASSUME CandidateAssumption ==
    /\ \A c \in Candidates : c.sound \in BOOLEAN
    /\ MaxCrashes \in Nat

VARIABLES dataset,     \* candidates with a file
          lock,        \* candidates.lock exists
          promoter,    \* what each process is doing
          fixtures,    \* candidates whose fixture has changed on disk since the review
          crashes

candidateVars == <<dataset, lock, promoter, fixtures, crashes>>

Rest == [at |-> "rest", candidate |-> CHOOSE c \in Candidates : TRUE, records |-> {}]

CandidateInit ==
    /\ dataset = {} /\ lock = FALSE
    /\ promoter = [p \in Promoters |-> Rest]
    /\ fixtures = {} /\ crashes = 0

Promoter(p, at) == promoter[p].at = at
Step(p, at) == promoter' = [promoter EXCEPT ![p].at = at]

-----------------------------------------------------------------------------
(* promote(): mkdir of the lock fails when it exists.                       *)
BeginPromote(p) ==
    /\ Promoter(p, "rest")
    /\ \E c \in Candidates : promoter' = [promoter EXCEPT ![p].at = "lock", ![p].candidate = c]
    /\ UNCHANGED <<dataset, lock, fixtures, crashes>>

(* Mutant: mkdir with recursive, which succeeds on a directory that exists. *)
TakeLockRecursive(p) ==
    /\ Promoter(p, "lock")
    /\ lock' = TRUE /\ Step(p, "read")
    /\ UNCHANGED <<dataset, fixtures, crashes>>

TakeLock(p) ==
    /\ Promoter(p, "lock")
    /\ \/ ~lock /\ lock' = TRUE /\ Step(p, "read")
       \/ lock /\ UNCHANGED lock /\ Step(p, "rest")
    /\ UNCHANGED <<dataset, fixtures, crashes>>

(* The verifier's answer: the signed review is of this candidate and of its *)
(* fixture as it is now, by digest.                                         *)
Attested(c) == c.sound /\ c \notin fixtures

(* listRecords(): every record is parsed, verified and held against those   *)
(* before it; one that fails makes the reading throw.                       *)
Acceptable(c, records) ==
    /\ Attested(c)
    /\ \A r \in records : r.fingerprint # c.fingerprint /\ r.evalCase # c.evalCase

Readable == \A c \in dataset : Acceptable(c, dataset \ {c})

ReadRecords(p) ==
    /\ Promoter(p, "read")
    /\ promoter' = [promoter EXCEPT ![p].at = IF Readable THEN "decide" ELSE "unlock",
                                    ![p].records = dataset]
    /\ UNCHANGED <<dataset, lock, fixtures, crashes>>

(* evaluateCandidateGate(), the receipt and the ids.                        *)
Decision(p) ==
    LET c == promoter[p].candidate
        records == promoter[p].records
    IN  Acceptable(c, records) /\ \A r \in records : r.id # c.id

Judge(p) ==
    /\ Promoter(p, "decide")
    /\ Step(p, IF Decision(p) THEN "write" ELSE "unlock")
    /\ UNCHANGED <<dataset, lock, fixtures, crashes>>

(* write(): link() fails on a file that exists.                             *)
WriteRecord(p) ==
    /\ Promoter(p, "write")
    /\ dataset' = IF \E r \in dataset : r.id = promoter[p].candidate.id
                  THEN dataset ELSE dataset \cup {promoter[p].candidate}
    /\ Step(p, "unlock")
    /\ UNCHANGED <<lock, fixtures, crashes>>

ReleaseLock(p) ==
    /\ Promoter(p, "unlock")
    /\ lock' = FALSE /\ promoter' = [promoter EXCEPT ![p] = Rest]
    /\ UNCHANGED <<dataset, fixtures, crashes>>

(* The process dies and leaves its lock.                                    *)
PromoterDies(p) ==
    /\ ~Promoter(p, "rest") /\ crashes < MaxCrashes
    /\ crashes' = crashes + 1
    /\ promoter' = [promoter EXCEPT ![p] = Rest]
    /\ UNCHANGED <<dataset, lock, fixtures>>

(* Somebody removes a lock that is left over, or edits a fixture.           *)
RemoveLock ==
    /\ lock /\ \A p \in Promoters : promoter[p].at \in {"rest", "lock"}
    /\ lock' = FALSE
    /\ UNCHANGED <<dataset, promoter, fixtures, crashes>>

EditFixture ==
    /\ \E c \in dataset \ fixtures : fixtures' = fixtures \cup {c}
    /\ UNCHANGED <<dataset, lock, promoter, crashes>>

CandidateNext ==
    \/ \E p \in Promoters : \/ BeginPromote(p) \/ TakeLock(p) \/ ReadRecords(p) \/ Judge(p)
                            \/ WriteRecord(p) \/ ReleaseLock(p) \/ PromoterDies(p)
    \/ RemoveLock \/ EditFixture

-----------------------------------------------------------------------------
(* The dataset can be read: whoever promotes at the same time, and wherever *)
(* one of them dies, no two records have the same content, case or id, and  *)
(* each has been reviewed.  Only a fixture that was edited can spoil it     *)
(* (candidate-dataset-store.ts 31-75, 97-135).                              *)
DatasetReadable ==
    /\ fixtures = {} => Readable
    /\ \A c, d \in dataset : c # d => c.id # d.id
    /\ \A c \in dataset : c.sound
=============================================================================
