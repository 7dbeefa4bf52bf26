-------------------------- MODULE EnvironmentBuild --------------------------
(***************************************************************************)
(* The docker image a SWE-bench instance is evaluated in: jobs that need   *)
(* it look for it, take the directory .build-lock, and run the build       *)
(* script (apps/eval-platform/src/platform/harness.ts 818-893, scripts/    *)
(* prepare-swebench-environment.mjs).  A job can be cancelled and its      *)
(* worker can die; the git or docker command that runs then goes on.       *)
(***************************************************************************)
EXTENDS Integers, FiniteSets

CONSTANTS Builders,        \* jobs that prepare the instance
          MaxLockAttempts, \* of 900
          MaxWorkerDeaths, \* bound on the workers that die
          MaxPrunes        \* bound on the removals of the image

VARIABLES prepared,   \* "checking", "locking", "rechecking", "building", "ready", "failed", "dead"
          attempts,   \* of withEnvironmentLock
          lock,       \* .build-lock is there
          script,     \* step of the build script: "none", "clone", "fetch", "docker", "manifest"
          orphans,    \* commands of scripts that were killed
          clone,      \* the repository directory: "none", "part", "whole"
          image,      \* docker has the image
          manifest,   \* environment.json is there
          mishaps     \* deaths and prunes, counted for the bound only

buildVars == <<prepared, attempts, lock, script, orphans, clone, image, manifest, mishaps>>

BuildInit ==
    /\ prepared = [b \in Builders |-> "checking"] /\ attempts = [b \in Builders |-> 0]
    /\ lock = FALSE /\ script = [b \in Builders |-> "none"] /\ orphans = {}
    /\ clone = "none" /\ image = FALSE /\ manifest = FALSE
    /\ mishaps = [deaths |-> 0, prunes |-> 0]

Enters(b, phase) == prepared' = [prepared EXCEPT ![b] = phase]
Unlock == lock' = FALSE

(* Mutant: the manifest is enough.                                          *)
EnvironmentReadyUninspected == manifest

EnvironmentReady == manifest /\ image

CheckReady(b) ==
    /\ prepared[b] = "checking"
    /\ Enters(b, IF EnvironmentReady THEN "ready" ELSE "locking")
    /\ UNCHANGED <<attempts, lock, script, orphans, clone, image, manifest, mishaps>>

LockFree(b) ==
    /\ prepared[b] = "locking" /\ ~lock
    /\ lock' = TRUE /\ Enters(b, "rechecking")
    /\ UNCHANGED <<attempts, script, orphans, clone, image, manifest, mishaps>>

(* Mutant: until it is free.                                                *)
LockTakenForever(b) ==
    /\ prepared[b] = "locking" /\ lock
    /\ UNCHANGED buildVars

(* Tried again after a second, up to the limit.                             *)
LockTaken(b) ==
    /\ prepared[b] = "locking" /\ lock
    /\ attempts' = [attempts EXCEPT ![b] = @ + 1]
    /\ IF attempts[b] + 1 < MaxLockAttempts THEN UNCHANGED prepared ELSE Enters(b, "failed")
    /\ UNCHANGED <<lock, script, orphans, clone, image, manifest, mishaps>>

Recheck(b) ==
    /\ prepared[b] = "rechecking"
    /\ IF EnvironmentReady THEN Enters(b, "ready") /\ Unlock /\ UNCHANGED script
       ELSE /\ Enters(b, "building") /\ UNCHANGED lock
            /\ script' = [script EXCEPT ![b] = IF clone = "none" THEN "clone" ELSE "fetch"]
    /\ UNCHANGED <<attempts, orphans, clone, image, manifest, mishaps>>

(* A command of the script has an effect when it ends; git clone makes its  *)
(* directory at once.                                                       *)
CommandBegins(b) ==
    /\ script[b] = "clone" /\ clone = "none"
    /\ clone' = "part"
    /\ UNCHANGED <<prepared, attempts, lock, script, orphans, image, manifest, mishaps>>

Effect(step) ==
    /\ clone' = IF step = "clone" THEN "whole" ELSE clone
    /\ image' = (image \/ step = "docker")

NextStep(step) == CASE step = "clone" -> "fetch" [] step = "fetch" -> "docker" [] OTHER -> "manifest"

(* A clone in part cannot be fetched into.                                  *)
CommandEnds(b) ==
    /\ script[b] \in {"clone", "fetch", "docker"}
    /\ script[b] = "clone" => clone = "part"
    /\ script[b] # "clone" => clone = "whole"
    /\ Effect(script[b])
    /\ script' = [script EXCEPT ![b] = NextStep(@)]
    /\ UNCHANGED <<prepared, attempts, lock, orphans, manifest, mishaps>>

(* A command that fails ends the script; git removes the clone it was at.   *)
CommandFails(b) ==
    /\ script[b] \in {"clone", "fetch", "docker"}
    /\ clone' = IF script[b] = "clone" THEN "none" ELSE clone
    /\ script' = [script EXCEPT ![b] = "none"]
    /\ Enters(b, "failed") /\ Unlock
    /\ UNCHANGED <<attempts, orphans, image, manifest, mishaps>>

(* The manifest is renamed into place, and the preparation is over.         *)
WriteManifest(b) ==
    /\ script[b] = "manifest"
    /\ manifest' = TRUE
    /\ script' = [script EXCEPT ![b] = "none"]
    /\ Enters(b, "ready") /\ Unlock
    /\ UNCHANGED <<attempts, orphans, clone, image, mishaps>>

KillScript(b) ==
    /\ orphans' = IF script[b] \in {"clone", "fetch", "docker"} THEN orphans \union {script[b]} ELSE orphans
    /\ script' = [script EXCEPT ![b] = "none"]

(* The signal of the job: the script is killed and the lock given back.     *)
Cancel(b) ==
    /\ prepared[b] \in {"checking", "locking", "rechecking", "building"}
    /\ Enters(b, "failed") /\ KillScript(b)
    /\ lock' = (lock /\ prepared[b] \notin {"rechecking", "building"})
    /\ UNCHANGED <<attempts, clone, image, manifest, mishaps>>

(* The worker dies, and nobody removes its lock.                            *)
WorkerDies(b) ==
    /\ prepared[b] \in {"locking", "rechecking", "building"}
    /\ mishaps.deaths < MaxWorkerDeaths
    /\ mishaps' = [mishaps EXCEPT !.deaths = @ + 1]
    /\ Enters(b, "dead") /\ KillScript(b)
    /\ UNCHANGED <<attempts, lock, clone, image, manifest>>

OrphanEnds(step) ==
    /\ step \in orphans
    /\ orphans' = orphans \ {step}
    /\ Effect(step)
    /\ UNCHANGED <<prepared, attempts, lock, script, manifest, mishaps>>

(* The job is recovered by another worker, from the start.                  *)
JobRecovered(b) ==
    /\ prepared[b] = "dead"
    /\ Enters(b, "checking") /\ attempts' = [attempts EXCEPT ![b] = 0]
    /\ UNCHANGED <<lock, script, orphans, clone, image, manifest, mishaps>>

(* Somebody removes the image while nothing is built.                       *)
ImagePruned ==
    /\ image /\ mishaps.prunes < MaxPrunes
    /\ \A b \in Builders : script[b] = "none"
    /\ image' = FALSE /\ mishaps' = [mishaps EXCEPT !.prunes = @ + 1]
    /\ UNCHANGED <<prepared, attempts, lock, script, orphans, clone, manifest>>

BuildNext ==
    \/ \E b \in Builders :
          \/ CheckReady(b) \/ LockFree(b) \/ LockTaken(b) \/ Recheck(b) \/ CommandBegins(b)
          \/ CommandEnds(b) \/ CommandFails(b) \/ WriteManifest(b) \/ Cancel(b) \/ WorkerDies(b)
          \/ JobRecovered(b)
    \/ \E step \in {"clone", "fetch", "docker"} : OrphanEnds(step)
    \/ ImagePruned

(* A job goes on with an image that is there, whoever built it, and was     *)
(* cancelled or died on the way (harness.ts 819-826, 842-853).              *)
ReadyHasImage ==
    [][\A b \in Builders :
          prepared'[b] = "ready" /\ prepared[b] # "ready" => image']_buildVars

(* A job that has begun to prepare; a lock nobody will remove is waited for *)
(* to the limit and no longer.                                              *)
BuildWaits == \E b \in Builders : prepared[b] \in {"checking", "locking", "rechecking", "building"}

=============================================================================
