-------------------------- MODULE ReleasePipeline --------------------------
(***************************************************************************)
(* Uploads, finalization and cleanup of one release, end to end: the       *)
(* database of ReleaseJobs, the quarantine and the release prefix in the   *)
(* bucket, putQuarantineFile of control and V2ReleaseJobWorker, whose      *)
(* finalizeRelease and cleanupQuarantine are followed call by call.        *)
(*                                                                         *)
(* Every S3 call of a worker is preceded by a renewal of its lease (the    *)
(* checkpoint) but may be served long after it.  A PUT that timed out or   *)
(* whose sender died can be served any time later, again and again; all    *)
(* PUTs are create-only.  A bucket object, once there, reads back as it is,*)
(* so a PUT and its read-back are one step.                                *)
(* Bytes, ZIP and MIME types are abstract: an object is what it was built  *)
(* of.  Listings are complete, deletes are not delayed (a late one would   *)
(* hit a sealed release), and one renewal covers a batch of four deletes.  *)
(***************************************************************************)
EXTENDS ReleaseJobs

CONSTANTS
  Workers,      \* the worker processes
  OwnerOf,      \* the name each of them claims with; a restarted one may use that
                \* of one that is not quite dead
  Absent,       \* no object
  NoPath,       \* the second half of a key that names no path
  ListRounds,   \* MAX_CLEANUP_LIST_ROUNDS (4)
  MaxUploads    \* bound: uploads started in one behaviour

ASSUME OwnersAssumption == OwnerOf \in [Workers -> Owners]

ASSUME RoundsAssumption == ListRounds \in Nat \ {0} /\ MaxUploads \in Nat

VARIABLES
  object,     \* the bucket
  abandoned,  \* PUTs nobody waits for
  started,    \* uploads started
  worker      \* what each worker process is doing

bucketVars == <<object, abandoned>>
releaseVars == <<jobsVars, bucketVars, started, worker>>

QuarantineKeys == {"quarantine"} \X Paths
FileKeys == {"source", "content"} \X Paths
Archive == <<"archive", NoPath>>
ManifestKey == <<"manifest", NoPath>>
ReleaseKeys == FileKeys \cup {Archive, ManifestKey}

\* What finalizeRelease writes under a key.  The archive depends on the files only.
BodyOf(m, key) ==
  IF key \in FileKeys THEN m.files[key[2]]
  ELSE IF key = Archive THEN m.files ELSE m

Bodies(key) ==
  IF key \in QuarantineKeys \cup FileKeys THEN Contents
  ELSE IF key = Archive THEN Declarations ELSE Manifests

Puts == UNION {{key} \X Bodies(key) : key \in QuarantineKeys \cup ReleaseKeys}

Resting == {"idle", "finished"}
Checkpointed == {"readRelease", "gather", "promote", "assertLease",
                 "list", "delete", "succeed"}
Steps == Resting \cup Checkpointed \cup
  {"readDeclared", "bind", "finalize", "bindResult", "assertCleanup", "seal", "failed"}

\* done holds the keys that were read from quarantine or written, or the listed ones
\* that are still to delete.
WorkerStates ==
  [ step : Steps, kind : Kinds, version : 0 .. MaxAttempts, checked : BOOLEAN,
    from : Finalizable, manifest : Manifests \cup {NoManifest},
    done : SUBSET (QuarantineKeys \cup ReleaseKeys), round : 0 .. ListRounds ]

Idle == [step |-> "idle", kind |-> PROCESS, version |-> 0, checked |-> FALSE,
         from |-> "PROCESSING", manifest |-> NoManifest, done |-> {}, round |-> 0]

ReleaseInit ==
  /\ JobsInit
  /\ object = [key \in QuarantineKeys \cup ReleaseKeys |-> Absent]
  /\ abandoned = {}
  /\ started = 0
  /\ worker = [w \in Workers |-> Idle]

-----------------------------------------------------------------------------
(* The bucket.                                                             *)

\* IfNoneMatch "*".  Nothing deletes a release object: once it is there, the other
\* PUTs under its key can do nothing any more and are forgotten.
Create(key, body) ==
  /\ object' = IF object[key] = Absent THEN [object EXCEPT ![key] = body] ELSE object
  /\ abandoned' = {put \in abandoned : put[1] # key \/ key \in QuarantineKeys}

ServeAbandoned(put) ==
  /\ object[put[1]] = Absent
  /\ Create(put[1], put[2])
  /\ UNCHANGED <<jobsVars, started, worker>>

-----------------------------------------------------------------------------
(* putQuarantineFile.                                                      *)

StartUpload(path) ==
  /\ started < MaxUploads
  /\ BeginUpload(path)
  /\ started' = started + 1
  /\ UNCHANGED <<bucketVars, worker>>

\* The PUT is answered.  Another file under the key makes the call throw, but all
\* the transaction has to do is to end.
FinishUpload(u) ==
  /\ EndUpload(u)
  /\ Create(<<"quarantine", u.path>>, u.content)
  /\ UNCHANGED <<started, worker>>

\* The call is aborted after 30 seconds, or control dies: the transaction is rolled
\* back, the request is on its way.
AbandonUpload(u) ==
  /\ EndUpload(u)
  /\ abandoned' = abandoned \cup {<<<<"quarantine", u.path>>, u.content>>}
  /\ UNCHANGED <<object, started, worker>>

-----------------------------------------------------------------------------
(* Workers.                                                                *)

Become(w, step) == worker' = [worker EXCEPT ![w].step = step, ![w].checked = FALSE]

\* What a worker that has thrown or returned is still known by.
Leave(w, step) ==
  worker' = [worker EXCEPT ![w] =
    [Idle EXCEPT !.step = step, !.kind = worker[w].kind, !.version = worker[w].version]]

\* claimDue with limit 1, and the runner that calls the worker.
ClaimDue(w, swept, claimed) ==
  /\ worker[w].step \in Resting
  /\ Claim(OwnerOf[w], swept, claimed)
  /\ worker' = IF claimed = {} THEN worker
               ELSE [worker EXCEPT ![w] =
                 LET k == CHOOSE k \in claimed : TRUE
                 IN [Idle EXCEPT !.kind = k, !.version = job'[k].attempts,
                                 !.step = IF k = PROCESS THEN "readRelease"
                                          ELSE "assertCleanup"]]
  /\ UNCHANGED <<bucketVars, started>>

\* renew, with nothing in between two of them.
Checkpoint(w) ==
  /\ worker[w].step \in Checkpointed /\ ~worker[w].checked
  /\ HoldsLease(worker[w].kind, OwnerOf[w], worker[w].version)
  /\ worker' = [worker EXCEPT ![w].checked = TRUE]
  /\ UNCHANGED <<jobsVars, bucketVars, started>>

\* A READY release is answered with its manifest, when that is in the bucket and
\* has the digest of the row.
ReadRelease(w) ==
  /\ worker[w].step = "readRelease" /\ worker[w].checked
  /\ \/ /\ release.state = "READY"
        /\ object[ManifestKey] = release.manifest
        /\ worker' = [worker EXCEPT ![w].step = "bindResult", ![w].checked = FALSE,
                                    ![w].manifest = release.manifest]
     \/ /\ release.state \in Finalizable
        /\ worker' = [worker EXCEPT ![w].step = "readDeclared", ![w].checked = FALSE,
                                    ![w].from = release.state]
  /\ UNCHANGED <<jobsVars, bucketVars, started>>

\* A query of its own; the rows of a READY release are OBSERVED and refused.
ReadDeclared(w, default) ==
  /\ worker[w].step = "readDeclared"
  /\ release.state # "READY"
  /\ worker' = [worker EXCEPT ![w].step = "gather",
                  ![w].manifest = [files |-> declared, default |-> default]]
  /\ UNCHANGED <<jobsVars, bucketVars, started>>

\* A declared file is read and has the declared digest.
Gather(w, key) ==
  /\ worker[w].step = "gather" /\ worker[w].checked
  /\ key \in QuarantineKeys \ worker[w].done
  /\ object[key] = worker[w].manifest.files[key[2]]
  /\ worker' = [worker EXCEPT
       ![w].checked = FALSE,
       ![w].done = IF @ \cup {key} = QuarantineKeys THEN {} ELSE @ \cup {key},
       ![w].step = IF worker[w].done \cup {key} = QuarantineKeys THEN "bind" ELSE @]
  /\ UNCHANGED <<jobsVars, bucketVars, started>>

\* Mutated form: the work is bound once it is done, by BindResult.
BindNothing(w) ==
  /\ worker[w].step = "bind"
  /\ Become(w, "promote")
  /\ UNCHANGED <<jobsVars, bucketVars, started>>

BindWorkIdentity(w) ==
  /\ worker[w].step = "bind"
  /\ BindWork(OwnerOf[w], worker[w].version, worker[w].manifest)
  /\ Become(w, "promote")
  /\ UNCHANGED <<bucketVars, started>>

\* Mutated form: the manifest need not be the last.
AnyTime(w, key) == key \in ReleaseKeys

\* source before content of a file, then the archive, then the manifest; the order
\* of the files is left open.
InTurn(w, key) ==
  CASE key[1] = "source" -> TRUE
    [] key[1] = "content" -> <<"source", key[2]>> \in worker[w].done
    [] key = Archive -> FileKeys \subseteq worker[w].done
    [] key = ManifestKey -> Archive \in worker[w].done

Promoting(w, key) ==
  /\ worker[w].step = "promote" /\ worker[w].checked
  /\ key \in ReleaseKeys \ worker[w].done
  /\ InTurn(w, key)

\* putCreateOnly: the object is created, or there already and the same.
Promote(w, key) ==
  /\ Promoting(w, key)
  /\ Create(key, BodyOf(worker[w].manifest, key))
  /\ object'[key] = BodyOf(worker[w].manifest, key)
  /\ worker' = IF key = ManifestKey
               THEN [worker EXCEPT ![w].step = "assertLease", ![w].checked = FALSE,
                                   ![w].done = {}]
               ELSE [worker EXCEPT ![w].checked = FALSE, ![w].done = @ \cup {key}]
  /\ UNCHANGED <<jobsVars, started>>

AbandonPut(w, key) ==
  /\ Promoting(w, key)
  /\ object[key] = Absent
  /\ abandoned' = abandoned \cup {<<key, BodyOf(worker[w].manifest, key)>>}
  /\ Leave(w, "failed")
  /\ UNCHANGED <<jobsVars, object, started>>

\* The final transaction asserts the lease first.
BeginFinalTransaction(w) ==
  /\ worker[w].step = "assertLease" /\ worker[w].checked
  /\ AssertLease(PROCESS, OwnerOf[w], worker[w].version)
  /\ Become(w, "finalize")
  /\ UNCHANGED <<bucketVars, started>>

\* It commits; the answer may be lost.
FinalizeRelease(w) ==
  /\ worker[w].step = "finalize"
  /\ Finalize(worker[w].from, worker[w].manifest)
  /\ Become(w, "bindResult") \/ Leave(w, "failed")
  /\ UNCHANGED <<bucketVars, started>>

BindResult(w) ==
  /\ worker[w].step = "bindResult"
  /\ BindWork(OwnerOf[w], worker[w].version, worker[w].manifest)
  /\ Become(w, "succeed")
  /\ UNCHANGED <<bucketVars, started>>

AssertCleanup(w) ==
  /\ worker[w].step = "assertCleanup"
  /\ AssertLease(CLEANUP, OwnerOf[w], worker[w].version)
  /\ Become(w, "seal")
  /\ UNCHANGED <<bucketVars, started>>

\* Mutated form: the answer of prepareQuarantineCleanup is not awaited.
SealUnawaited(w) ==
  /\ worker[w].step = "seal"
  /\ RollBackTransaction(CLEANUP)
  /\ Become(w, "list")
  /\ UNCHANGED <<bucketVars, started>>

SealRelease(w) ==
  /\ worker[w].step = "seal"
  /\ Seal
  /\ Become(w, "list")
  /\ UNCHANGED <<bucketVars, started>>

\* A round of the cleanup begins with a listing; the round that finds nothing is the
\* last.  After ListRounds rounds the worker can only throw.
List(w) ==
  LET listed == {key \in QuarantineKeys : object[key] # Absent}
  IN /\ worker[w].step = "list" /\ worker[w].checked
     /\ worker[w].round < ListRounds
     /\ worker' = IF listed = {} THEN [worker EXCEPT ![w].step = "succeed"]
                  ELSE [worker EXCEPT ![w].step = "delete", ![w].checked = FALSE,
                                      ![w].done = listed, ![w].round = @ + 1]
     /\ UNCHANGED <<jobsVars, bucketVars, started>>

Delete(w, key) ==
  /\ worker[w].step = "delete" /\ worker[w].checked
  /\ key \in worker[w].done
  /\ object' = [object EXCEPT ![key] = Absent]
  /\ IF worker[w].done = {key}
     THEN worker' = [worker EXCEPT ![w].step = "list", ![w].done = {}, ![w].checked = FALSE]
     ELSE worker' = [worker EXCEPT ![w].done = @ \ {key}]
  /\ UNCHANGED <<jobsVars, abandoned, started>>

\* succeed() returns on what is recorded for this attempt and this work already.
ReportAgain(w) ==
  /\ worker[w].step = "succeed" /\ worker[w].checked
  /\ SucceededAlready(worker[w].kind, worker[w].version, worker[w].manifest)
  /\ Leave(w, "finished")
  /\ UNCHANGED <<jobsVars, bucketVars, started>>

\* succeed(); its answer may be lost.
Report(w) ==
  /\ worker[w].step = "succeed" /\ worker[w].checked
  /\ Succeed(worker[w].kind, OwnerOf[w], worker[w].version, worker[w].manifest)
  /\ Leave(w, "finished") \/ Leave(w, "failed")
  /\ UNCHANGED <<bucketVars, started>>

\* An open transaction ends with the call or the process.
DropTransaction(w) ==
  IF worker[w].step \in {"finalize", "seal"}
  THEN RollBackTransaction(worker[w].kind)
  ELSE UNCHANGED jobsVars

\* The call throws: a lost lease, a timeout, a comparison that fails.
Throw(w) ==
  /\ worker[w].step \notin Resting \cup {"failed"}
  /\ DropTransaction(w)
  /\ Leave(w, "failed")
  /\ UNCHANGED <<bucketVars, started>>

\* The runner gives the lease back.
HandBack(w) ==
  /\ worker[w].step = "failed"
  /\ \/ Retry(worker[w].kind, OwnerOf[w], worker[w].version)
     \/ Fail(worker[w].kind, OwnerOf[w], worker[w].version)
  /\ worker' = [worker EXCEPT ![w] = Idle]
  /\ UNCHANGED <<bucketVars, started>>

\* The process dies, or the runner leaves the lease to run out.
Crash(w) ==
  /\ worker[w].step \notin Resting
  /\ DropTransaction(w)
  /\ worker' = [worker EXCEPT ![w] = Idle]
  /\ UNCHANGED <<bucketVars, started>>

-----------------------------------------------------------------------------
WorkerStep(w) ==
  \/ Checkpoint(w)
  \/ ReadRelease(w) \/ \E path \in Paths : ReadDeclared(w, path)
  \/ \E key \in QuarantineKeys : Gather(w, key) \/ Delete(w, key)
  \/ \E key \in ReleaseKeys : Promote(w, key) \/ AbandonPut(w, key)
  \/ BindWorkIdentity(w) \/ BeginFinalTransaction(w) \/ FinalizeRelease(w)
  \/ BindResult(w)
  \/ AssertCleanup(w) \/ SealRelease(w) \/ List(w)
  \/ Report(w) \/ ReportAgain(w)

ControlStep ==
  /\ \/ \E from, to \in Uploading : AdvanceRelease(from, to)
     \/ \E path \in Paths, content \in Contents : Redeclare(path, content)
     \/ \E k \in Kinds : Enqueue(k)
  /\ UNCHANGED <<bucketVars, started, worker>>

Upload ==
  \/ \E path \in Paths : StartUpload(path)
  \/ \E u \in uploads : FinishUpload(u) \/ AbandonUpload(u)

ClaimStep(w) == \E swept, claimed \in SUBSET Kinds : ClaimDue(w, swept, claimed)

ReleaseNext ==
  \/ ControlStep
  \/ Upload
  \/ \E put \in abandoned : ServeAbandoned(put)
  \/ \E w \in Workers : ClaimStep(w) \/ WorkerStep(w) \/ Throw(w)
                         \/ HandBack(w) \/ Crash(w)
  \/ JobsClock /\ UNCHANGED <<bucketVars, started, worker>>

ReleaseSpec == ReleaseInit /\ [][ReleaseNext]_releaseVars

\* Processes run and the clock moves.  A worker ends each step one way or the other,
\* the runner drops what it cannot hand back, an upload is answered or aborted.
ReleaseFairness ==
  /\ \A w \in Workers :
       /\ WF_releaseVars(ClaimStep(w) /\ job' # job)
       /\ WF_releaseVars(WorkerStep(w) \/ Throw(w))
       /\ WF_releaseVars(HandBack(w) \/ (worker[w].step = "failed" /\ Crash(w)))
  /\ WF_releaseVars(\E u \in uploads : FinishUpload(u) \/ AbandonUpload(u))
  /\ \A k \in Kinds : WF_releaseVars((LeaseExpires(k) \/ RetryFallsDue(k))
                                       /\ UNCHANGED <<bucketVars, started, worker>>)

FairReleaseSpec == ReleaseSpec /\ ReleaseFairness

-----------------------------------------------------------------------------
(* What holds.                                                             *)

\* Objects, requests and worker states keep their types.
ReleaseTypeOK ==
  /\ JobsTypeOK
  /\ \A key \in QuarantineKeys \cup ReleaseKeys : object[key] \in Bodies(key) \cup {Absent}
  /\ abandoned \subseteq Puts
  /\ started \in 0 .. MaxUploads
  /\ worker \in [Workers -> WorkerStates]

\* A READY release is complete in the bucket: every object its manifest speaks of is
\* there, as declared, and so is the manifest (STO-02, "partial failure exposes
\* none").
ReadyIsComplete ==
  release.state = "READY" =>
    \A key \in ReleaseKeys : object[key] = BodyOf(release.manifest, key)

\* The release prefix only ever holds objects of the one work identity the job is
\* bound to, though attempts of different workers read different declarations and
\* default documents and their PUTs are served late (README of pg-s3-storages: the
\* worker binds the identity "before its first release-object write").  Otherwise
\* the create-only objects of one attempt would be in the way of every later one.
OnlyBoundWorkIsPromoted ==
  \A key \in ReleaseKeys :
    object[key] # Absent =>
      /\ job[PROCESS].work # NoManifest
      /\ object[key] = BodyOf(job[PROCESS].work, key)

\* While a lease is live the job changes only by a step of the worker it was given
\* to, at this very version, though another worker may go by the same name (JOB-01).
LiveLeaseIsExclusive ==
  [][\A k \in Kinds :
       job[k].state = "LEASED" /\ job[k].live /\ job'[k] # job[k] =>
         \/ job'[k] = [job[k] EXCEPT !.live = FALSE]
         \/ \E w \in Workers :
              /\ OwnerOf[w] = job[k].owner
              /\ worker[w].kind = k /\ worker[w].version = job[k].attempts
              /\ worker'[w] # worker[w]]_releaseVars

\* A release becomes READY by the attempt that owns the job at that moment: its lease
\* may run out while the transaction waits for uploads to end, but nobody has swept
\* or claimed the job meanwhile.
FinalizedByOwner ==
  [][release.state # "READY" /\ release'.state = "READY" =>
       \E w \in Workers :
         /\ Fenced(PROCESS, OwnerOf[w], worker[w].version)
         /\ worker[w].kind = PROCESS /\ worker'[w] # worker[w]]_releaseVars

\* READY and FAILED are final.
DecidedOnce ==
  [][release.state \in {"READY", "FAILED"} =>
       release'.state = release.state /\ release'.manifest = release.manifest]_releaseVars

\* Nothing is taken out of quarantine while the release may still need it.
DeletedOnlyWhenSealed ==
  [][(\E key \in QuarantineKeys : object[key] # Absent /\ object'[key] = Absent) =>
       release.state = "FAILED"]_releaseVars

\* succeed() returns only when the job is recorded as SUCCEEDED, by this call or, for
\* this very attempt, by the sweep of a claim.
SuccessAnswerIsTrue ==
  \A w \in Workers :
    worker[w].step = "finished" => job[worker[w].kind].state = "SUCCEEDED"

\* After a cleanup nothing is left in quarantine but what an aborted upload left on
\* its way.
CleanedButForAbandoned ==
  job[CLEANUP].state = "SUCCEEDED" =>
    \A key \in QuarantineKeys : object[key] # Absent => <<key, object[key]>> \in abandoned

\* The worker plays its part of the database protocol: it finalizes nothing but the
\* work it bound.
ImplementsJobs == JobsSpec

\* Objects, jobs and answers bear out what the database says of the release.
ReleaseInv ==
  /\ ReleaseTypeOK
  /\ ReadyIsComplete
  /\ OnlyBoundWorkIsPromoted
  /\ SuccessAnswerIsTrue
  /\ CleanedButForAbandoned

\* Only the holder of a lease changes its job, and only it finishes the release.
LeasesProtect == LiveLeaseIsExclusive /\ FinalizedByOwner

\* READY is not taken back, FAILED neither, and nothing is deleted before.
DecisionsStand == DecidedOnce /\ DeletedOnlyWhenSealed

\* Every job ends, whatever its workers do: attempts are bounded, leases run out, and
\* a claim sweeps the last attempt (JOB-03).
JobsEnd == \A k \in Kinds : job[k].state # "ABSENT" ~> job[k].state \in Ended

\* Work that was committed is reported, though every answer may be lost and every
\* worker may die on the way (JOB-02).
ReadyIsReported == release.state = "READY" ~> job[PROCESS].state = "SUCCEEDED"

=============================================================================
