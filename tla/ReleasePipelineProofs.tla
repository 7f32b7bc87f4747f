------------------------ MODULE ReleasePipelineProofs ------------------------
(***************************************************************************)
(* Theorems of ReleaseJobs and of ReleasePipeline, for every number of     *)
(* workers, paths, versions of files, attempts and uploads.                *)
(*                                                                         *)
(* Of the database: the three facts about a release and its jobs need one  *)
(* another.  A sweep may call a job failed only because a READY release is *)
(* always that of the work the job is bound to, and that stays so because  *)
(* a FAILED release has no processing job left that could finalize it.     *)
(*                                                                         *)
(* Of the pipeline: whatever attempts, late PUTs and crashes leave in the  *)
(* bucket belongs to the one work that the job is bound to, so that what   *)
(* a worker has seen there stays true until it commits.                    *)
(***************************************************************************)
EXTENDS ReleasePipeline, TLAPS

JobsInv ==
  /\ JobsTypeOK
  /\ ReadyIsBoundWork
  /\ JobsAgreeWithRelease
  /\ NoJobIsSealedOut

\* What the rows that a claim writes keep, and the state they are in.
LEMMA RowWritten ==
  ASSUME JobsTypeOK, NEW k \in Kinds
  PROVE  /\ \A state : End(k, state).work = job[k].work /\ End(k, state).state = state
         /\ \A o : Leased(k, o).work = job[k].work /\ Leased(k, o).state = "LEASED"
<1>1. job[k] \in Jobs
  BY DEF JobsTypeOK
<1>2. \A state : End(k, state).work = job[k].work /\ End(k, state).state = state
  BY <1>1 DEF End, Jobs
<1>3. \A o : Leased(k, o).work = job[k].work /\ Leased(k, o).state = "LEASED"
  BY <1>1 DEF Leased, Jobs
<1> QED
  BY <1>2, <1>3

\* A job that ends, or waits for its next attempt, is well typed.
LEMMA EndIsJob ==
  ASSUME JobsTypeOK, NEW k \in Kinds, NEW state \in Ended \cup {"RETRY_WAIT"}
  PROVE  End(k, state) \in Jobs
BY DEF JobsTypeOK, End, Jobs, Ended

\* So is a job that is claimed with an attempt left.
LEMMA LeasedIsJob ==
  ASSUME JobsTypeOK, NEW k \in Kinds, NEW o \in Owners, job[k].attempts < MaxAttempts
  PROVE  Leased(k, o) \in Jobs
<1>1. job[k] \in Jobs
  BY DEF JobsTypeOK
<1>2. job[k].attempts + 1 \in 0 .. MaxAttempts
  BY <1>1, AttemptsAssumption DEF Jobs
<1> DEFINE row == [job[k] EXCEPT !.state = "LEASED", !.owner = o, !.live = TRUE,
                              !.due = FALSE]
<1>3. row \in Jobs /\ row.attempts = job[k].attempts
  BY <1>1 DEF Jobs
<1>4. Leased(k, o) = [row EXCEPT !.attempts = job[k].attempts + 1]
  BY <1>1 DEF Leased, Jobs
<1> HIDE DEF row
<1> QED
  BY <1>2, <1>3, <1>4 DEF Jobs

\* The new release has no jobs, and every column its type.
LEMMA JobsInitInv == JobsInit => JobsInv
<1> SUFFICES ASSUME JobsInit PROVE JobsInv
  OBVIOUS
<1>1. job \in [Kinds -> Jobs]
  BY AttemptsAssumption DEF JobsInit, Jobs
<1>2. release \in ReleaseRows
  BY DEF JobsInit, ReleaseRows, Uploading
<1>3. JobsTypeOK
  BY <1>1, <1>2 DEF JobsInit, JobsTypeOK
<1>4. ReadyIsBoundWork /\ JobsAgreeWithRelease /\ NoJobIsSealedOut
  BY DEF JobsInit, ReadyIsBoundWork, JobsAgreeWithRelease, NoJobIsSealedOut,
         Kinds, PROCESS, CLEANUP, Ended
<1> QED
  BY <1>3, <1>4 DEF JobsInv

-----------------------------------------------------------------------------
(* Control moves a release among the states before it is finalized,        *)
(* replaces declarations that are not READY and enqueues jobs of releases  *)
(* that are not FAILED.                                                    *)

LEMMA AdvanceInv ==
  ASSUME JobsInv, NEW from \in Uploading, NEW to \in Uploading, AdvanceRelease(from, to)
  PROVE  JobsInv'
<1> USE DEF JobsInv, AdvanceRelease
<1>1. release \in ReleaseRows /\ release' = [release EXCEPT !.state = to]
  BY DEF JobsTypeOK
<1>2. release.state \in Uploading /\ release'.state \in Uploading
  BY <1>1 DEF ReleaseRows
<1>3. release' \in ReleaseRows
  BY <1>1 DEF ReleaseRows
<1>4. JobsTypeOK'
  BY <1>3 DEF JobsTypeOK
<1>5. ReadyIsBoundWork' /\ NoJobIsSealedOut'
  BY <1>2 DEF Uploading, ReadyIsBoundWork, NoJobIsSealedOut
<1>6. JobsAgreeWithRelease'
  BY <1>2 DEF Uploading, JobsAgreeWithRelease
<1> QED
  BY <1>4, <1>5, <1>6

LEMMA ControlInv == JobsInv /\ Control => JobsInv'
<1> SUFFICES ASSUME JobsInv, Control PROVE JobsInv'
  OBVIOUS
<1> USE DEF JobsInv
<1>1. CASE \E from, to \in Uploading : AdvanceRelease(from, to)
  BY <1>1, AdvanceInv
<1>2. CASE \E path \in Paths, content \in Contents : Redeclare(path, content)
  <2>1. PICK path \in Paths, content \in Contents : Redeclare(path, content)
    BY <1>2
  <2>2. declared' \in Declarations
    BY <2>1 DEF Redeclare, JobsTypeOK, Declarations
  <2> QED
    BY <2>1, <2>2 DEF Redeclare, JobsTypeOK, ReadyIsBoundWork, JobsAgreeWithRelease,
                      NoJobIsSealedOut
<1>3. CASE \E path \in Paths : BeginUpload(path)
  <2>1. PICK path \in Paths : BeginUpload(path)
    BY <1>3
  <2>2. [path |-> path, content |-> declared[path]] \in UploadRequests
    BY DEF JobsTypeOK, Declarations, UploadRequests
  <2> QED
    BY <2>1, <2>2 DEF BeginUpload, JobsTypeOK, ReadyIsBoundWork, JobsAgreeWithRelease,
                      NoJobIsSealedOut
<1>4. CASE \E u \in uploads : EndUpload(u)
  BY <1>4 DEF EndUpload, JobsTypeOK, ReadyIsBoundWork, JobsAgreeWithRelease,
              NoJobIsSealedOut
<1>5. CASE \E k \in Kinds : Enqueue(k)
  <2>1. PICK k \in Kinds : Enqueue(k)
    BY <1>5
  <2>2. job' \in [Kinds -> Jobs]
    <3>1. job[k] \in Jobs
      BY DEF JobsTypeOK
    <3>2. [job[k] EXCEPT !.state = "PENDING", !.due = TRUE] \in Jobs
      BY <3>1 DEF Jobs
    <3> QED
      BY <2>1, <3>2 DEF Enqueue, JobsTypeOK
  <2>3. job'[k].state = "PENDING" /\ job'[k].work = job[k].work
    <3>1. job[k] \in Jobs
      BY DEF JobsTypeOK
    <3>2. job'[k] = [job[k] EXCEPT !.state = "PENDING", !.due = TRUE]
      BY <2>1 DEF Enqueue, JobsTypeOK
    <3> QED
      BY <3>1, <3>2 DEF Jobs
  <2>4. \A j \in Kinds : j # k => job'[j] = job[j]
    BY <2>1 DEF Enqueue, JobsTypeOK
  <2>5. PROCESS \in Kinds /\ CLEANUP \in Kinds
    BY DEF Kinds
  <2>6. UNCHANGED <<release, declared, uploads, held>>
    BY <2>1 DEF Enqueue
  <2>7. JobsTypeOK'
    BY <2>2, <2>6 DEF JobsTypeOK
  <2>8. ReadyIsBoundWork'
    BY <2>3, <2>4, <2>5, <2>6 DEF ReadyIsBoundWork
  <2>9. JobsAgreeWithRelease'
    BY <2>3, <2>4, <2>5, <2>6 DEF JobsAgreeWithRelease
  <2>10. NoJobIsSealedOut'
    <3>1. k = PROCESS => release.state # "FAILED"
      BY <2>1 DEF Enqueue, Finalizable
    <3> QED
      BY <3>1, <2>4, <2>5, <2>6 DEF NoJobIsSealedOut
  <2> QED
    BY <2>7, <2>8, <2>9, <2>10
<1> QED
  BY <1>1, <1>2, <1>3, <1>4, <1>5 DEF Control

-----------------------------------------------------------------------------
(* A step on one job that leaves its work alone and does not decide it     *)
(* wrongly.  Claims, retries and the clock are such steps.                 *)

\* One job changes, the release does not: it is enough that the change is allowed by
\* the state of the release.
LEMMA JobStepInv ==
  ASSUME JobsInv, NEW k \in Kinds, NEW row \in Jobs,
         job' = [job EXCEPT ![k] = row],
         UNCHANGED <<release, declared, uploads>>,
         held' \in [Kinds -> Owners \cup {NoOwner}],
         release.state = "READY" => row.work = job[k].work,
         k = PROCESS /\ row.state = "SUCCEEDED" => release.state = "READY",
         k = PROCESS /\ row.state = "FAILED" => release.state = "FAILED",
         k = CLEANUP /\ row.state = "SUCCEEDED" => release.state = "FAILED",
         k = PROCESS /\ release.state = "FAILED" => row.state \in Ended \cup {"ABSENT"}
  PROVE  JobsInv'
<1> USE DEF JobsInv
<1>1. job'[k] = row /\ \A j \in Kinds : j # k => job'[j] = job[j]
  BY DEF JobsTypeOK
<1>2. PROCESS \in Kinds /\ CLEANUP \in Kinds /\ PROCESS # CLEANUP
  BY DEF Kinds, PROCESS, CLEANUP
<1>3. JobsTypeOK'
  BY DEF JobsTypeOK
<1>4. ReadyIsBoundWork'
  BY <1>1, <1>2 DEF ReadyIsBoundWork
<1>5. JobsAgreeWithRelease'
  BY <1>1, <1>2 DEF JobsAgreeWithRelease
<1>6. NoJobIsSealedOut'
  BY <1>1, <1>2 DEF NoJobIsSealedOut
<1> QED
  BY <1>3, <1>4, <1>5, <1>6

\* A leased processing job means that the release is not FAILED.
LEMMA LeasedIsOpen ==
  ASSUME JobsInv, job[PROCESS].state \notin Ended \cup {"ABSENT"}
  PROVE  release.state # "FAILED"
BY DEF JobsInv, NoJobIsSealedOut

LEMMA ClaimInv ==
  ASSUME JobsInv, NEW o \in Owners, NEW swept \in SUBSET Kinds,
         NEW claimed \in SUBSET Kinds, Claim(o, swept, claimed)
  PROVE  JobsInv'
<1> USE DEF JobsInv
<1>1. \A k \in swept : job[k].state = "LEASED"
  BY DEF Claim, Sweepable
<1>2. \A k \in claimed : /\ job[k].state \in {"LEASED", "PENDING", "RETRY_WAIT"}
                         /\ job[k].attempts < MaxAttempts
  BY DEF Claim, Claimable
<1>3. \A k \in Kinds :
        job'[k] = IF k \in swept THEN End(k, IF Committed(k) THEN "SUCCEEDED" ELSE "FAILED")
                  ELSE IF k \in claimed THEN Leased(k, o) ELSE job[k]
  BY DEF Claim
<1>4. job' \in [Kinds -> Jobs]
  <2>1. ASSUME NEW k \in Kinds PROVE job'[k] \in Jobs
    <3>1. CASE k \in swept
      BY <1>3, <3>1, EndIsJob DEF Ended
    <3>2. CASE k \notin swept /\ k \in claimed
      BY <1>2, <1>3, <3>2, LeasedIsJob
    <3>3. CASE k \notin swept /\ k \notin claimed
      BY <1>3, <3>3 DEF JobsTypeOK
    <3> QED
      BY <3>1, <3>2, <3>3
  <2> QED
    BY <2>1 DEF Claim
<1>5. PROCESS \in Kinds /\ CLEANUP \in Kinds /\ PROCESS # CLEANUP
  BY DEF Kinds, PROCESS, CLEANUP
<1>6. release \in ReleaseRows /\ release' \in ReleaseRows
  BY DEF Claim, FailRelease, JobsTypeOK, ReleaseRows
<1>7. release'.state # release.state =>
        release.state \in Uploading /\ release'.state = "FAILED" /\ PROCESS \in swept
  BY <1>6 DEF Claim, FailRelease, ReleaseRows
<1>8. release.state \notin Uploading => release' = release
  BY DEF Claim
<1>9. \A k \in Kinds : job'[k].work = job[k].work
  BY <1>3, RowWritten
<1>10. \A k \in Kinds : job'[k].state =
         IF k \in swept THEN IF Committed(k) THEN "SUCCEEDED" ELSE "FAILED"
         ELSE IF k \in claimed THEN "LEASED" ELSE job[k].state
  BY <1>3, RowWritten
<1>11. JobsTypeOK'
  BY <1>4, <1>6 DEF JobsTypeOK, Claim
<1>12. ReadyIsBoundWork'
  <2>1. release'.state = "READY" => release' = release
    BY <1>7, <1>8 DEF Uploading
  <2> QED
    BY <2>1, <1>5, <1>9 DEF ReadyIsBoundWork, Claim
<1>13. JobsAgreeWithRelease'
  <2>1. PROCESS \in swept /\ Committed(PROCESS) => release'.state = "READY"
    BY <1>8 DEF Committed, Uploading
  <2>2. PROCESS \in swept /\ ~Committed(PROCESS) => release'.state = "FAILED"
    <3>1. ASSUME PROCESS \in swept, ~Committed(PROCESS) PROVE release.state # "READY"
      BY <3>1 DEF ReadyIsBoundWork, Committed
    <3>2. release.state \in Uploading \cup {"READY", "FAILED"}
      BY <1>6 DEF ReleaseRows
    <3> QED
      BY <1>6, <3>1, <3>2 DEF Claim, FailRelease, ReleaseRows
  <2>3. ~Committed(CLEANUP)
    BY <1>5 DEF Committed
  <2> QED
    BY <1>1, <1>2, <1>5, <1>8, <1>10, <2>1, <2>2, <2>3
    DEF JobsAgreeWithRelease, Uploading
<1>14. NoJobIsSealedOut'
  <2>1. CASE PROCESS \in swept
    BY <1>5, <1>10, <2>1 DEF NoJobIsSealedOut, Ended
  <2>2. CASE PROCESS \notin swept
    <3>1. release'.state = release.state
      BY <1>7, <2>2
    <3>2. release.state = "FAILED" => PROCESS \notin claimed
      BY <1>2 DEF NoJobIsSealedOut, Ended
    <3> QED
      BY <1>5, <1>10, <2>2, <3>1, <3>2 DEF NoJobIsSealedOut
  <2> QED
    BY <2>1, <2>2
<1> QED
  BY <1>11, <1>12, <1>13, <1>14

\* The work of a job changes only from none, which it is not when READY.
LEMMA BindInv ==
  ASSUME JobsInv, NEW o \in Owners, NEW v \in 1 .. MaxAttempts, NEW m \in Manifests,
         BindWork(o, v, m)
  PROVE  JobsInv'
<1> DEFINE row == [job[PROCESS] EXCEPT !.work = m]
<1>1. job[PROCESS] \in Jobs /\ PROCESS \in Kinds /\ PROCESS # CLEANUP
  BY DEF JobsInv, JobsTypeOK, Kinds, PROCESS, CLEANUP
<1>2. row \in Jobs /\ row.state = "LEASED" /\ row.work = m
  BY <1>1 DEF Jobs, BindWork, HoldsLease, Fenced
<1>3. job' = [job EXCEPT ![PROCESS] = row]
  BY DEF BindWork
<1>4. release.state = "READY" => m = job[PROCESS].work
  BY DEF JobsInv, ReadyIsBoundWork, BindWork
<1>5. release.state # "FAILED"
  BY <1>1, LeasedIsOpen DEF BindWork, HoldsLease, Fenced, Ended
<1>6. UNCHANGED <<release, declared, uploads>> /\ held' \in [Kinds -> Owners \cup {NoOwner}]
  BY DEF BindWork, JobsInv, JobsTypeOK
<1> HIDE DEF row
<1> QED
  BY <1>1, <1>2, <1>3, <1>4, <1>5, <1>6, JobStepInv

LEMMA RetryInv ==
  ASSUME JobsInv, NEW k \in Kinds, NEW o \in Owners, NEW v \in 1 .. MaxAttempts,
         Retry(k, o, v)
  PROVE  JobsInv'
<1> DEFINE row == End(k, "RETRY_WAIT")
<1>1. row \in Jobs
  BY EndIsJob DEF JobsInv
<1>2. row.state = "RETRY_WAIT" /\ row.work = job[k].work
  BY DEF End, JobsInv, JobsTypeOK, Jobs
<1>3. k = PROCESS => release.state # "FAILED"
  BY LeasedIsOpen DEF Retry, HoldsLease, Fenced, Ended
<1>4. /\ job' = [job EXCEPT ![k] = row] /\ UNCHANGED <<release, declared, uploads>>
      /\ held' \in [Kinds -> Owners \cup {NoOwner}]
  BY DEF Retry, JobsInv, JobsTypeOK
<1> HIDE DEF row
<1> QED
  BY <1>1, <1>2, <1>3, <1>4, JobStepInv

LEMMA SucceedInv ==
  ASSUME JobsInv, NEW k \in Kinds, NEW o \in Owners, NEW v \in 1 .. MaxAttempts,
         NEW m \in Manifests \cup {NoManifest}, Succeed(k, o, v, m)
  PROVE  JobsInv'
<1> DEFINE row == End(k, "SUCCEEDED")
<1>1. row \in Jobs
  BY EndIsJob DEF JobsInv, Ended
<1>2. row.state = "SUCCEEDED" /\ row.work = job[k].work
  BY DEF End, JobsInv, JobsTypeOK, Jobs
<1>3. /\ k = PROCESS => release.state = "READY"
      /\ k = CLEANUP => release.state = "FAILED"
  BY DEF Succeed, PROCESS, CLEANUP
<1>4. /\ job' = [job EXCEPT ![k] = row] /\ UNCHANGED <<release, declared, uploads>>
      /\ held' \in [Kinds -> Owners \cup {NoOwner}]
  BY DEF Succeed, JobsInv, JobsTypeOK
<1> HIDE DEF row
<1> QED
  BY <1>1, <1>2, <1>3, <1>4, JobStepInv

\* Failing a processing job fails its release in the same transaction.
LEMMA FailInv ==
  ASSUME JobsInv, NEW k \in Kinds, NEW o \in Owners, NEW v \in 1 .. MaxAttempts,
         Fail(k, o, v)
  PROVE  JobsInv'
<1> USE DEF JobsInv
<1> DEFINE row == End(k, "FAILED")
<1>1. row \in Jobs /\ row.state = "FAILED" /\ row.work = job[k].work
  BY EndIsJob DEF Ended, End, JobsTypeOK, Jobs
<1>2. PROCESS \in Kinds /\ CLEANUP \in Kinds /\ PROCESS # CLEANUP
  BY DEF Kinds, PROCESS, CLEANUP
<1>3. job' = [job EXCEPT ![k] = row]
  BY DEF Fail
<1>4. CASE k = PROCESS /\ release.state \in Uploading
  <2>1. release \in ReleaseRows /\ release' = [release EXCEPT !.state = "FAILED"]
    BY <1>4 DEF JobsTypeOK, Fail, FailRelease
  <2>2. release' \in ReleaseRows /\ release'.state = "FAILED"
    BY <2>1 DEF ReleaseRows
  <2>3. job'[PROCESS] = row /\ job'[CLEANUP] = job[CLEANUP]
    BY <1>2, <1>3, <1>4 DEF JobsTypeOK
  <2>4. JobsTypeOK'
    BY <1>1, <1>3, <2>2 DEF JobsTypeOK, Fail
  <2> HIDE DEF row
  <2> QED
    BY <1>1, <2>2, <2>3, <2>4 DEF ReadyIsBoundWork, JobsAgreeWithRelease,
                                  NoJobIsSealedOut, Ended
<1>5. CASE ~(k = PROCESS /\ release.state \in Uploading)
  <2>1. UNCHANGED <<release, declared, uploads>>
    BY <1>5 DEF Fail
  <2>2. k = PROCESS => release.state = "FAILED"
    BY <1>5 DEF Fail, JobsTypeOK, ReleaseRows
  <2>3. held' \in [Kinds -> Owners \cup {NoOwner}]
    BY DEF Fail, JobsTypeOK
  <2> HIDE DEF row
  <2> QED
    BY <1>1, <1>3, <2>1, <2>2, <2>3, JobStepInv DEF Ended
<1> QED
  BY <1>4, <1>5

-----------------------------------------------------------------------------
(* Transactions that hold the row of a job.                                *)

LEMMA HeldInv ==
  ASSUME JobsInv, NEW k \in Kinds, NEW h \in Owners \cup {NoOwner},
         held' = [held EXCEPT ![k] = h], UNCHANGED <<release, declared, job, uploads>>
  PROVE  JobsInv'
BY DEF JobsInv, JobsTypeOK, ReadyIsBoundWork, JobsAgreeWithRelease, NoJobIsSealedOut

\* The release becomes READY with the bound work, or is READY with it.
LEMMA FinalizeInv ==
  ASSUME JobsInv, FinalizeBound
  PROVE  JobsInv'
<1> USE DEF JobsInv
<1>1. PICK from \in Finalizable : Finalize(from, job[PROCESS].work)
  BY DEF FinalizeBound
<1>2. job[PROCESS].work \in Manifests /\ PROCESS \in Kinds
  BY DEF FinalizeBound, JobsTypeOK, Jobs, Kinds
<1>3. held' \in [Kinds -> Owners \cup {NoOwner}]
  BY <1>1 DEF Finalize, LetGo, JobsTypeOK
<1>4. CASE UNCHANGED release
  BY <1>1, <1>3, <1>4 DEF Finalize, JobsTypeOK, ReadyIsBoundWork, JobsAgreeWithRelease,
                          NoJobIsSealedOut
<1>5. CASE /\ release.state = from
           /\ declared = job[PROCESS].work.files
           /\ release' = [state |-> "READY", manifest |-> job[PROCESS].work]
  <2>1. UNCHANGED <<declared, job, uploads>>
    BY <1>1 DEF Finalize
  <2>2. release' \in ReleaseRows /\ release'.state = "READY"
        /\ release'.manifest = job[PROCESS].work
    BY <1>2, <1>5 DEF ReleaseRows
  <2>3. release.state \notin {"READY", "FAILED"}
    BY <1>5 DEF Finalizable
  <2>4. JobsTypeOK'
    BY <1>3, <2>1, <2>2 DEF JobsTypeOK
  <2>5. ReadyIsBoundWork'
    BY <1>5, <2>1, <2>2 DEF ReadyIsBoundWork, FinalizeBound
  <2>6. JobsAgreeWithRelease' /\ NoJobIsSealedOut'
    BY <2>1, <2>2, <2>3 DEF JobsAgreeWithRelease, NoJobIsSealedOut
  <2> QED
    BY <2>4, <2>5, <2>6
<1> QED
  BY <1>1, <1>4, <1>5 DEF Finalize

\* The release becomes FAILED when no processing job is in progress.
LEMMA SealInv ==
  ASSUME JobsInv, Seal
  PROVE  JobsInv'
<1> USE DEF JobsInv
<1>1. release \in ReleaseRows /\ release' = [release EXCEPT !.state = "FAILED"]
  BY DEF Seal, JobsTypeOK
<1>2. release' \in ReleaseRows /\ release'.state = "FAILED"
  BY <1>1 DEF ReleaseRows
<1>3. held' \in [Kinds -> Owners \cup {NoOwner}]
  BY DEF Seal, LetGo, JobsTypeOK
<1>4. UNCHANGED <<declared, job, uploads>> /\ release.state # "READY"
  BY DEF Seal
<1>5. JobsTypeOK'
  BY <1>2, <1>3, <1>4 DEF JobsTypeOK
<1>6. ReadyIsBoundWork' /\ JobsAgreeWithRelease'
  BY <1>2, <1>4 DEF ReadyIsBoundWork, JobsAgreeWithRelease
<1>7. NoJobIsSealedOut'
  BY <1>4 DEF Seal, NoJobIsSealedOut
<1> QED
  BY <1>5, <1>6, <1>7

LEMMA ClockInv == JobsInv /\ JobsClock => JobsInv'
<1> SUFFICES ASSUME JobsInv, NEW k \in Kinds, LeaseExpires(k) \/ RetryFallsDue(k)
             PROVE  JobsInv'
  BY DEF JobsClock
<1>1. PICK row : /\ row \in {[job[k] EXCEPT !.live = FALSE], [job[k] EXCEPT !.due = TRUE]}
                 /\ job' = [job EXCEPT ![k] = row]
                 /\ job[k].state \in {"LEASED", "RETRY_WAIT"}
  BY DEF LeaseExpires, RetryFallsDue
<1>2. row \in Jobs /\ row.state = job[k].state /\ row.work = job[k].work
  BY <1>1 DEF JobsInv, JobsTypeOK, Jobs
<1>3. k = PROCESS => release.state # "FAILED"
  BY <1>1, LeasedIsOpen DEF Ended
<1>4. UNCHANGED <<release, declared, uploads>> /\ held' \in [Kinds -> Owners \cup {NoOwner}]
  BY DEF LeaseExpires, RetryFallsDue, JobsInv, JobsTypeOK
<1> QED
  BY <1>1, <1>2, <1>3, <1>4, JobStepInv

-----------------------------------------------------------------------------
(* Every step.                                                             *)

LEMMA JobsNextInv == JobsInv /\ [JobsNext]_jobsVars => JobsInv'
<1> SUFFICES ASSUME JobsInv, [JobsNext]_jobsVars PROVE JobsInv'
  OBVIOUS
<1>1. CASE Control
  BY <1>1, ControlInv
<1>2. ASSUME NEW o \in Owners, NEW swept \in SUBSET Kinds, NEW claimed \in SUBSET Kinds,
             Claim(o, swept, claimed)
      PROVE  JobsInv'
  BY <1>2, ClaimInv
<1>3. ASSUME NEW o \in Owners, NEW k \in Kinds, NEW v \in 1 .. MaxAttempts, Call(k, o, v)
      PROVE  JobsInv'
  <2>1. CASE AssertLease(k, o, v)
    BY <2>1, HeldInv DEF AssertLease
  <2>2. CASE Retry(k, o, v)
    BY <2>2, RetryInv
  <2>3. CASE Fail(k, o, v)
    BY <2>3, FailInv
  <2>4. CASE \E m \in Manifests \cup {NoManifest} : Succeed(k, o, v, m)
    BY <2>4, SucceedInv
  <2> QED
    BY <1>3, <2>1, <2>2, <2>3, <2>4 DEF Call
<1>4. ASSUME NEW o \in Owners, NEW v \in 1 .. MaxAttempts, NEW m \in Manifests,
             BindWork(o, v, m)
      PROVE  JobsInv'
  BY <1>4, BindInv
<1>5. CASE FinalizeBound
  BY <1>5, FinalizeInv
<1>6. CASE Seal
  BY <1>6, SealInv
<1>7. ASSUME NEW k \in Kinds, RollBackTransaction(k)
      PROVE  JobsInv'
  BY <1>7, HeldInv DEF RollBackTransaction, LetGo
<1>8. CASE JobsClock
  BY <1>8, ClockInv
<1>9. CASE UNCHANGED jobsVars
  BY <1>9 DEF jobsVars, JobsInv, JobsTypeOK, ReadyIsBoundWork, JobsAgreeWithRelease,
              NoJobIsSealedOut
<1> QED
  BY <1>1, <1>2, <1>3, <1>4, <1>5, <1>6, <1>7, <1>8, <1>9 DEF JobsNext

\* The invariant the others follow from.
THEOREM JobsInvariant == JobsSpec => []JobsInv
<1>1. JobsInit => JobsInv
  BY JobsInitInv
<1>2. JobsInv /\ [JobsNext]_jobsVars => JobsInv'
  BY JobsNextInv
<1> QED
  BY <1>1, <1>2, PTL DEF JobsSpec

\* Every column keeps its type; attempts never pass max_attempts.
THEOREM JobsTypeCorrect == JobsSpec => []JobsTypeOK
<1>1. JobsInv => JobsTypeOK
  BY DEF JobsInv
<1> QED
  BY <1>1, JobsInvariant, PTL

\* A READY release is always the result of the work its job is bound to.
THEOREM ReadyReleaseIsBoundWork == JobsSpec => []ReadyIsBoundWork
<1>1. JobsInv => ReadyIsBoundWork
  BY DEF JobsInv
<1> QED
  BY <1>1, JobsInvariant, PTL

\* Processing jobs and the release always end alike, and a cleanup ends well only for
\* a FAILED release.
THEOREM JobsEndLikeTheRelease == JobsSpec => []JobsAgreeWithRelease
<1>1. JobsInv => JobsAgreeWithRelease
  BY DEF JobsInv
<1> QED
  BY <1>1, JobsInvariant, PTL

\* No release is sealed under a processing job in progress.
THEOREM SealingRespectsJobs == JobsSpec => []NoJobIsSealedOut
<1>1. JobsInv => NoJobIsSealedOut
  BY DEF JobsInv
<1> QED
  BY <1>1, JobsInvariant, PTL

\* The release and its two jobs never contradict each other: what is ready was
\* bound by its finalization, and what ended ended together.
THEOREM JobsAreConsistent == JobsSpec => []JobsConsistent
<1>1. JobsInv => JobsConsistent
  BY DEF JobsInv, JobsConsistent
<1> QED
  BY <1>1, JobsInvariant, PTL

-----------------------------------------------------------------------------
(***************************************************************************)
(* What a step of the database leaves alone.                               *)
(***************************************************************************)

\* An upload holds the release, and nobody decides a release that is held.
FreeWhenDecided == release.state \notin Uploading => uploads = {}

\* Work is bound once, decisions and successes are final, and a job whose row is held
\* stays with its owner.
WorkStays == job[PROCESS].work # NoManifest => job'[PROCESS].work = job[PROCESS].work
DecisionStays ==
  release.state \in {"READY", "FAILED"} =>
    release'.state = release.state /\ release'.manifest = release.manifest
SuccessStays == \A k \in Kinds : job[k].state = "SUCCEEDED" => job'[k].state = "SUCCEEDED"
HeldStay ==
  \A k \in Kinds :
    held[k] # NoOwner /\ job[k].state = "LEASED" =>
      /\ job'[k].state = "LEASED"
      /\ job'[k].owner = job[k].owner /\ job'[k].attempts = job[k].attempts

DatabaseGrows == WorkStays /\ DecisionStays /\ SuccessStays /\ HeldStay /\ FreeWhenDecided'

\* The two kinds, and what is known of their rows.
LEMMA TwoKinds == /\ PROCESS \in Kinds /\ CLEANUP \in Kinds /\ PROCESS # CLEANUP
                  /\ \A k \in Kinds : k = PROCESS \/ k = CLEANUP
BY DEF Kinds, PROCESS, CLEANUP

\* What it takes when one job changes.
LEMMA RowGrows ==
  ASSUME JobsTypeOK, NEW k \in Kinds, NEW row,
         job' = [job EXCEPT ![k] = row],
         k = PROCESS /\ job[k].work # NoManifest => row.work = job[k].work,
         job[k].state = "SUCCEEDED" => row.state = "SUCCEEDED",
         held[k] # NoOwner /\ job[k].state = "LEASED" =>
           /\ row.state = "LEASED"
           /\ row.owner = job[k].owner /\ row.attempts = job[k].attempts
  PROVE  WorkStays /\ SuccessStays /\ HeldStay
<1>1. job'[k] = row /\ \A j \in Kinds : j # k => job'[j] = job[j]
  BY DEF JobsTypeOK
<1> QED
  BY <1>1, TwoKinds DEF WorkStays, SuccessStays, HeldStay

\* Nothing of the jobs changes.
LEMMA JobsStay ==
  ASSUME job' = job
  PROVE  WorkStays /\ SuccessStays /\ HeldStay
BY DEF WorkStays, SuccessStays, HeldStay

\* Of the release and the uploads, nothing.
LEMMA ReleaseStays ==
  ASSUME FreeWhenDecided, UNCHANGED <<release, uploads>>
  PROVE  DecisionStays /\ FreeWhenDecided'
BY DEF DecisionStays, FreeWhenDecided

LEMMA ControlGrows ==
  ASSUME JobsInv, FreeWhenDecided, Control
  PROVE  DatabaseGrows
<1>1. ASSUME NEW from \in Uploading, NEW to \in Uploading, AdvanceRelease(from, to)
      PROVE  DatabaseGrows
  <2>1. release'.state \in Uploading /\ release.state \in Uploading
    BY <1>1 DEF AdvanceRelease, JobsInv, JobsTypeOK, ReleaseRows
  <2>2. job' = job
    BY <1>1 DEF AdvanceRelease
  <2> QED
    BY <2>1, <2>2, JobsStay DEF DatabaseGrows, DecisionStays, FreeWhenDecided, Uploading
<1>2. ASSUME NEW path \in Paths, NEW content \in Contents, Redeclare(path, content)
      PROVE  DatabaseGrows
  BY <1>2, JobsStay, ReleaseStays DEF Redeclare, DatabaseGrows
<1>3. ASSUME NEW path \in Paths, BeginUpload(path)
      PROVE  DatabaseGrows
  BY <1>3, JobsStay DEF BeginUpload, DatabaseGrows, DecisionStays, FreeWhenDecided
<1>4. ASSUME NEW u \in uploads, EndUpload(u)
      PROVE  DatabaseGrows
  BY <1>4, JobsStay DEF EndUpload, DatabaseGrows, DecisionStays, FreeWhenDecided
<1>5. ASSUME NEW k \in Kinds, Enqueue(k)
      PROVE  DatabaseGrows
  <2> DEFINE row == [job[k] EXCEPT !.state = "PENDING", !.due = TRUE]
  <2>1. job' = [job EXCEPT ![k] = row] /\ UNCHANGED <<release, uploads>>
        /\ job[k].state = "ABSENT"
    BY <1>5 DEF Enqueue
  <2>2. row.work = job[k].work
    BY DEF JobsInv, JobsTypeOK, Jobs
  <2> HIDE DEF row
  <2> QED
    BY <2>1, <2>2, RowGrows, ReleaseStays DEF DatabaseGrows, JobsInv
<1> QED
  BY <1>1, <1>2, <1>3, <1>4, <1>5 DEF Control

LEMMA ClaimGrows ==
  ASSUME JobsInv, FreeWhenDecided, NEW o \in Owners, NEW swept \in SUBSET Kinds,
         NEW claimed \in SUBSET Kinds, Claim(o, swept, claimed)
  PROVE  DatabaseGrows
<1>1. \A k \in Kinds :
        /\ k \in swept => job[k].state = "LEASED" /\ held[k] = NoOwner
        /\ k \in claimed => /\ job[k].state \in {"LEASED", "PENDING", "RETRY_WAIT"}
                            /\ held[k] = NoOwner
  BY DEF Claim, Sweepable, Claimable
<1>2. \A k \in Kinds :
        job'[k] = IF k \in swept THEN End(k, IF Committed(k) THEN "SUCCEEDED" ELSE "FAILED")
                  ELSE IF k \in claimed THEN Leased(k, o) ELSE job[k]
  BY DEF Claim
<1>3. \A k \in Kinds : job'[k].work = job[k].work
  BY <1>2, RowWritten DEF JobsInv
<1>4. \A k \in Kinds : k \notin swept /\ k \notin claimed => job'[k] = job[k]
  BY <1>2
<1>5. WorkStays /\ SuccessStays /\ HeldStay
  BY <1>1, <1>3, <1>4, TwoKinds DEF WorkStays, SuccessStays, HeldStay
<1>6. DecisionStays /\ FreeWhenDecided'
  BY DEF Claim, FailRelease, ReleaseIsFree, DecisionStays, FreeWhenDecided, Uploading
<1> QED
  BY <1>5, <1>6 DEF DatabaseGrows

LEMMA CallGrows ==
  ASSUME JobsInv, FreeWhenDecided, NEW o \in Owners, NEW k \in Kinds,
         NEW v \in 1 .. MaxAttempts, Call(k, o, v)
  PROVE  DatabaseGrows
<1>1. CASE AssertLease(k, o, v)
  BY <1>1, JobsStay, ReleaseStays DEF AssertLease, DatabaseGrows
<1>2. ASSUME NEW state, job' = [job EXCEPT ![k] = End(k, state)],
             job[k].state = "LEASED", held[k] = NoOwner
      PROVE  WorkStays /\ SuccessStays /\ HeldStay
  <2>1. End(k, state).work = job[k].work
    BY DEF JobsInv, JobsTypeOK, Jobs, End
  <2> QED
    BY <1>2, <2>1, RowGrows DEF JobsInv
<1>3. CASE Retry(k, o, v)
  BY <1>2, <1>3, ReleaseStays DEF Retry, HoldsLease, Fenced, DatabaseGrows
<1>4. CASE \E m \in Manifests \cup {NoManifest} : Succeed(k, o, v, m)
  BY <1>2, <1>4, ReleaseStays DEF Succeed, HoldsLease, Fenced, DatabaseGrows
<1>5. CASE Fail(k, o, v)
  <2>1. DecisionStays /\ FreeWhenDecided'
    BY <1>5 DEF Fail, FailRelease, ReleaseIsFree, DecisionStays, FreeWhenDecided, Uploading
  <2> QED
    BY <1>2, <1>5, <2>1 DEF Fail, HoldsLease, Fenced, DatabaseGrows
<1> QED
  BY <1>1, <1>3, <1>4, <1>5 DEF Call

\* Every step of the database.
LEMMA DatabaseStep ==
  ASSUME JobsInv, FreeWhenDecided, [JobsNext]_jobsVars
  PROVE  DatabaseGrows
<1>1. CASE Control
  BY <1>1, ControlGrows
<1>2. ASSUME NEW o \in Owners, NEW swept \in SUBSET Kinds, NEW claimed \in SUBSET Kinds,
             Claim(o, swept, claimed)
      PROVE  DatabaseGrows
  BY <1>2, ClaimGrows
<1>3. ASSUME NEW o \in Owners, NEW k \in Kinds, NEW v \in 1 .. MaxAttempts, Call(k, o, v)
      PROVE  DatabaseGrows
  BY <1>3, CallGrows
<1>4. ASSUME NEW o \in Owners, NEW v \in 1 .. MaxAttempts, NEW m \in Manifests,
             BindWork(o, v, m)
      PROVE  DatabaseGrows
  <2> DEFINE row == [job[PROCESS] EXCEPT !.work = m]
  <2>1. /\ job' = [job EXCEPT ![PROCESS] = row] /\ UNCHANGED <<release, uploads>>
        /\ job[PROCESS].state = "LEASED" /\ job[PROCESS].work \in {NoManifest, m}
    BY <1>4 DEF BindWork, HoldsLease, Fenced
  <2>2. /\ row.work = m /\ row.state = job[PROCESS].state
        /\ row.owner = job[PROCESS].owner /\ row.attempts = job[PROCESS].attempts
    BY TwoKinds DEF JobsInv, JobsTypeOK, Jobs
  <2> HIDE DEF row
  <2> QED
    BY <2>1, <2>2, RowGrows, ReleaseStays, TwoKinds DEF DatabaseGrows, JobsInv
<1>5. CASE FinalizeBound
  <2>1. PICK from \in Finalizable : Finalize(from, job[PROCESS].work)
    BY <1>5 DEF FinalizeBound
  <2>2. job' = job /\ uploads' = {}
    BY <2>1 DEF Finalize, ReleaseIsFree
  <2>3. DecisionStays
    BY <2>1 DEF Finalize, DecisionStays, Finalizable
  <2> QED
    BY <2>2, <2>3, JobsStay DEF DatabaseGrows, FreeWhenDecided
<1>6. CASE Seal
  <2>1. job' = job /\ uploads' = {}
    BY <1>6 DEF Seal, ReleaseIsFree
  <2>2. DecisionStays
    BY <1>6 DEF Seal, DecisionStays, JobsInv, JobsTypeOK, ReleaseRows
  <2> QED
    BY <2>1, <2>2, JobsStay DEF DatabaseGrows, FreeWhenDecided
<1>7. CASE \E k \in Kinds : RollBackTransaction(k)
  BY <1>7, JobsStay, ReleaseStays DEF RollBackTransaction, DatabaseGrows
<1>8. ASSUME NEW k \in Kinds, LeaseExpires(k) \/ RetryFallsDue(k)
      PROVE  DatabaseGrows
  <2>1. PICK row : /\ row \in {[job[k] EXCEPT !.live = FALSE], [job[k] EXCEPT !.due = TRUE]}
                   /\ job' = [job EXCEPT ![k] = row]
    BY <1>8 DEF LeaseExpires, RetryFallsDue
  <2>2. /\ row.work = job[k].work /\ row.state = job[k].state
        /\ row.owner = job[k].owner /\ row.attempts = job[k].attempts
    BY <2>1 DEF JobsInv, JobsTypeOK, Jobs
  <2>3. UNCHANGED <<release, uploads>>
    BY <1>8 DEF LeaseExpires, RetryFallsDue
  <2> QED
    BY <2>1, <2>2, <2>3, RowGrows, ReleaseStays DEF DatabaseGrows, JobsInv
<1>9. CASE UNCHANGED jobsVars
  BY <1>9, JobsStay, ReleaseStays DEF jobsVars, DatabaseGrows
<1> QED
  BY <1>1, <1>2, <1>3, <1>4, <1>5, <1>6, <1>7, <1>8, <1>9 DEF JobsNext, JobsClock

-----------------------------------------------------------------------------
(***************************************************************************)
(* The inductive invariant of the pipeline.                                *)
(***************************************************************************)
InTransaction(w) == worker[w].step \in {"finalize", "seal"}

ProcessSteps == {"readRelease", "readDeclared", "gather", "bind", "promote", "assertLease",
                 "finalize", "bindResult"}
CleanupSteps == {"assertCleanup", "seal", "list", "delete"}

\* Where a worker holds the work that the job is bound to, and where it knows that the
\* release is sealed.
HoldsBound(w) ==
  \/ worker[w].step \in {"promote", "assertLease", "finalize", "bindResult"}
  \/ worker[w].step = "succeed" /\ worker[w].kind = PROCESS
KnowsSealed(w) ==
  \/ worker[w].step \in {"list", "delete"}
  \/ worker[w].step = "succeed" /\ worker[w].kind = CLEANUP

Complete(m) == \A key \in ReleaseKeys : object[key] = BodyOf(m, key)

QuarantineIsClean ==
  \A key \in QuarantineKeys : object[key] # Absent => <<key, object[key]>> \in abandoned

\* What a worker may rely on at each of its steps.
WorkerInOrder(w) ==
  /\ worker[w].step # "idle" => worker[w].version \in 1 .. MaxAttempts
  /\ worker[w].step \in ProcessSteps => worker[w].kind = PROCESS
  /\ worker[w].step \in CleanupSteps => worker[w].kind = CLEANUP
  /\ worker[w].step \in {"gather", "bind"} => worker[w].manifest \in Manifests
  /\ HoldsBound(w) => /\ worker[w].manifest \in Manifests
                      /\ worker[w].manifest = job[PROCESS].work
  /\ worker[w].step \in {"readRelease", "readDeclared", "bind"} => worker[w].done = {}
  /\ worker[w].step \in {"gather", "delete"} => worker[w].done \subseteq QuarantineKeys
  /\ worker[w].step = "promote" =>
       /\ worker[w].done \subseteq ReleaseKeys \ {ManifestKey}
       /\ Archive \in worker[w].done => FileKeys \subseteq worker[w].done
       /\ \A key \in worker[w].done : object[key] = BodyOf(worker[w].manifest, key)
  /\ worker[w].step \in {"assertLease", "finalize"} => Complete(worker[w].manifest)
  /\ InTransaction(w) => /\ held[worker[w].kind] = OwnerOf[w]
                         /\ Fenced(worker[w].kind, OwnerOf[w], worker[w].version)
  /\ KnowsSealed(w) => release.state = "FAILED"
  /\ worker[w].step = "succeed" /\ worker[w].kind = CLEANUP => QuarantineIsClean
  /\ worker[w].step = "finished" => job[worker[w].kind].state = "SUCCEEDED"

WorkersInOrder == \A w \in Workers : WorkerInOrder(w)

\* The row of a job is held in one transaction at a time, whatever the workers are called.
TransactionsDiffer ==
  \A v, w \in Workers :
    InTransaction(v) /\ InTransaction(w) /\ worker[v].kind = worker[w].kind => v = w

\* A PUT that may still be served writes what the job is bound to.
AbandonedInOrder ==
  \A put \in abandoned :
    put[1] \in ReleaseKeys =>
      job[PROCESS].work # NoManifest /\ put[2] = BodyOf(job[PROCESS].work, put[1])

BucketTyped ==
  /\ object = [key \in QuarantineKeys \cup ReleaseKeys |-> object[key]]
  /\ \A key \in QuarantineKeys \cup ReleaseKeys : object[key] \in Bodies(key) \cup {Absent}
  /\ abandoned \subseteq Puts

ReleaseIndInv ==
  /\ JobsInv
  /\ BucketTyped
  /\ FreeWhenDecided
  /\ ReleaseInv
  /\ WorkersInOrder
  /\ TransactionsDiffer
  /\ AbandonedInOrder

-----------------------------------------------------------------------------
(***************************************************************************)
(* What a step of the pipeline leaves alone.                               *)
(***************************************************************************)

\* Keys of the quarantine and of the release are different, and so are the archive's,
\* the manifest's and those of files.
LEMMA KeysDiffer ==
  /\ QuarantineKeys \cap ReleaseKeys = {}
  /\ Archive \notin FileKeys /\ ManifestKey \notin FileKeys /\ Archive # ManifestKey
  /\ Archive \in ReleaseKeys /\ ManifestKey \in ReleaseKeys /\ FileKeys \subseteq ReleaseKeys
  /\ Archive \notin QuarantineKeys /\ ManifestKey \notin QuarantineKeys
BY DEF QuarantineKeys, ReleaseKeys, FileKeys, Archive, ManifestKey

\* What finalizeRelease writes is of the type of its key.
LEMMA BodyIsTyped ==
  ASSUME NEW m \in Manifests, NEW key \in ReleaseKeys
  PROVE  BodyOf(m, key) \in Bodies(key)
<1>1. CASE key \in FileKeys
  <2>1. key[2] \in Paths /\ m.files \in [Paths -> Contents]
    BY <1>1 DEF FileKeys, Manifests, Declarations
  <2> QED
    BY <1>1, <2>1 DEF BodyOf, Bodies
<1>2. CASE key = Archive
  BY <1>2, KeysDiffer DEF BodyOf, Bodies, Manifests
<1>3. CASE key = ManifestKey
  BY <1>3, KeysDiffer DEF BodyOf, Bodies
<1> QED
  BY <1>1, <1>2, <1>3 DEF ReleaseKeys

\* The bucket keeps its types and what the bound work has put there, and a quarantine
\* that was cleaned after the release was sealed stays clean.
ReleaseObjectsStay ==
  \A key \in ReleaseKeys :
    job[PROCESS].work # NoManifest /\ object[key] = BodyOf(job[PROCESS].work, key)
      => object'[key] = object[key]
BucketGrows ==
  /\ BucketTyped'
  /\ OnlyBoundWorkIsPromoted'
  /\ AbandonedInOrder'
  /\ ReleaseObjectsStay
  /\ release.state = "FAILED" /\ QuarantineIsClean => QuarantineIsClean'

LEMMA BucketStays ==
  ASSUME ReleaseIndInv, WorkStays, UNCHANGED bucketVars
  PROVE  BucketGrows
<1>1. UNCHANGED <<object, abandoned>>
  BY DEF bucketVars
<1>2. BucketTyped'
  BY <1>1 DEF ReleaseIndInv, BucketTyped
<1>3. OnlyBoundWorkIsPromoted'
  BY <1>1 DEF ReleaseIndInv, ReleaseInv, OnlyBoundWorkIsPromoted, WorkStays
<1>4. AbandonedInOrder'
  BY <1>1 DEF ReleaseIndInv, AbandonedInOrder, WorkStays
<1>5. ReleaseObjectsStay
  BY <1>1 DEF ReleaseObjectsStay
<1>6. QuarantineIsClean => QuarantineIsClean'
  BY <1>1 DEF QuarantineIsClean
<1> QED
  BY <1>2, <1>3, <1>4, <1>5, <1>6 DEF BucketGrows

\* A worker that does nothing may rely on the same.
LEMMA OthersKeep ==
  ASSUME ReleaseIndInv, DatabaseGrows, BucketGrows, NEW v \in Workers,
         worker'[v] = worker[v],
         InTransaction(v) => held'[worker[v].kind] = held[worker[v].kind]
  PROVE  WorkerInOrder(v)'
<1>1. WorkerInOrder(v) /\ worker[v] \in WorkerStates
  BY DEF ReleaseIndInv, WorkersInOrder, ReleaseInv, ReleaseTypeOK
<1>2. worker[v].kind \in Kinds
  BY <1>1 DEF WorkerStates
<1>3. HoldsBound(v) => /\ job'[PROCESS].work = job[PROCESS].work
                       /\ job[PROCESS].work # NoManifest
  BY <1>1, NullAssumption DEF WorkerInOrder, DatabaseGrows, WorkStays
<1>4. HoldsBound(v)' => worker'[v].manifest \in Manifests /\ worker'[v].manifest = job'[PROCESS].work
  BY <1>1, <1>3 DEF WorkerInOrder, HoldsBound
<1>5. ASSUME worker[v].step = "promote", NEW key \in worker[v].done
      PROVE  object'[key] = BodyOf(worker[v].manifest, key)
  BY <1>1, <1>3, <1>5 DEF WorkerInOrder, HoldsBound, BucketGrows, ReleaseObjectsStay
<1>6. ASSUME worker[v].step \in {"assertLease", "finalize"}, NEW key \in ReleaseKeys
      PROVE  object'[key] = BodyOf(worker[v].manifest, key)
  BY <1>1, <1>3, <1>6 DEF WorkerInOrder, HoldsBound, BucketGrows, ReleaseObjectsStay, Complete
<1>7. InTransaction(v)' => /\ held'[worker[v].kind] = OwnerOf[v]
                           /\ Fenced(worker[v].kind, OwnerOf[v], worker[v].version)'
  <2>1. OwnerOf[v] # NoOwner
    BY OwnersAssumption, NullAssumption
  <2> QED
    BY <1>1, <1>2, <2>1 DEF WorkerInOrder, InTransaction, DatabaseGrows, HeldStay, Fenced
<1>8. KnowsSealed(v)' => release'.state = "FAILED" /\ release.state = "FAILED"
  BY <1>1 DEF WorkerInOrder, KnowsSealed, DatabaseGrows, DecisionStays
<1>9. worker[v].step = "succeed" /\ worker[v].kind = CLEANUP => QuarantineIsClean'
  BY <1>1 DEF WorkerInOrder, KnowsSealed, BucketGrows
<1>10. worker[v].step = "finished" => job'[worker[v].kind].state = "SUCCEEDED"
  BY <1>1, <1>2 DEF WorkerInOrder, DatabaseGrows, SuccessStays
<1> QED
  BY <1>1, <1>4, <1>5, <1>6, <1>7, <1>8, <1>9, <1>10
  DEF WorkerInOrder, Complete

\* Everything but what workers know.
LEMMA RestKeeps ==
  ASSUME ReleaseIndInv, [JobsNext]_jobsVars, DatabaseGrows, BucketGrows,
         started' \in 0 .. MaxUploads, worker' \in [Workers -> WorkerStates],
         WorkersInOrder', TransactionsDiffer',
         release'.state = "READY" /\ release.state # "READY" => Complete(release.manifest)',
         job'[CLEANUP].state = "SUCCEEDED" /\ job[CLEANUP].state # "SUCCEEDED"
           => QuarantineIsClean'
  PROVE  ReleaseIndInv'
<1>1. JobsInv'
  BY JobsNextInv DEF ReleaseIndInv
<1>2. ReleaseTypeOK'
  BY <1>1 DEF JobsInv, ReleaseTypeOK, BucketGrows, BucketTyped
<1>3. ReadyIsComplete'
  <2> SUFFICES ASSUME release'.state = "READY", NEW key \in ReleaseKeys
               PROVE  object'[key] = BodyOf(release'.manifest, key)
    BY DEF ReadyIsComplete
  <2>1. CASE release.state # "READY"
    BY <2>1 DEF Complete
  <2>2. CASE release.state = "READY"
    <3>1. /\ release'.manifest = release.manifest
          /\ job[PROCESS].work = release.manifest /\ release.manifest # NoManifest
          /\ object[key] = BodyOf(release.manifest, key)
      BY <2>2 DEF ReleaseIndInv, JobsInv, ReadyIsBoundWork, ReleaseInv, ReadyIsComplete,
                  DatabaseGrows, DecisionStays
    <3> QED
      BY <3>1 DEF BucketGrows, ReleaseObjectsStay
  <2> QED
    BY <2>1, <2>2
<1>4. SuccessAnswerIsTrue'
  BY DEF WorkersInOrder, WorkerInOrder, SuccessAnswerIsTrue
<1>5. CleanedButForAbandoned'
  <2>1. CASE job[CLEANUP].state = "SUCCEEDED"
    <3>1. release.state = "FAILED" /\ QuarantineIsClean
      BY <2>1 DEF ReleaseIndInv, JobsInv, JobsAgreeWithRelease, ReleaseInv,
                  CleanedButForAbandoned, QuarantineIsClean
    <3> QED
      BY <3>1 DEF BucketGrows, CleanedButForAbandoned, QuarantineIsClean
  <2>2. CASE job[CLEANUP].state # "SUCCEEDED"
    BY <2>2 DEF CleanedButForAbandoned, QuarantineIsClean
  <2> QED
    BY <2>1, <2>2
<1> QED
  BY <1>1, <1>2, <1>3, <1>4, <1>5 DEF ReleaseIndInv, ReleaseInv, BucketGrows, DatabaseGrows

\* A step of the database, the clock, control or the bucket.
LEMMA EnvironmentKeeps ==
  ASSUME ReleaseIndInv, [JobsNext]_jobsVars, BucketGrows,
         started' \in 0 .. MaxUploads, worker' = worker, held' = held,
         release'.state = "READY" => release.state = "READY",
         job'[CLEANUP].state = "SUCCEEDED" => job[CLEANUP].state = "SUCCEEDED"
  PROVE  ReleaseIndInv'
<1>1. DatabaseGrows
  BY DatabaseStep DEF ReleaseIndInv
<1>2. WorkersInOrder'
  BY <1>1, OthersKeep DEF WorkersInOrder
<1>3. TransactionsDiffer'
  BY DEF ReleaseIndInv, TransactionsDiffer, InTransaction
<1>4. worker' \in [Workers -> WorkerStates]
  BY DEF ReleaseIndInv, ReleaseInv, ReleaseTypeOK
<1> QED
  BY <1>1, <1>2, <1>3, <1>4, RestKeeps

\* Only w moves.
Moves(w) ==
  /\ worker' \in [Workers -> WorkerStates]
  /\ \A v \in Workers \ {w} : worker'[v] = worker[v]

\* A step of a worker.  Transactions of others keep the rows they hold, and w enters none
\* of a kind that another is in.
LEMMA StepKeeps ==
  ASSUME ReleaseIndInv, [JobsNext]_jobsVars, BucketGrows, started' \in 0 .. MaxUploads,
         NEW w \in Workers, Moves(w), WorkerInOrder(w)',
         \A v \in Workers \ {w} :
           InTransaction(v) =>
             /\ held'[worker[v].kind] = held[worker[v].kind]
             /\ InTransaction(w)' => worker'[w].kind # worker[v].kind,
         release'.state = "READY" /\ release.state # "READY" => Complete(release.manifest)',
         job'[CLEANUP].state = "SUCCEEDED" /\ job[CLEANUP].state # "SUCCEEDED"
           => QuarantineIsClean'
  PROVE  ReleaseIndInv'
<1>1. DatabaseGrows
  BY DatabaseStep DEF ReleaseIndInv
<1>2. \A v \in Workers \ {w} : WorkerInOrder(v)'
  BY <1>1, OthersKeep DEF Moves
<1>3. WorkersInOrder'
  BY <1>2 DEF WorkersInOrder
<1>4. TransactionsDiffer'
  BY DEF ReleaseIndInv, TransactionsDiffer, InTransaction, Moves
<1> QED
  BY <1>1, <1>3, <1>4, RestKeeps DEF Moves

\* A step of a worker that reads, or ends outside of a transaction.
LEMMA QuietStepKeeps ==
  ASSUME ReleaseIndInv, NEW w \in Workers, Moves(w), WorkerInOrder(w)', ~InTransaction(w)',
         UNCHANGED <<jobsVars, bucketVars, started>>
  PROVE  ReleaseIndInv'
<1>1. UNCHANGED <<release, declared, job, uploads, held, object, abandoned, started>>
  BY DEF jobsVars, bucketVars
<1>2. BucketGrows
  BY <1>1, BucketStays DEF WorkStays
<1>3. started' \in 0 .. MaxUploads
  BY <1>1 DEF ReleaseIndInv, ReleaseInv, ReleaseTypeOK
<1> QED
  BY <1>1, <1>2, <1>3, StepKeeps

-----------------------------------------------------------------------------
(***************************************************************************)
(* Every step of the pipeline is one of the database, or none.             *)
(***************************************************************************)
\* What is known of a worker wherever it stands.
Known(w) ==
  /\ worker \in [Workers -> WorkerStates] /\ worker[w] \in WorkerStates
  /\ worker[w].kind \in Kinds /\ worker[w].from \in Finalizable
  /\ worker[w].manifest \in Manifests \cup {NoManifest}
  /\ OwnerOf[w] \in Owners /\ OwnerOf[w] # NoOwner

LEMMA WorkerKnown ==
  ASSUME ReleaseIndInv, NEW w \in Workers
  PROVE  Known(w) /\ WorkerInOrder(w)
BY OwnersAssumption, NullAssumption
DEF ReleaseIndInv, WorkersInOrder, ReleaseInv, ReleaseTypeOK, WorkerStates, Known

LEMMA DropIsJobs ==
  ASSUME ReleaseIndInv, NEW w \in Workers, DropTransaction(w)
  PROVE  [JobsNext]_jobsVars
<1>1. CASE InTransaction(w)
  <2>1. held[worker[w].kind] # NoOwner /\ worker[w].kind \in Kinds
    BY <1>1, WorkerKnown DEF Known, WorkerInOrder
  <2> QED
    BY <1>1, <2>1 DEF DropTransaction, InTransaction, JobsNext
<1>2. CASE ~InTransaction(w)
  BY <1>2 DEF DropTransaction, InTransaction
<1> QED
  BY <1>1, <1>2

LEMMA WorkerIsJobs ==
  ASSUME ReleaseIndInv, NEW w \in Workers, WorkerStep(w)
  PROVE  [JobsNext]_jobsVars
<1>1. Known(w) /\ WorkerInOrder(w)
  BY WorkerKnown
<1>2. worker[w].step # "idle" => worker[w].version \in 1 .. MaxAttempts
  BY <1>1 DEF WorkerInOrder
<1>3. CASE UNCHANGED jobsVars
  BY <1>3
<1>4. CASE BindWorkIdentity(w) \/ BindResult(w)
  <2>1. worker[w].manifest \in Manifests
    BY <1>1, <1>4 DEF Known, WorkerInOrder, HoldsBound, BindWorkIdentity, BindResult
  <2> QED
    BY <1>1, <1>2, <1>4, <2>1 DEF Known, BindWorkIdentity, BindResult, JobsNext
<1>5. CASE BeginFinalTransaction(w) \/ AssertCleanup(w)
  BY <1>1, <1>2, <1>5, TwoKinds DEF Known, BeginFinalTransaction, AssertCleanup, JobsNext, Call
<1>6. CASE FinalizeRelease(w)
  <2>1. /\ worker[w].kind = PROCESS /\ held[PROCESS] # NoOwner
        /\ worker[w].manifest = job[PROCESS].work /\ job[PROCESS].work # NoManifest
    BY <1>1, <1>6, NullAssumption
    DEF Known, WorkerInOrder, HoldsBound, InTransaction, ProcessSteps, FinalizeRelease
  <2> QED
    BY <1>1, <1>6, <2>1 DEF Known, FinalizeRelease, FinalizeBound, JobsNext
<1>7. CASE SealRelease(w)
  <2>1. worker[w].kind = CLEANUP /\ held[CLEANUP] # NoOwner
    BY <1>1, <1>7 DEF Known, WorkerInOrder, InTransaction, CleanupSteps, SealRelease
  <2> QED
    BY <1>7, <2>1 DEF SealRelease, JobsNext
<1>8. CASE Report(w)
  BY <1>1, <1>2, <1>8 DEF Known, Report, JobsNext, Call
<1> QED
  BY <1>3, <1>4, <1>5, <1>6, <1>7, <1>8
  DEF WorkerStep, Checkpoint, ReadRelease, ReadDeclared, Gather, Delete, Promote, AbandonPut,
      List, ReportAgain

LEMMA StepIsJobs ==
  ASSUME ReleaseIndInv, [ReleaseNext]_releaseVars
  PROVE  [JobsNext]_jobsVars
<1>1. CASE ControlStep
  BY <1>1 DEF ControlStep, JobsNext, Control
<1>2. CASE Upload
  BY <1>2 DEF Upload, StartUpload, FinishUpload, AbandonUpload, JobsNext, Control
<1>3. CASE \E put \in abandoned : ServeAbandoned(put)
  BY <1>3 DEF ServeAbandoned
<1>4. ASSUME NEW w \in Workers, ClaimStep(w)
      PROVE  [JobsNext]_jobsVars
  BY <1>4, WorkerKnown DEF Known, ClaimStep, ClaimDue, JobsNext
<1>5. ASSUME NEW w \in Workers, WorkerStep(w)
      PROVE  [JobsNext]_jobsVars
  BY <1>5, WorkerIsJobs
<1>6. ASSUME NEW w \in Workers, Throw(w) \/ Crash(w)
      PROVE  [JobsNext]_jobsVars
  BY <1>6, DropIsJobs DEF Throw, Crash
<1>7. ASSUME NEW w \in Workers, HandBack(w)
      PROVE  [JobsNext]_jobsVars
  BY <1>7, WorkerKnown DEF Known, HandBack, WorkerInOrder, JobsNext, Call
<1>8. CASE JobsClock
  BY <1>8 DEF JobsNext
<1>9. CASE UNCHANGED releaseVars
  BY <1>9 DEF releaseVars
<1> QED
  BY <1>1, <1>2, <1>3, <1>4, <1>5, <1>6, <1>7, <1>8, <1>9 DEF ReleaseNext

-----------------------------------------------------------------------------
(***************************************************************************)
(* The steps, one by one.                                                  *)
(***************************************************************************)
LEMMA IdleTyped == /\ Idle \in WorkerStates /\ Idle.step = "idle" /\ Idle.manifest = NoManifest
                   /\ Idle.done = {}
BY TwoKinds, AttemptsAssumption, RoundsAssumption
DEF Idle, WorkerStates, Steps, Resting, Finalizable

\* A row of worker with another step, kind and version.
LEMMA RowTyped ==
  ASSUME NEW row \in WorkerStates, NEW k \in Kinds, NEW v \in 0 .. MaxAttempts,
         NEW step \in Steps
  PROVE  [row EXCEPT !.kind = k, !.version = v, !.step = step] \in WorkerStates
BY DEF WorkerStates

\* Nothing is done, no one has begun.
LEMMA ReleaseInitInOrder == ReleaseInit => ReleaseIndInv
<1> SUFFICES ASSUME ReleaseInit PROVE ReleaseIndInv
  OBVIOUS
<1>1. JobsInv
  BY JobsInitInv DEF ReleaseInit
<1>2. worker \in [Workers -> WorkerStates] /\ \A w \in Workers : worker[w] = Idle
  BY IdleTyped DEF ReleaseInit
<1>3. /\ \A key \in QuarantineKeys \cup ReleaseKeys : object[key] = Absent
      /\ abandoned = {} /\ started \in 0 .. MaxUploads
  BY RoundsAssumption DEF ReleaseInit
<1>4. release.state = "PENDING_UPLOAD" /\ uploads = {} /\ job[CLEANUP].state = "ABSENT"
  BY TwoKinds DEF ReleaseInit, JobsInit
<1>5. ReleaseTypeOK
  BY <1>1, <1>2, <1>3 DEF JobsInv, ReleaseTypeOK
<1>6. ReleaseInv
  BY <1>2, <1>3, <1>4, <1>5, IdleTyped
  DEF ReleaseInv, ReadyIsComplete, OnlyBoundWorkIsPromoted, SuccessAnswerIsTrue,
      CleanedButForAbandoned
<1>7. WorkersInOrder /\ TransactionsDiffer
  BY <1>2, IdleTyped DEF WorkersInOrder, WorkerInOrder, TransactionsDiffer, InTransaction,
     HoldsBound, KnowsSealed, ProcessSteps, CleanupSteps
<1>8. FreeWhenDecided /\ AbandonedInOrder
  BY <1>3, <1>4 DEF FreeWhenDecided, AbandonedInOrder
<1>9. BucketTyped
  BY <1>3 DEF ReleaseInit, BucketTyped
<1> QED
  BY <1>1, <1>6, <1>7, <1>8, <1>9 DEF ReleaseIndInv

\* Control and the clock.
LEMMA ControlKeeps ==
  ASSUME ReleaseIndInv, [JobsNext]_jobsVars, ControlStep
  PROVE  ReleaseIndInv'
<1>1. UNCHANGED <<bucketVars, started, worker>> /\ held' = held
  BY DEF ControlStep, AdvanceRelease, Redeclare, Enqueue
<1>2. BucketGrows
  BY <1>1, DatabaseStep, BucketStays DEF ReleaseIndInv, DatabaseGrows
<1>3. started' \in 0 .. MaxUploads
  BY <1>1 DEF ReleaseIndInv, ReleaseInv, ReleaseTypeOK
<1>4. release'.state = "READY" => release.state = "READY"
  BY DEF ControlStep, AdvanceRelease, Redeclare, Enqueue, Uploading, ReleaseIndInv, JobsInv,
         JobsTypeOK, ReleaseRows
<1>5. job'[CLEANUP].state = "SUCCEEDED" => job[CLEANUP].state = "SUCCEEDED"
  <2>1. ASSUME NEW k \in Kinds, Enqueue(k)
        PROVE  job'[CLEANUP].state \in {job[CLEANUP].state, "PENDING"}
    BY <2>1, TwoKinds DEF Enqueue, ReleaseIndInv, JobsInv, JobsTypeOK, Jobs
  <2> QED
    BY <2>1 DEF ControlStep, AdvanceRelease, Redeclare
<1> QED
  BY <1>1, <1>2, <1>3, <1>4, <1>5, EnvironmentKeeps

LEMMA ClockKeeps ==
  ASSUME ReleaseIndInv, [JobsNext]_jobsVars, JobsClock, UNCHANGED <<bucketVars, started, worker>>
  PROVE  ReleaseIndInv'
<1>1. BucketGrows
  BY DatabaseStep, BucketStays DEF ReleaseIndInv, DatabaseGrows
<1>2. started' \in 0 .. MaxUploads
  BY DEF ReleaseIndInv, ReleaseInv, ReleaseTypeOK
<1>3. release' = release /\ held' = held
  BY DEF JobsClock, LeaseExpires, RetryFallsDue
<1>4. job'[CLEANUP].state = job[CLEANUP].state
  BY TwoKinds DEF JobsClock, LeaseExpires, RetryFallsDue, ReleaseIndInv, JobsInv, JobsTypeOK, Jobs
<1> QED
  BY <1>1, <1>2, <1>3, <1>4, EnvironmentKeeps

\* A PUT under a key, of a body that belongs there.
LEMMA CreateKeeps ==
  ASSUME ReleaseIndInv, NEW key \in QuarantineKeys \cup ReleaseKeys, NEW body \in Bodies(key),
         Create(key, body), job' = job,
         key \in ReleaseKeys =>
           job[PROCESS].work # NoManifest /\ body = BodyOf(job[PROCESS].work, key),
         key \in QuarantineKeys /\ release.state = "FAILED" =>
           object[key] # Absent \/ <<key, body>> \in abandoned
  PROVE  BucketGrows /\ (key \in ReleaseKeys => object'[key] = body)
<1> DEFINE all == QuarantineKeys \cup ReleaseKeys
<1>0. BucketTyped
  BY DEF ReleaseIndInv
<1>1. \A k \in all : k # key => object'[k] = object[k]
  BY <1>0 DEF Create, BucketTyped
<1>2. object[key] # Absent => object'[key] = object[key]
  BY DEF Create
<1>3. object[key] = Absent => object'[key] = body
  BY <1>0 DEF Create, BucketTyped
<1>4. object' = [k \in all |-> object'[k]]
  BY <1>0 DEF Create, BucketTyped
<1>5. /\ abandoned' \subseteq abandoned
      /\ \A put \in abandoned : put[1] \in QuarantineKeys => put \in abandoned'
  BY KeysDiffer DEF Create
<1>6. BucketTyped'
  BY <1>0, <1>1, <1>2, <1>3, <1>4, <1>5 DEF BucketTyped
<1>7. key \in ReleaseKeys => object'[key] = body
  BY <1>2, <1>3 DEF ReleaseIndInv, ReleaseInv, OnlyBoundWorkIsPromoted
<1>8. OnlyBoundWorkIsPromoted'
  BY <1>1, <1>7 DEF ReleaseIndInv, ReleaseInv, OnlyBoundWorkIsPromoted
<1>9. AbandonedInOrder'
  BY <1>5 DEF ReleaseIndInv, AbandonedInOrder
<1>10. ReleaseObjectsStay
  BY <1>1, <1>7 DEF ReleaseObjectsStay
<1>11. release.state = "FAILED" /\ QuarantineIsClean => QuarantineIsClean'
  BY <1>1, <1>2, <1>3, <1>5 DEF QuarantineIsClean
<1> QED
  BY <1>6, <1>7, <1>8, <1>9, <1>10, <1>11 DEF BucketGrows

\* A PUT is a key and a body of its type.
LEMMA PutsTyped ==
  /\ \A key \in QuarantineKeys \cup ReleaseKeys : \A body \in Bodies(key) : <<key, body>> \in Puts
  /\ \A put \in Puts : /\ put[1] \in QuarantineKeys \cup ReleaseKeys
                       /\ put[2] \in Bodies(put[1]) /\ put = <<put[1], put[2]>>
BY DEF Puts

\* Uploads start, end, and are left behind.
LEMMA UploadKeeps ==
  ASSUME ReleaseIndInv, [JobsNext]_jobsVars, Upload
  PROVE  ReleaseIndInv'
<1>1. started \in 0 .. MaxUploads
  BY DEF ReleaseIndInv, ReleaseInv, ReleaseTypeOK
<1>2. DatabaseGrows
  BY DatabaseStep DEF ReleaseIndInv
<1>3. ASSUME NEW path \in Paths, StartUpload(path)
      PROVE  ReleaseIndInv'
  <2>1. UNCHANGED <<bucketVars, worker, release, job, held>> /\ started' \in 0 .. MaxUploads
    BY <1>1, <1>3, RoundsAssumption DEF StartUpload, BeginUpload
  <2> QED
    BY <1>2, <2>1, BucketStays, EnvironmentKeeps DEF DatabaseGrows
<1>4. ASSUME NEW u \in uploads
      PROVE  /\ <<"quarantine", u.path>> \in QuarantineKeys
             /\ u.content \in Bodies(<<"quarantine", u.path>>)
             /\ release.state # "FAILED"
  <2>1. u.path \in Paths /\ u.content \in Contents
    BY <1>4 DEF ReleaseIndInv, JobsInv, JobsTypeOK, UploadRequests
  <2>2. release.state # "FAILED"
    BY <1>4 DEF ReleaseIndInv, FreeWhenDecided, Uploading
  <2> QED
    BY <2>1, <2>2 DEF QuarantineKeys, Bodies
<1>5. ASSUME NEW u \in uploads, FinishUpload(u)
      PROVE  ReleaseIndInv'
  <2>1. UNCHANGED <<started, worker, release, job, held>>
        /\ Create(<<"quarantine", u.path>>, u.content)
    BY <1>5 DEF FinishUpload, EndUpload
  <2>2. BucketGrows
    <3>1. <<"quarantine", u.path>> \notin ReleaseKeys
      BY <1>4, KeysDiffer
    <3> QED
      BY <1>4, <2>1, <3>1, CreateKeeps
  <2> QED
    BY <1>1, <2>1, <2>2, EnvironmentKeeps
<1>6. ASSUME NEW u \in uploads, AbandonUpload(u)
      PROVE  ReleaseIndInv'
  <2> DEFINE put == <<<<"quarantine", u.path>>, u.content>>
  <2>1. UNCHANGED <<object, started, worker, release, job, held>>
        /\ abandoned' = abandoned \cup {put}
    BY <1>6 DEF AbandonUpload, EndUpload
  <2>2. put \in Puts /\ put[1] \notin ReleaseKeys
    BY <1>4, PutsTyped, KeysDiffer
  <2> HIDE DEF put
  <2>3. BucketTyped'
    BY <2>1, <2>2 DEF BucketTyped, ReleaseIndInv
  <2>4. OnlyBoundWorkIsPromoted' /\ ReleaseObjectsStay
    BY <2>1 DEF ReleaseIndInv, ReleaseInv, OnlyBoundWorkIsPromoted, ReleaseObjectsStay
  <2>5. AbandonedInOrder'
    BY <2>1, <2>2 DEF ReleaseIndInv, AbandonedInOrder
  <2>6. QuarantineIsClean => QuarantineIsClean'
    BY <2>1 DEF QuarantineIsClean
  <2> QED
    BY <1>1, <2>1, <2>3, <2>4, <2>5, <2>6, EnvironmentKeeps DEF BucketGrows
<1> QED
  BY <1>3, <1>5, <1>6 DEF Upload

\* The bucket serves what nobody waits for.
LEMMA ServeKeeps ==
  ASSUME ReleaseIndInv, [JobsNext]_jobsVars, NEW put \in abandoned, ServeAbandoned(put)
  PROVE  ReleaseIndInv'
<1>1. UNCHANGED <<started, worker, release, job, held>> /\ Create(put[1], put[2])
  BY DEF ServeAbandoned, jobsVars
<1>2. /\ put[1] \in QuarantineKeys \cup ReleaseKeys /\ put[2] \in Bodies(put[1])
      /\ <<put[1], put[2]>> \in abandoned
  BY PutsTyped DEF ReleaseIndInv, BucketTyped
<1>3. BucketGrows
  BY <1>1, <1>2, CreateKeeps DEF ReleaseIndInv, AbandonedInOrder
<1>4. started' \in 0 .. MaxUploads
  BY <1>1 DEF ReleaseIndInv, ReleaseInv, ReleaseTypeOK
<1> QED
  BY <1>1, <1>3, <1>4, EnvironmentKeeps

\* A claim begins the work of w, if it leased something, and ends that of nobody who is in
\* a transaction.
LEMMA ClaimKeeps ==
  ASSUME ReleaseIndInv, [JobsNext]_jobsVars, NEW w \in Workers,
         NEW swept \in SUBSET Kinds, NEW claimed \in SUBSET Kinds,
         ClaimDue(w, swept, claimed)
  PROVE  ReleaseIndInv'
<1>1. /\ Claim(OwnerOf[w], swept, claimed) /\ UNCHANGED <<bucketVars, started, held>>
      /\ worker[w].step \in Resting
  BY DEF ClaimDue, Claim
<1>2. BucketGrows
  BY <1>1, DatabaseStep, BucketStays DEF ReleaseIndInv, DatabaseGrows
<1>3. started' \in 0 .. MaxUploads
  BY <1>1 DEF ReleaseIndInv, ReleaseInv, ReleaseTypeOK
<1>4. release'.state = "READY" => release.state = "READY"
  BY <1>1 DEF Claim, FailRelease, ReleaseIndInv, JobsInv, JobsTypeOK, ReleaseRows
<1>5. /\ \A k \in Kinds : job'[k] =
           IF k \in swept THEN End(k, IF Committed(k) THEN "SUCCEEDED" ELSE "FAILED")
           ELSE IF k \in claimed THEN Leased(k, OwnerOf[w]) ELSE job[k]
      /\ job \in [Kinds -> Jobs]
  BY <1>1 DEF Claim, ReleaseIndInv, JobsInv, JobsTypeOK
<1>6. job'[CLEANUP].state = "SUCCEEDED" => job[CLEANUP].state = "SUCCEEDED"
  BY <1>5, TwoKinds DEF End, Leased, Jobs, Committed
<1>7. CASE claimed = {}
  BY <1>1, <1>2, <1>3, <1>4, <1>6, <1>7, EnvironmentKeeps DEF ClaimDue
<1>8. CASE claimed # {}
  <2> DEFINE k == CHOOSE k \in claimed : TRUE
  <2>1. k \in claimed /\ k \in Kinds
    BY <1>8
  <2> HIDE DEF k
  <2>2. job'[k].attempts \in 1 .. MaxAttempts
    <3>1. job[k].attempts < MaxAttempts /\ job[k].attempts \in Nat /\ k \notin swept
      BY <1>1, <1>5, <2>1, AttemptsAssumption DEF Claim, Claimable, Sweepable, Jobs
    <3>2. job'[k].attempts = job[k].attempts + 1
      BY <1>5, <2>1, <3>1 DEF Leased, Jobs
    <3> QED
      BY <3>1, <3>2, AttemptsAssumption
  <2>3. worker' = [worker EXCEPT ![w] =
          [Idle EXCEPT !.kind = k, !.version = job'[k].attempts,
                       !.step = IF k = PROCESS THEN "readRelease" ELSE "assertCleanup"]]
    BY <1>8 DEF ClaimDue, k
  <2> DEFINE row == [Idle EXCEPT !.kind = k, !.version = job'[k].attempts,
                       !.step = IF k = PROCESS THEN "readRelease" ELSE "assertCleanup"]
  <2>4. row \in WorkerStates
    <3>1. job'[k].attempts \in 0 .. MaxAttempts
      BY <2>2, AttemptsAssumption
    <3>2. \A step \in {"readRelease", "assertCleanup"} : step \in Steps
      BY DEF Steps, Checkpointed
    <3> QED
      BY <2>1, <3>1, <3>2, IdleTyped, RowTyped
  <2>5. /\ row.kind = k /\ row.version = job'[k].attempts /\ row.done = {}
        /\ row.step = IF k = PROCESS THEN "readRelease" ELSE "assertCleanup"
    BY IdleTyped DEF WorkerStates
  <2> HIDE DEF row
  <2>6. Moves(w) /\ worker'[w] = row
    BY <2>3, <2>4, WorkerKnown DEF row, Moves, Known
  <2>7. WorkerInOrder(w)' /\ ~InTransaction(w)'
    BY <2>1, <2>2, <2>5, <2>6, TwoKinds
    DEF WorkerInOrder, InTransaction, HoldsBound, KnowsSealed, ProcessSteps, CleanupSteps
  <2> QED
    BY <1>1, <1>2, <1>3, <1>4, <1>6, <2>6, <2>7, StepKeeps
<1> QED
  BY <1>7, <1>8

-----------------------------------------------------------------------------
(***************************************************************************)
(* The steps of a worker.                                                  *)
(***************************************************************************)
\* What a worker is known by is kept when it goes on, and when it leaves.
Same(w) == /\ worker'[w].kind = worker[w].kind /\ worker'[w].version = worker[w].version

LEMMA BecomeMoves ==
  ASSUME ReleaseIndInv, NEW w \in Workers, NEW step \in Steps, Become(w, step)
  PROVE  /\ Moves(w) /\ Same(w) /\ worker'[w].step = step
         /\ worker'[w].manifest = worker[w].manifest /\ worker'[w].done = worker[w].done
<1>1. worker \in [Workers -> WorkerStates] /\ worker[w] \in WorkerStates
  BY WorkerKnown DEF Known
<1> DEFINE row == [worker[w] EXCEPT !.step = step, !.checked = FALSE]
<1>2. worker' = [worker EXCEPT ![w] = row]
  BY <1>1 DEF Become
<1>3. /\ row \in WorkerStates /\ row.step = step /\ row.kind = worker[w].kind
      /\ row.version = worker[w].version /\ row.manifest = worker[w].manifest
      /\ row.done = worker[w].done
  BY <1>1 DEF WorkerStates
<1> HIDE DEF row
<1> QED
  BY <1>1, <1>2, <1>3 DEF Moves, Same

LEMMA LeaveMoves ==
  ASSUME ReleaseIndInv, NEW w \in Workers, NEW step \in Steps, Leave(w, step)
  PROVE  Moves(w) /\ Same(w) /\ worker'[w].step = step
<1>1. worker \in [Workers -> WorkerStates] /\ worker[w] \in WorkerStates
  BY WorkerKnown DEF Known
<1> DEFINE row == [Idle EXCEPT !.step = step, !.kind = worker[w].kind,
                              !.version = worker[w].version]
<1>2. worker' = [worker EXCEPT ![w] = row]
  BY DEF Leave
<1>3. /\ row \in WorkerStates /\ row.step = step /\ row.kind = worker[w].kind
      /\ row.version = worker[w].version
  BY <1>1, IdleTyped DEF WorkerStates
<1> HIDE DEF row
<1> QED
  BY <1>1, <1>2, <1>3 DEF Moves, Same

\* A worker that has left relies on nothing but its lease version.
LEMMA LeftInOrder ==
  ASSUME ReleaseIndInv, NEW w \in Workers, Same(w), worker[w].step # "idle",
         \/ worker'[w].step = "failed"
         \/ worker'[w].step = "finished" /\ job'[worker[w].kind].state = "SUCCEEDED"
  PROVE  WorkerInOrder(w)' /\ ~InTransaction(w)'
<1>1. worker[w].version \in 1 .. MaxAttempts
  BY WorkerKnown DEF WorkerInOrder
<1> QED
  BY <1>1 DEF Same, WorkerInOrder, InTransaction, HoldsBound, KnowsSealed, ProcessSteps,
              CleanupSteps

\* So is one that waits for a job.
LEMMA IdleMoves ==
  ASSUME ReleaseIndInv, NEW w \in Workers, worker' = [worker EXCEPT ![w] = Idle]
  PROVE  Moves(w) /\ worker'[w].step = "idle" /\ WorkerInOrder(w)' /\ ~InTransaction(w)'
<1>1. Moves(w) /\ worker'[w] = Idle
  BY IdleTyped, WorkerKnown DEF Known, Moves
<1> QED
  BY <1>1, IdleTyped DEF WorkerInOrder, InTransaction, HoldsBound, KnowsSealed, ProcessSteps,
                         CleanupSteps

LEMMA CheckpointKeeps ==
  ASSUME ReleaseIndInv, NEW w \in Workers, Checkpoint(w)
  PROVE  ReleaseIndInv'
<1>1. Known(w) /\ WorkerInOrder(w)
  BY WorkerKnown
<1> DEFINE row == [worker[w] EXCEPT !.checked = TRUE]
<1>2. worker' = [worker EXCEPT ![w] = row] /\ UNCHANGED <<jobsVars, bucketVars, started>>
      /\ ~InTransaction(w)
  BY <1>1 DEF Known, Checkpoint, InTransaction, Checkpointed
<1>3. /\ row \in WorkerStates /\ row.step = worker[w].step /\ row.kind = worker[w].kind
      /\ row.version = worker[w].version /\ row.manifest = worker[w].manifest
      /\ row.done = worker[w].done
  BY <1>1 DEF Known, WorkerStates
<1> HIDE DEF row
<1>4. Moves(w) /\ worker'[w] = row
  BY <1>1, <1>2, <1>3 DEF Known, Moves
<1>5. UNCHANGED <<release, job, held, object, abandoned>>
  BY <1>2 DEF jobsVars, bucketVars
<1>6. ~InTransaction(w)'
  BY <1>2, <1>3, <1>4 DEF InTransaction
<1>7. WorkerInOrder(w)'
  BY <1>1, <1>3, <1>4, <1>5, <1>6
  DEF WorkerInOrder, HoldsBound, KnowsSealed, Complete, QuarantineIsClean
<1> QED
  BY <1>2, <1>4, <1>6, <1>7, QuietStepKeeps

\* A READY release is the bound work, so its manifest is what the worker is to report.
LEMMA ReadReleaseKeeps ==
  ASSUME ReleaseIndInv, NEW w \in Workers, ReadRelease(w)
  PROVE  ReleaseIndInv'
<1>1. Known(w) /\ WorkerInOrder(w)
  BY WorkerKnown
<1>2. /\ UNCHANGED <<jobsVars, bucketVars, started>> /\ job' = job
      /\ worker[w].step = "readRelease" /\ worker[w].kind = PROCESS /\ worker[w].done = {}
      /\ worker[w].version \in 1 .. MaxAttempts
  BY <1>1 DEF ReadRelease, jobsVars, WorkerInOrder, ProcessSteps
<1>3. CASE /\ release.state = "READY"
           /\ worker' = [worker EXCEPT ![w].step = "bindResult", ![w].checked = FALSE,
                                       ![w].manifest = release.manifest]
  <2> DEFINE row == [worker[w] EXCEPT !.step = "bindResult", !.checked = FALSE,
                                      !.manifest = release.manifest]
  <2>1. release.manifest \in Manifests /\ job[PROCESS].work = release.manifest
    BY <1>3 DEF ReleaseIndInv, JobsInv, JobsTypeOK, ReleaseRows, JobsConsistent,
                ReadyIsBoundWork
  <2>2. worker' = [worker EXCEPT ![w] = row]
    BY <1>1, <1>3 DEF Known
  <2>3. /\ row \in WorkerStates /\ row.step = "bindResult" /\ row.kind = PROCESS
        /\ row.version = worker[w].version /\ row.manifest = release.manifest
    BY <1>1, <1>2, <2>1 DEF Known, WorkerStates, Steps
  <2> HIDE DEF row
  <2>4. Moves(w) /\ worker'[w] = row
    BY <1>1, <2>2, <2>3 DEF Known, Moves
  <2>5. WorkerInOrder(w)' /\ ~InTransaction(w)'
    BY <1>2, <2>1, <2>3, <2>4
    DEF WorkerInOrder, InTransaction, HoldsBound, KnowsSealed, ProcessSteps, CleanupSteps
  <2> QED
    BY <1>2, <2>4, <2>5, QuietStepKeeps
<1>4. CASE /\ release.state \in Finalizable
           /\ worker' = [worker EXCEPT ![w].step = "readDeclared", ![w].checked = FALSE,
                                       ![w].from = release.state]
  <2> DEFINE row == [worker[w] EXCEPT !.step = "readDeclared", !.checked = FALSE,
                                      !.from = release.state]
  <2>1. worker' = [worker EXCEPT ![w] = row]
    BY <1>1, <1>4 DEF Known
  <2>2. /\ row \in WorkerStates /\ row.step = "readDeclared" /\ row.kind = PROCESS
        /\ row.version = worker[w].version /\ row.done = {}
    BY <1>1, <1>2, <1>4 DEF Known, WorkerStates, Steps
  <2> HIDE DEF row
  <2>3. Moves(w) /\ worker'[w] = row
    BY <1>1, <2>1, <2>2 DEF Known, Moves
  <2>4. WorkerInOrder(w)' /\ ~InTransaction(w)'
    BY <1>2, <2>2, <2>3
    DEF WorkerInOrder, InTransaction, HoldsBound, KnowsSealed, ProcessSteps, CleanupSteps
  <2> QED
    BY <1>2, <2>3, <2>4, QuietStepKeeps
<1> QED
  BY <1>3, <1>4 DEF ReadRelease

LEMMA ReadDeclaredKeeps ==
  ASSUME ReleaseIndInv, NEW w \in Workers, NEW path \in Paths, ReadDeclared(w, path)
  PROVE  ReleaseIndInv'
<1>1. Known(w) /\ WorkerInOrder(w)
  BY WorkerKnown
<1>2. /\ UNCHANGED <<jobsVars, bucketVars, started>>
      /\ worker[w].step = "readDeclared" /\ worker[w].kind = PROCESS /\ worker[w].done = {}
      /\ worker[w].version \in 1 .. MaxAttempts
  BY <1>1 DEF ReadDeclared, WorkerInOrder, ProcessSteps
<1> DEFINE m == [files |-> declared, default |-> path]
           row == [worker[w] EXCEPT !.step = "gather", !.manifest = m]
<1>3. m \in Manifests
  BY DEF ReleaseIndInv, JobsInv, JobsTypeOK, Manifests
<1>4. worker' = [worker EXCEPT ![w] = row]
  BY <1>1 DEF Known, ReadDeclared
<1> HIDE DEF m
<1>5. /\ row \in WorkerStates /\ row.step = "gather" /\ row.kind = PROCESS
      /\ row.version = worker[w].version /\ row.done = {} /\ row.manifest = m
  BY <1>1, <1>2, <1>3 DEF Known, WorkerStates, Steps, Checkpointed
<1> HIDE DEF row
<1>6. Moves(w) /\ worker'[w] = row
  BY <1>1, <1>4, <1>5 DEF Known, Moves
<1>7. WorkerInOrder(w)' /\ ~InTransaction(w)'
  BY <1>2, <1>3, <1>5, <1>6
  DEF WorkerInOrder, InTransaction, HoldsBound, KnowsSealed, ProcessSteps, CleanupSteps
<1> QED
  BY <1>2, <1>6, <1>7, QuietStepKeeps

LEMMA GatherKeeps ==
  ASSUME ReleaseIndInv, NEW w \in Workers, NEW key \in QuarantineKeys, Gather(w, key)
  PROVE  ReleaseIndInv'
<1>1. Known(w) /\ WorkerInOrder(w)
  BY WorkerKnown
<1>2. /\ UNCHANGED <<jobsVars, bucketVars, started>>
      /\ worker[w].step = "gather" /\ worker[w].kind = PROCESS
      /\ worker[w].done \subseteq QuarantineKeys /\ worker[w].manifest \in Manifests
      /\ worker[w].version \in 1 .. MaxAttempts
  BY <1>1 DEF Gather, WorkerInOrder, ProcessSteps
<1> DEFINE all == worker[w].done \cup {key} = QuarantineKeys
           done == IF all THEN {} ELSE worker[w].done \cup {key}
           step == IF all THEN "bind" ELSE "gather"
           row == [worker[w] EXCEPT !.checked = FALSE, !.done = done, !.step = step]
<1>3. worker' = [worker EXCEPT ![w] = row]
  BY <1>1, <1>2 DEF Known, Gather
<1>4. /\ done \subseteq QuarantineKeys /\ step \in {"bind", "gather"}
      /\ step = "bind" => done = {}
  BY <1>2
<1> HIDE DEF done, step
<1>5. /\ row \in WorkerStates /\ row.step = step /\ row.kind = PROCESS
      /\ row.version = worker[w].version /\ row.done = done
      /\ row.manifest = worker[w].manifest
  BY <1>1, <1>2, <1>4 DEF Known, WorkerStates, Steps, Checkpointed
<1> HIDE DEF row
<1>6. Moves(w) /\ worker'[w] = row
  BY <1>1, <1>3, <1>5 DEF Known, Moves
<1>7. WorkerInOrder(w)' /\ ~InTransaction(w)'
  BY <1>2, <1>4, <1>5, <1>6
  DEF WorkerInOrder, InTransaction, HoldsBound, KnowsSealed, ProcessSteps, CleanupSteps
<1> QED
  BY <1>2, <1>6, <1>7, QuietStepKeeps

\* A listing that finds nothing.
LEMMA ListKeeps ==
  ASSUME ReleaseIndInv, NEW w \in Workers, List(w)
  PROVE  ReleaseIndInv'
<1>1. Known(w) /\ WorkerInOrder(w)
  BY WorkerKnown
<1>2. /\ UNCHANGED <<jobsVars, bucketVars, started>> /\ UNCHANGED <<release, object, abandoned>>
      /\ worker[w].step = "list" /\ worker[w].kind = CLEANUP /\ release.state = "FAILED"
      /\ worker[w].version \in 1 .. MaxAttempts
      /\ worker[w].round \in 0 .. ListRounds /\ worker[w].round < ListRounds
  BY <1>1 DEF List, jobsVars, bucketVars, Known, WorkerStates, WorkerInOrder, KnowsSealed,
              CleanupSteps
<1> DEFINE listed == {key \in QuarantineKeys : object[key] # Absent}
           last == [worker[w] EXCEPT !.step = "succeed"]
           next == [worker[w] EXCEPT !.step = "delete", !.checked = FALSE,
                                     !.done = listed, !.round = worker[w].round + 1]
<1>3. CASE listed = {}
  <2>1. worker' = [worker EXCEPT ![w] = last]
    BY <1>1, <1>3 DEF Known, List
  <2>2. /\ last \in WorkerStates /\ last.step = "succeed" /\ last.kind = CLEANUP
        /\ last.version = worker[w].version
    BY <1>1, <1>2 DEF Known, WorkerStates, Steps, Checkpointed
  <2>3. QuarantineIsClean'
    BY <1>2, <1>3 DEF QuarantineIsClean
  <2> HIDE DEF last
  <2>4. Moves(w) /\ worker'[w] = last
    BY <1>1, <2>1, <2>2 DEF Known, Moves
  <2>5. WorkerInOrder(w)' /\ ~InTransaction(w)'
    BY <1>2, <2>2, <2>3, <2>4, TwoKinds
    DEF WorkerInOrder, InTransaction, HoldsBound, KnowsSealed, ProcessSteps, CleanupSteps
  <2> QED
    BY <1>2, <2>4, <2>5, QuietStepKeeps
<1>4. CASE listed # {}
  <2>1. worker' = [worker EXCEPT ![w] = next]
    BY <1>1, <1>4 DEF Known, List
  <2>2. worker[w].round + 1 \in 0 .. ListRounds
    BY <1>2, RoundsAssumption
  <2>3. listed \subseteq QuarantineKeys
    OBVIOUS
  <2> HIDE DEF listed
  <2>4. /\ next \in WorkerStates /\ next.step = "delete" /\ next.kind = CLEANUP
        /\ next.version = worker[w].version /\ next.done = listed
    BY <1>1, <1>2, <2>2, <2>3 DEF Known, WorkerStates, Steps, Checkpointed
  <2> HIDE DEF next
  <2>5. Moves(w) /\ worker'[w] = next
    BY <1>1, <2>1, <2>4 DEF Known, Moves
  <2>6. WorkerInOrder(w)' /\ ~InTransaction(w)'
    BY <1>2, <2>3, <2>4, <2>5, TwoKinds
    DEF WorkerInOrder, InTransaction, HoldsBound, KnowsSealed, ProcessSteps, CleanupSteps
  <2> QED
    BY <1>2, <2>5, <2>6, QuietStepKeeps
<1> QED
  BY <1>3, <1>4

\* What was recorded is reported.
LEMMA ReportAgainKeeps ==
  ASSUME ReleaseIndInv, NEW w \in Workers, ReportAgain(w)
  PROVE  ReleaseIndInv'
<1>1. /\ Leave(w, "finished") /\ UNCHANGED <<jobsVars, bucketVars, started>>
      /\ worker[w].step # "idle" /\ job'[worker[w].kind].state = "SUCCEEDED"
  BY DEF ReportAgain, SucceededAlready, jobsVars
<1>2. Moves(w) /\ Same(w) /\ worker'[w].step = "finished"
  BY <1>1, LeaveMoves DEF Steps, Resting
<1>3. WorkerInOrder(w)' /\ ~InTransaction(w)'
  BY <1>1, <1>2, LeftInOrder
<1> QED
  BY <1>1, <1>2, <1>3, QuietStepKeeps

\* A worker calls the database and leaves the bucket alone.
LEMMA CallKeeps ==
  ASSUME ReleaseIndInv, [JobsNext]_jobsVars, UNCHANGED <<bucketVars, started>>,
         NEW w \in Workers, Moves(w), WorkerInOrder(w)',
         \A v \in Workers \ {w} :
           InTransaction(v) =>
             /\ held'[worker[v].kind] = held[worker[v].kind]
             /\ InTransaction(w)' => worker'[w].kind # worker[v].kind,
         release'.state = "READY" /\ release.state # "READY" => Complete(release.manifest)',
         job'[CLEANUP].state = "SUCCEEDED" /\ job[CLEANUP].state # "SUCCEEDED"
           => QuarantineIsClean'
  PROVE  ReleaseIndInv'
<1>1. BucketGrows
  BY DatabaseStep, BucketStays DEF ReleaseIndInv, DatabaseGrows
<1>2. started' \in 0 .. MaxUploads
  BY DEF ReleaseIndInv, ReleaseInv, ReleaseTypeOK
<1> QED
  BY <1>1, <1>2, StepKeeps

\* The work is bound, or was: what the worker holds is what the job is bound to.
LEMMA BindKeeps ==
  ASSUME ReleaseIndInv, [JobsNext]_jobsVars, NEW w \in Workers,
         BindWorkIdentity(w) \/ BindResult(w)
  PROVE  ReleaseIndInv'
<1>1. WorkerInOrder(w)
  BY WorkerKnown
<1> DEFINE m == worker[w].manifest
<1>2. /\ worker[w].step \in {"bind", "bindResult"} /\ worker[w].kind = PROCESS
      /\ m \in Manifests /\ worker[w].version \in 1 .. MaxAttempts
      /\ worker[w].step = "bind" => worker[w].done = {}
  BY <1>1 DEF BindWorkIdentity, BindResult, WorkerInOrder, HoldsBound, ProcessSteps
<1>3. /\ UNCHANGED <<bucketVars, started>> /\ UNCHANGED <<release, held>>
      /\ job' = [job EXCEPT ![PROCESS].work = m]
      /\ \/ worker[w].step = "bind" /\ Become(w, "promote")
         \/ Become(w, "succeed")
  BY DEF BindWorkIdentity, BindResult, BindWork
<1>4. job'[PROCESS].work = m /\ job'[CLEANUP] = job[CLEANUP]
  BY <1>3, TwoKinds DEF ReleaseIndInv, JobsInv, JobsTypeOK, Jobs
<1>5. /\ Moves(w) /\ Same(w) /\ worker'[w].manifest = m
      /\ \/ worker'[w].step = "promote" /\ worker'[w].done = {}
         \/ worker'[w].step = "succeed"
  BY <1>2, <1>3, BecomeMoves DEF Steps, Checkpointed
<1>6. WorkerInOrder(w)' /\ ~InTransaction(w)'
  BY <1>2, <1>4, <1>5, KeysDiffer, TwoKinds
  DEF Same, WorkerInOrder, InTransaction, HoldsBound, KnowsSealed, ProcessSteps, CleanupSteps
<1> QED
  BY <1>3, <1>4, <1>5, <1>6, CallKeeps

\* Who asserts its lease in a transaction is alone with the row.
LEMMA AssertIsAlone ==
  ASSUME ReleaseIndInv, NEW w \in Workers, NEW k \in Kinds, NEW n,
         AssertLease(k, OwnerOf[w], n)
  PROVE  /\ held'[k] = OwnerOf[w] /\ Fenced(k, OwnerOf[w], n)
         /\ UNCHANGED <<release, job>>
         /\ \A v \in Workers :
              InTransaction(v) => /\ worker[v].kind # k
                                  /\ held'[worker[v].kind] = held[worker[v].kind]
<1>1. held \in [Kinds -> Owners \cup {NoOwner}]
  BY DEF ReleaseIndInv, JobsInv, JobsTypeOK
<1>2. /\ held' = [held EXCEPT ![k] = OwnerOf[w]] /\ held[k] = NoOwner
      /\ UNCHANGED <<release, job>> /\ Fenced(k, OwnerOf[w], n)
  BY DEF AssertLease, HoldsLease
<1>3. ASSUME NEW v \in Workers, InTransaction(v)
      PROVE  worker[v].kind # k /\ worker[v].kind \in Kinds
  BY <1>2, <1>3, WorkerKnown DEF Known, WorkerInOrder
<1> QED
  BY <1>1, <1>2, <1>3

LEMMA BeginFinalKeeps ==
  ASSUME ReleaseIndInv, [JobsNext]_jobsVars, NEW w \in Workers, BeginFinalTransaction(w)
  PROVE  ReleaseIndInv'
<1>1. WorkerInOrder(w)
  BY WorkerKnown
<1>2. /\ worker[w].kind = PROCESS /\ worker[w].manifest \in Manifests
      /\ worker[w].manifest = job[PROCESS].work /\ Complete(worker[w].manifest)
      /\ worker[w].version \in 1 .. MaxAttempts
  BY <1>1 DEF BeginFinalTransaction, WorkerInOrder, HoldsBound, ProcessSteps
<1>3. /\ AssertLease(PROCESS, OwnerOf[w], worker[w].version) /\ Become(w, "finalize")
      /\ UNCHANGED <<bucketVars, started>>
  BY DEF BeginFinalTransaction
<1>4. /\ held'[PROCESS] = OwnerOf[w] /\ Fenced(PROCESS, OwnerOf[w], worker[w].version)
      /\ UNCHANGED <<release, job>>
      /\ \A v \in Workers :
           InTransaction(v) => /\ worker[v].kind # PROCESS
                               /\ held'[worker[v].kind] = held[worker[v].kind]
  BY <1>3, AssertIsAlone, TwoKinds
<1>5. /\ Moves(w) /\ Same(w) /\ worker'[w].step = "finalize"
      /\ worker'[w].manifest = worker[w].manifest
  BY <1>3, BecomeMoves DEF Steps
<1>6. Complete(worker[w].manifest)'
  BY <1>2, <1>3, <1>5 DEF Complete, bucketVars
<1>7. WorkerInOrder(w)'
  BY <1>2, <1>4, <1>5, <1>6
  DEF Same, Fenced, WorkerInOrder, InTransaction, HoldsBound, KnowsSealed, ProcessSteps, CleanupSteps
<1> QED
  BY <1>2, <1>3, <1>4, <1>5, <1>7, CallKeeps DEF Same

LEMMA AssertCleanupKeeps ==
  ASSUME ReleaseIndInv, [JobsNext]_jobsVars, NEW w \in Workers, AssertCleanup(w)
  PROVE  ReleaseIndInv'
<1>1. WorkerInOrder(w)
  BY WorkerKnown
<1>2. worker[w].kind = CLEANUP /\ worker[w].version \in 1 .. MaxAttempts
  BY <1>1 DEF AssertCleanup, WorkerInOrder, CleanupSteps
<1>3. /\ AssertLease(CLEANUP, OwnerOf[w], worker[w].version) /\ Become(w, "seal")
      /\ UNCHANGED <<bucketVars, started>>
  BY DEF AssertCleanup
<1>4. /\ held'[CLEANUP] = OwnerOf[w] /\ Fenced(CLEANUP, OwnerOf[w], worker[w].version)
      /\ UNCHANGED <<release, job>>
      /\ \A v \in Workers :
           InTransaction(v) => /\ worker[v].kind # CLEANUP
                               /\ held'[worker[v].kind] = held[worker[v].kind]
  BY <1>3, AssertIsAlone, TwoKinds
<1>5. Moves(w) /\ Same(w) /\ worker'[w].step = "seal"
  BY <1>3, BecomeMoves DEF Steps
<1>6. WorkerInOrder(w)'
  BY <1>2, <1>4, <1>5
  DEF Same, Fenced, WorkerInOrder, InTransaction, HoldsBound, KnowsSealed, ProcessSteps, CleanupSteps
<1> QED
  BY <1>2, <1>3, <1>4, <1>5, <1>6, CallKeeps DEF Same

\* The end of a transaction lets go of no other's row.
LEMMA LetGoKeepsOthers ==
  ASSUME ReleaseIndInv, NEW w \in Workers, InTransaction(w), LetGo(worker[w].kind)
  PROVE  \A v \in Workers \ {w} :
           InTransaction(v) => held'[worker[v].kind] = held[worker[v].kind]
<1>1. held \in [Kinds -> Owners \cup {NoOwner}]
  BY DEF ReleaseIndInv, JobsInv, JobsTypeOK
<1>2. ASSUME NEW v \in Workers \ {w}, InTransaction(v)
      PROVE  worker[v].kind # worker[w].kind /\ worker[v].kind \in Kinds
  BY <1>2, WorkerKnown DEF Known, ReleaseIndInv, TransactionsDiffer
<1> QED
  BY <1>1, <1>2 DEF LetGo

\* What becomes READY was complete when the last transaction began, and still is.
LEMMA FinalizeKeeps ==
  ASSUME ReleaseIndInv, [JobsNext]_jobsVars, NEW w \in Workers, FinalizeRelease(w)
  PROVE  ReleaseIndInv'
<1>1. WorkerInOrder(w) /\ Known(w)
  BY WorkerKnown
<1> DEFINE m == worker[w].manifest
<1>2. /\ InTransaction(w) /\ worker[w].kind = PROCESS /\ m \in Manifests
      /\ m = job[PROCESS].work /\ Complete(m) /\ worker[w].version \in 1 .. MaxAttempts
      /\ worker[w].from # "READY"
  BY <1>1
  DEF FinalizeRelease, Known, Finalizable, WorkerInOrder, InTransaction, HoldsBound, ProcessSteps
<1>3. /\ Finalize(worker[w].from, m) /\ UNCHANGED <<bucketVars, started>> /\ job' = job
      /\ Become(w, "bindResult") \/ Leave(w, "failed")
      /\ worker[w].step = "finalize"
  BY DEF FinalizeRelease, Finalize
<1>4. LetGo(worker[w].kind)
  BY <1>2, <1>3 DEF Finalize
<1>5. release'.state = "READY" /\ release.state # "READY" => Complete(release.manifest)'
  <2>1. ASSUME release'.state = "READY", release.state # "READY"
        PROVE  release' = [state |-> "READY", manifest |-> m]
    BY <1>3, <2>1 DEF Finalize
  <2>2. \A key \in ReleaseKeys : object'[key] = BodyOf(m, key)
    BY <1>2, <1>3 DEF Complete, bucketVars
  <2> QED
    BY <2>1, <2>2 DEF Complete
<1>6. CASE Become(w, "bindResult")
  <2>1. /\ Moves(w) /\ Same(w) /\ worker'[w].step = "bindResult" /\ worker'[w].manifest = m
    BY <1>6, BecomeMoves DEF Steps
  <2>2. WorkerInOrder(w)' /\ ~InTransaction(w)'
    BY <1>2, <1>3, <2>1
    DEF Same, WorkerInOrder, InTransaction, HoldsBound, KnowsSealed, ProcessSteps, CleanupSteps
  <2> QED
    BY <1>2, <1>3, <1>4, <1>5, <2>1, <2>2, LetGoKeepsOthers, CallKeeps
<1>7. CASE Leave(w, "failed")
  <2>1. Moves(w) /\ Same(w) /\ worker'[w].step = "failed"
    BY <1>7, LeaveMoves DEF Steps
  <2>2. WorkerInOrder(w)' /\ ~InTransaction(w)'
    BY <1>3, <2>1, LeftInOrder
  <2> QED
    BY <1>2, <1>3, <1>4, <1>5, <2>1, <2>2, LetGoKeepsOthers, CallKeeps
<1> QED
  BY <1>3, <1>6, <1>7

LEMMA SealKeeps ==
  ASSUME ReleaseIndInv, [JobsNext]_jobsVars, NEW w \in Workers, SealRelease(w)
  PROVE  ReleaseIndInv'
<1>1. WorkerInOrder(w)
  BY WorkerKnown
<1>2. /\ InTransaction(w) /\ worker[w].kind = CLEANUP /\ worker[w].version \in 1 .. MaxAttempts
  BY <1>1 DEF SealRelease, WorkerInOrder, InTransaction, CleanupSteps
<1>3. /\ LetGo(worker[w].kind) /\ UNCHANGED <<bucketVars, started>> /\ job' = job
      /\ Become(w, "list")
  BY <1>2 DEF SealRelease, Seal
<1>4. release'.state = "FAILED"
  BY DEF SealRelease, Seal, ReleaseIndInv, JobsInv, JobsTypeOK, ReleaseRows
<1>5. Moves(w) /\ Same(w) /\ worker'[w].step = "list"
  BY <1>3, BecomeMoves DEF Steps, Checkpointed
<1>6. WorkerInOrder(w)' /\ ~InTransaction(w)'
  BY <1>2, <1>4, <1>5
  DEF Same, WorkerInOrder, InTransaction, HoldsBound, KnowsSealed, ProcessSteps, CleanupSteps
<1> QED
  BY <1>2, <1>3, <1>4, <1>5, <1>6, LetGoKeepsOthers, CallKeeps

\* The row of a job that ends.
LEMMA EndedRow ==
  ASSUME ReleaseIndInv, NEW k \in Kinds, NEW state, job' = [job EXCEPT ![k] = End(k, state)]
  PROVE  job'[k].state = state /\ \A j \in Kinds \ {k} : job'[j] = job[j]
BY DEF ReleaseIndInv, JobsInv, JobsTypeOK, Jobs, End

LEMMA ReportKeeps ==
  ASSUME ReleaseIndInv, [JobsNext]_jobsVars, NEW w \in Workers, Report(w)
  PROVE  ReleaseIndInv'
<1>1. WorkerInOrder(w) /\ worker[w].kind \in Kinds
  BY WorkerKnown DEF Known
<1> DEFINE k == worker[w].kind
<1>2. /\ worker[w].step = "succeed" /\ UNCHANGED <<bucketVars, started>>
      /\ UNCHANGED <<release, held>> /\ job' = [job EXCEPT ![k] = End(k, "SUCCEEDED")]
      /\ Leave(w, "finished") \/ Leave(w, "failed")
  BY DEF Report, Succeed
<1>3. job'[k].state = "SUCCEEDED" /\ \A j \in Kinds \ {k} : job'[j] = job[j]
  BY <1>1, <1>2, EndedRow
<1>4. Moves(w) /\ Same(w) /\ worker'[w].step \in {"finished", "failed"}
  BY <1>2, LeaveMoves DEF Steps, Resting
<1>5. WorkerInOrder(w)' /\ ~InTransaction(w)'
  BY <1>2, <1>3, <1>4, LeftInOrder
<1>6. job'[CLEANUP].state = "SUCCEEDED" /\ job[CLEANUP].state # "SUCCEEDED" => QuarantineIsClean'
  <2>1. k = CLEANUP => QuarantineIsClean
    BY <1>1, <1>2 DEF WorkerInOrder
  <2>2. QuarantineIsClean => QuarantineIsClean'
    BY <1>2 DEF QuarantineIsClean, bucketVars
  <2> QED
    BY <1>3, <2>1, <2>2, TwoKinds
<1> QED
  BY <1>2, <1>4, <1>5, <1>6, CallKeeps

\* A worker that throws or dies takes no row with it but its own.
LEMMA DropKeeps ==
  ASSUME ReleaseIndInv, [JobsNext]_jobsVars, NEW w \in Workers, Throw(w) \/ Crash(w)
  PROVE  ReleaseIndInv'
<1>1. /\ DropTransaction(w) /\ UNCHANGED <<bucketVars, started>> /\ worker[w].step # "idle"
      /\ Leave(w, "failed") \/ worker' = [worker EXCEPT ![w] = Idle]
  BY DEF Throw, Crash, Resting
<1>2. UNCHANGED <<release, job>>
  BY <1>1 DEF DropTransaction, RollBackTransaction, jobsVars
<1>3. \A v \in Workers \ {w} :
        InTransaction(v) => held'[worker[v].kind] = held[worker[v].kind]
  <2>1. CASE InTransaction(w)
    BY <1>1, <2>1, LetGoKeepsOthers DEF DropTransaction, RollBackTransaction, InTransaction
  <2>2. CASE ~InTransaction(w)
    BY <1>1, <2>2 DEF DropTransaction, jobsVars, InTransaction
  <2> QED
    BY <2>1, <2>2
<1>4. Moves(w) /\ WorkerInOrder(w)' /\ ~InTransaction(w)'
  <2>1. CASE Leave(w, "failed")
    <3>1. Moves(w) /\ Same(w) /\ worker'[w].step = "failed"
      BY <2>1, LeaveMoves DEF Steps
    <3> QED
      BY <1>1, <3>1, LeftInOrder
  <2>2. CASE worker' = [worker EXCEPT ![w] = Idle]
    BY <2>2, IdleMoves
  <2> QED
    BY <1>1, <2>1, <2>2
<1> QED
  BY <1>1, <1>2, <1>3, <1>4, CallKeeps

\* The lease is given back.
LEMMA HandBackKeeps ==
  ASSUME ReleaseIndInv, [JobsNext]_jobsVars, NEW w \in Workers, HandBack(w)
  PROVE  ReleaseIndInv'
<1>1. worker[w].kind \in Kinds
  BY WorkerKnown DEF Known
<1> DEFINE k == worker[w].kind
<1>2. /\ UNCHANGED <<bucketVars, started>> /\ held' = held
      /\ worker' = [worker EXCEPT ![w] = Idle]
      /\ \E state \in {"RETRY_WAIT", "FAILED"} : job' = [job EXCEPT ![k] = End(k, state)]
  BY DEF HandBack, Retry, Fail
<1>3. job'[k].state # "SUCCEEDED" /\ \A j \in Kinds \ {k} : job'[j] = job[j]
  BY <1>1, <1>2, EndedRow
<1>4. release'.state = "READY" => release.state = "READY"
  BY DEF HandBack, Retry, Fail, FailRelease, ReleaseIndInv, JobsInv, JobsTypeOK, ReleaseRows
<1>5. Moves(w) /\ WorkerInOrder(w)' /\ ~InTransaction(w)'
  BY <1>2, IdleMoves
<1> QED
  BY <1>2, <1>3, <1>4, <1>5, TwoKinds, CallKeeps

\* The order of the PUTs: with the archive all files are there, with the manifest the archive.
LEMMA TurnsFollow ==
  ASSUME NEW w, InTurn(w, Archive) \/ InTurn(w, ManifestKey)
  PROVE  /\ InTurn(w, Archive) => FileKeys \subseteq worker[w].done
         /\ InTurn(w, ManifestKey) => Archive \in worker[w].done
BY DEF InTurn, Archive, ManifestKey

LEMMA PromoteKeeps ==
  ASSUME ReleaseIndInv, [JobsNext]_jobsVars, NEW w \in Workers, NEW key \in ReleaseKeys,
         Promote(w, key)
  PROVE  ReleaseIndInv'
<1>1. WorkerInOrder(w) /\ Known(w)
  BY WorkerKnown
<1> DEFINE m == worker[w].manifest
<1>2. /\ worker[w].step = "promote" /\ worker[w].kind = PROCESS /\ m \in Manifests
      /\ m = job[PROCESS].work /\ m # NoManifest
      /\ worker[w].version \in 1 .. MaxAttempts
      /\ worker[w].done \subseteq ReleaseKeys \ {ManifestKey}
      /\ Archive \in worker[w].done => FileKeys \subseteq worker[w].done
      /\ \A k \in worker[w].done : object[k] = BodyOf(m, k)
  BY <1>1, NullAssumption DEF Promote, Promoting, WorkerInOrder, HoldsBound, ProcessSteps
<1>3. /\ Create(key, BodyOf(m, key)) /\ UNCHANGED <<jobsVars, started>>
      /\ UNCHANGED <<release, job, held>> /\ InTurn(w, key)
  BY DEF Promote, Promoting, jobsVars
<1>4. BucketGrows /\ object'[key] = BodyOf(m, key)
  BY <1>2, <1>3, BodyIsTyped, KeysDiffer, CreateKeeps
<1>5. \A k \in worker[w].done \cup {key} : object'[k] = BodyOf(m, k)
  BY <1>2, <1>4 DEF BucketGrows, ReleaseObjectsStay
<1>6. started' \in 0 .. MaxUploads
  BY <1>3 DEF ReleaseIndInv, ReleaseInv, ReleaseTypeOK
<1>7. CASE key = ManifestKey
  <2> DEFINE row == [worker[w] EXCEPT !.step = "assertLease", !.checked = FALSE, !.done = {}]
  <2>1. worker' = [worker EXCEPT ![w] = row]
    BY <1>1, <1>7 DEF Known, Promote
  <2>2. /\ row \in WorkerStates /\ row.step = "assertLease" /\ row.kind = PROCESS
        /\ row.version = worker[w].version /\ row.manifest = m
    BY <1>1, <1>2 DEF Known, WorkerStates, Steps, Checkpointed
  <2> HIDE DEF row
  <2>3. Moves(w) /\ worker'[w] = row
    BY <1>1, <2>1, <2>2 DEF Known, Moves
  <2>4. ReleaseKeys = worker[w].done \cup {key}
    BY <1>2, <1>3, <1>7, TurnsFollow DEF ReleaseKeys
  <2>5. \A k \in ReleaseKeys : object'[k] = BodyOf(m, k)
    BY <1>5, <2>4
  <2>6. WorkerInOrder(w)' /\ ~InTransaction(w)'
    BY <1>2, <1>3, <2>2, <2>3, <2>5
    DEF WorkerInOrder, InTransaction, HoldsBound, KnowsSealed, ProcessSteps, CleanupSteps,
        Complete
  <2> QED
    BY <1>3, <1>4, <1>6, <2>3, <2>6, StepKeeps
<1>8. CASE key # ManifestKey
  <2> DEFINE done == worker[w].done \cup {key}
             row == [worker[w] EXCEPT !.checked = FALSE, !.done = done]
  <2>1. worker' = [worker EXCEPT ![w] = row]
    BY <1>1, <1>8 DEF Known, Promote
  <2>2. /\ done \subseteq ReleaseKeys \ {ManifestKey}
        /\ Archive \in done => FileKeys \subseteq done
        /\ \A k \in done : object'[k] = BodyOf(m, k)
    BY <1>2, <1>3, <1>5, <1>8, TurnsFollow
  <2> HIDE DEF done
  <2>3. /\ row \in WorkerStates /\ row.step = "promote" /\ row.kind = PROCESS
        /\ row.version = worker[w].version /\ row.manifest = m /\ row.done = done
    BY <1>1, <1>2, <2>2 DEF Known, WorkerStates
  <2> HIDE DEF row
  <2>4. Moves(w) /\ worker'[w] = row
    BY <1>1, <2>1, <2>3 DEF Known, Moves
  <2>5. WorkerInOrder(w)' /\ ~InTransaction(w)'
    BY <1>2, <1>3, <2>2, <2>3, <2>4
    DEF WorkerInOrder, InTransaction, HoldsBound, KnowsSealed, ProcessSteps, CleanupSteps
  <2> QED
    BY <1>3, <1>4, <1>6, <2>4, <2>5, StepKeeps
<1> QED
  BY <1>7, <1>8

\* A PUT left behind writes what the job is bound to.
LEMMA AbandonPutKeeps ==
  ASSUME ReleaseIndInv, [JobsNext]_jobsVars, NEW w \in Workers, NEW key \in ReleaseKeys,
         AbandonPut(w, key)
  PROVE  ReleaseIndInv'
<1>1. WorkerInOrder(w)
  BY WorkerKnown
<1> DEFINE m == worker[w].manifest
           put == <<key, BodyOf(m, key)>>
<1>2. /\ worker[w].step = "promote" /\ m \in Manifests
      /\ m = job[PROCESS].work /\ m # NoManifest
  BY <1>1, NullAssumption DEF AbandonPut, Promoting, WorkerInOrder, HoldsBound
<1>3. /\ UNCHANGED <<release, job, held, object, started>>
      /\ abandoned' = abandoned \cup {put} /\ Leave(w, "failed")
  BY DEF AbandonPut, jobsVars
<1>4. put \in Puts /\ put[1] = key /\ put[2] = BodyOf(m, key)
  BY <1>2, PutsTyped, BodyIsTyped
<1> HIDE DEF put
<1>5. BucketTyped'
  BY <1>3, <1>4 DEF BucketTyped, ReleaseIndInv
<1>6. OnlyBoundWorkIsPromoted' /\ ReleaseObjectsStay
  BY <1>3 DEF ReleaseIndInv, ReleaseInv, OnlyBoundWorkIsPromoted, ReleaseObjectsStay
<1>7. AbandonedInOrder'
  BY <1>2, <1>3, <1>4 DEF ReleaseIndInv, AbandonedInOrder
<1>8. QuarantineIsClean => QuarantineIsClean'
  BY <1>3 DEF QuarantineIsClean
<1>9. Moves(w) /\ Same(w) /\ worker'[w].step = "failed"
  BY <1>3, LeaveMoves DEF Steps
<1>10. WorkerInOrder(w)' /\ ~InTransaction(w)'
  BY <1>2, <1>9, LeftInOrder
<1>11. started' \in 0 .. MaxUploads
  BY <1>3 DEF ReleaseIndInv, ReleaseInv, ReleaseTypeOK
<1> QED
  BY <1>3, <1>5, <1>6, <1>7, <1>8, <1>9, <1>10, <1>11, StepKeeps DEF BucketGrows

\* Deletes are of the quarantine of a sealed release.
LEMMA DeleteKeeps ==
  ASSUME ReleaseIndInv, [JobsNext]_jobsVars, NEW w \in Workers, NEW key \in QuarantineKeys,
         Delete(w, key)
  PROVE  ReleaseIndInv'
<1>1. WorkerInOrder(w) /\ Known(w)
  BY WorkerKnown
<1>2. /\ worker[w].step = "delete" /\ worker[w].kind = CLEANUP
      /\ worker[w].version \in 1 .. MaxAttempts /\ worker[w].done \subseteq QuarantineKeys
      /\ release.state = "FAILED"
  BY <1>1 DEF Delete, WorkerInOrder, KnowsSealed, CleanupSteps
<1>3. /\ UNCHANGED <<release, job, held, abandoned, started>>
      /\ object' = [object EXCEPT ![key] = Absent]
  BY DEF Delete, jobsVars
<1> DEFINE all == QuarantineKeys \cup ReleaseKeys
<1>4. object = [k \in all |-> object[k]]
  BY DEF ReleaseIndInv, BucketTyped
<1>5. /\ object' = [k \in all |-> object'[k]] /\ object'[key] = Absent
      /\ \A k \in all : k # key => object'[k] = object[k]
  BY <1>3, <1>4
<1>6. BucketTyped'
  BY <1>3, <1>5 DEF ReleaseIndInv, BucketTyped
<1>7. \A k \in ReleaseKeys : object'[k] = object[k]
  BY <1>5, KeysDiffer
<1>8. OnlyBoundWorkIsPromoted' /\ ReleaseObjectsStay /\ AbandonedInOrder'
  BY <1>3, <1>7 DEF ReleaseIndInv, ReleaseInv, OnlyBoundWorkIsPromoted, ReleaseObjectsStay,
                    AbandonedInOrder
<1>9. QuarantineIsClean => QuarantineIsClean'
  BY <1>3, <1>5 DEF QuarantineIsClean
<1>10. BucketGrows
  BY <1>6, <1>8, <1>9 DEF BucketGrows
<1>11. Moves(w) /\ WorkerInOrder(w)' /\ ~InTransaction(w)'
  <2> DEFINE last == [worker[w] EXCEPT !.step = "list", !.done = {}, !.checked = FALSE]
             next == [worker[w] EXCEPT !.done = worker[w].done \ {key}]
             Deleting(row) ==
               /\ row \in WorkerStates /\ row.step \in {"list", "delete"} /\ row.kind = CLEANUP
               /\ row.version = worker[w].version /\ row.done \subseteq QuarantineKeys
  <2>1. PICK row \in {last, next} : worker' = [worker EXCEPT ![w] = row]
    BY <1>1 DEF Known, Delete
  <2>2. Deleting(row)
    <3>1. Deleting(last)
      BY <1>1, <1>2 DEF Known, WorkerStates, Steps, Checkpointed
    <3>2. Deleting(next)
      BY <1>1, <1>2 DEF Known, WorkerStates
    <3> HIDE DEF last, next
    <3> QED
      BY <2>1, <3>1, <3>2
  <2> HIDE DEF last, next
  <2>3. Moves(w) /\ worker'[w] = row
    BY <1>1, <2>1, <2>2 DEF Known, Moves
  <2> QED
    BY <1>2, <1>3, <2>2, <2>3
    DEF WorkerInOrder, InTransaction, HoldsBound, KnowsSealed, ProcessSteps, CleanupSteps
<1>12. started' \in 0 .. MaxUploads
  BY <1>3 DEF ReleaseIndInv, ReleaseInv, ReleaseTypeOK
<1> QED
  BY <1>3, <1>10, <1>11, <1>12, StepKeeps

-----------------------------------------------------------------------------
(***************************************************************************)
(* What holds of the pipeline.                                             *)
(***************************************************************************)
LEMMA WorkerStepKeeps ==
  ASSUME ReleaseIndInv, [JobsNext]_jobsVars, NEW w \in Workers, WorkerStep(w)
  PROVE  ReleaseIndInv'
BY CheckpointKeeps, ReadReleaseKeeps, ReadDeclaredKeeps, GatherKeeps, DeleteKeeps,
   PromoteKeeps, AbandonPutKeeps, BindKeeps, BeginFinalKeeps, FinalizeKeeps, AssertCleanupKeeps,
   SealKeeps, ListKeeps, ReportKeeps, ReportAgainKeeps
DEF WorkerStep

LEMMA ReleaseStutters ==
  ASSUME ReleaseIndInv, UNCHANGED releaseVars
  PROVE  ReleaseIndInv'
<1>1. UNCHANGED <<release, declared, job, uploads, held, object, abandoned, started, worker>>
  BY DEF releaseVars, jobsVars, bucketVars
<1>2. BucketGrows
  BY <1>1, BucketStays DEF bucketVars, WorkStays
<1>3. [JobsNext]_jobsVars
  BY <1>1 DEF jobsVars
<1>4. started' \in 0 .. MaxUploads
  BY <1>1 DEF ReleaseIndInv, ReleaseInv, ReleaseTypeOK
<1> QED
  BY <1>1, <1>2, <1>3, <1>4, EnvironmentKeeps

LEMMA ReleaseNextKeeps == ReleaseIndInv /\ [ReleaseNext]_releaseVars => ReleaseIndInv'
<1> SUFFICES ASSUME ReleaseIndInv, [ReleaseNext]_releaseVars
             PROVE  ReleaseIndInv'
  OBVIOUS
<1>1. [JobsNext]_jobsVars
  BY StepIsJobs
<1>2. CASE ControlStep
  BY <1>1, <1>2, ControlKeeps
<1>3. CASE Upload
  BY <1>1, <1>3, UploadKeeps
<1>4. CASE \E put \in abandoned : ServeAbandoned(put)
  BY <1>1, <1>4, ServeKeeps
<1>5. ASSUME NEW w \in Workers, ClaimStep(w)
      PROVE  ReleaseIndInv'
  BY <1>1, <1>5, ClaimKeeps DEF ClaimStep
<1>6. ASSUME NEW w \in Workers, WorkerStep(w)
      PROVE  ReleaseIndInv'
  BY <1>1, <1>6, WorkerStepKeeps
<1>7. ASSUME NEW w \in Workers, Throw(w) \/ Crash(w)
      PROVE  ReleaseIndInv'
  BY <1>1, <1>7, DropKeeps
<1>8. ASSUME NEW w \in Workers, HandBack(w)
      PROVE  ReleaseIndInv'
  BY <1>1, <1>8, HandBackKeeps
<1>9. CASE JobsClock /\ UNCHANGED <<bucketVars, started, worker>>
  BY <1>1, <1>9, ClockKeeps
<1>10. CASE UNCHANGED releaseVars
  BY <1>10, ReleaseStutters
<1> QED
  BY <1>2, <1>3, <1>4, <1>5, <1>6, <1>7, <1>8, <1>9, <1>10 DEF ReleaseNext

\* What every worker knows, every abandoned request writes and every transaction holds stays
\* in step with the database.
THEOREM ReleaseIndInvHolds == ReleaseSpec => []ReleaseIndInv
<1>1. ReleaseInit => ReleaseIndInv
  BY ReleaseInitInOrder
<1>2. ReleaseIndInv /\ [ReleaseNext]_releaseVars => ReleaseIndInv'
  BY ReleaseNextKeeps
<1> QED
  BY <1>1, <1>2, PTL DEF ReleaseSpec

\* A READY release is complete in the bucket, the release prefix holds objects of one work
\* only, a success is recorded before it is answered, and a cleanup leaves nothing but what
\* is still on its way, whatever the number of workers, paths, contents and attempts.
THEOREM ReleasesAreSound == ReleaseSpec => []ReleaseInv
<1>1. ReleaseIndInv => ReleaseInv
  BY DEF ReleaseIndInv
<1> QED
  BY <1>1, ReleaseIndInvHolds, PTL

\* The workers implement the protocol of the database: V2ReleaseJobWorker finalizes the work
\* it bound and nothing else.
THEOREM PipelineImplementsJobs == ReleaseSpec => ImplementsJobs
<1>1. ReleaseInit => JobsInit
  BY DEF ReleaseInit
<1>2. ReleaseIndInv /\ [ReleaseNext]_releaseVars => [JobsNext]_jobsVars
  BY StepIsJobs
<1> QED
  BY <1>1, <1>2, ReleaseIndInvHolds, PTL DEF ReleaseSpec, ImplementsJobs, JobsSpec

\* So the pipeline has every property that the database protocol has.
THEOREM PipelineKeepsJobsConsistent == ReleaseSpec => []JobsConsistent
<1>1. ReleaseSpec => JobsSpec
  BY PipelineImplementsJobs DEF ImplementsJobs
<1> QED
  BY <1>1, JobsAreConsistent, PTL

-----------------------------------------------------------------------------
(***************************************************************************)
(* What no step may do.                                                    *)
(***************************************************************************)
\* READY and FAILED are final, and what is taken out of quarantine belongs to a FAILED
\* release.
THEOREM ReleaseDecisionsStand == ReleaseSpec => DecisionsStand
<1> DEFINE Decided == release.state \in {"READY", "FAILED"} =>
                        release'.state = release.state /\ release'.manifest = release.manifest
           Deleted == (\E key \in QuarantineKeys : object[key] # Absent /\ object'[key] = Absent)
                        => release.state = "FAILED"
<1>1. ReleaseIndInv /\ [ReleaseNext]_releaseVars => [Decided]_releaseVars
  BY StepIsJobs, DatabaseStep DEF ReleaseIndInv, DatabaseGrows, DecisionStays
<1>2. ReleaseIndInv /\ [ReleaseNext]_releaseVars => [Deleted]_releaseVars
  <2> SUFFICES ASSUME ReleaseIndInv, ReleaseNext, NEW key \in QuarantineKeys,
                      object[key] # Absent, object'[key] = Absent
               PROVE  release.state = "FAILED"
    OBVIOUS
  <2>1. \A k, body : Create(k, body) => object'[key] # Absent
    <3> SUFFICES ASSUME NEW k, NEW body, Create(k, body)
                 PROVE  object'[key] # Absent
      OBVIOUS
    <3>1. CASE object[k] # Absent
      BY <3>1 DEF Create
    <3>2. CASE object[k] = Absent /\ k # key
      BY <3>2 DEF Create, ReleaseIndInv, BucketTyped
    <3> QED
      BY <3>1, <3>2
  <2>2. object' # object
    OBVIOUS
  <2>3. PICK w \in Workers, k \in QuarantineKeys : Delete(w, k)
    <3>1. CASE \/ ControlStep
               \/ \E w \in Workers : ClaimStep(w) \/ Throw(w) \/ HandBack(w) \/ Crash(w)
               \/ UNCHANGED <<bucketVars, started, worker>>
      BY <2>2, <3>1 DEF ControlStep, ClaimStep, ClaimDue, Throw, HandBack, Crash, bucketVars
    <3>2. CASE Upload \/ \E put \in abandoned : ServeAbandoned(put)
      BY <2>1, <2>2, <3>2
      DEF Upload, StartUpload, FinishUpload, AbandonUpload, ServeAbandoned, bucketVars
    <3>3. ASSUME NEW w \in Workers, WorkerStep(w)
          PROVE  \E k \in QuarantineKeys : Delete(w, k)
      BY <2>1, <2>2, <3>3
      DEF WorkerStep, Checkpoint, ReadRelease, ReadDeclared, Gather, Promote, AbandonPut,
          BindWorkIdentity, BeginFinalTransaction, FinalizeRelease, BindResult, AssertCleanup,
          SealRelease, List, Report, ReportAgain, bucketVars
    <3> QED
      BY <3>1, <3>2, <3>3 DEF ReleaseNext
  <2> QED
    BY <2>3, WorkerKnown DEF Delete, WorkerInOrder, KnowsSealed
<1> QED
  BY <1>1, <1>2, ReleaseIndInvHolds, PTL
  DEF ReleaseSpec, DecisionsStand, DecidedOnce, DeletedOnlyWhenSealed

\* Which steps change a job whose lease is live: those of the worker that holds it, and the
\* clock.
LEMMA LiveLeaseStep ==
  ASSUME ReleaseIndInv, ReleaseNext, NEW k \in Kinds,
         job[k].state = "LEASED", job[k].live, job'[k] # job[k]
  PROVE  \/ job'[k] = [job[k] EXCEPT !.live = FALSE]
         \/ \E w \in Workers :
              /\ Fenced(k, OwnerOf[w], worker[w].version) /\ worker[w].kind = k
              /\ \/ BindWorkIdentity(w) \/ BindResult(w)
                 \/ Report(w) \/ HandBack(w)
<1>1. job \in [Kinds -> Jobs]
  BY DEF ReleaseIndInv, JobsInv, JobsTypeOK
<1>2. job' # job
  OBVIOUS
<1>3. CASE ControlStep
  BY <1>1, <1>3 DEF ControlStep, AdvanceRelease, Redeclare, Enqueue
<1>4. CASE Upload \/ \E put \in abandoned : ServeAbandoned(put)
  BY <1>2, <1>4
  DEF Upload, StartUpload, BeginUpload, FinishUpload, AbandonUpload, EndUpload, ServeAbandoned,
      jobsVars
<1>5. ASSUME NEW w \in Workers, ClaimStep(w)
      PROVE  FALSE
  <2>1. PICK swept \in SUBSET Kinds, claimed \in SUBSET Kinds : Claim(OwnerOf[w], swept, claimed)
    BY <1>5 DEF ClaimStep, ClaimDue
  <2>2. k \notin swept /\ k \notin claimed
    BY <2>1 DEF Claim, Sweepable, Claimable
  <2> QED
    BY <2>1, <2>2 DEF Claim
<1>6. ASSUME NEW w \in Workers, WorkerStep(w)
      PROVE  \/ /\ BindWorkIdentity(w) \/ BindResult(w)
                /\ Fenced(k, OwnerOf[w], worker[w].version) /\ worker[w].kind = k
             \/ /\ Report(w)
                /\ Fenced(k, OwnerOf[w], worker[w].version) /\ worker[w].kind = k
  <2>1. CASE BindWorkIdentity(w) \/ BindResult(w)
    <3>1. /\ Fenced(PROCESS, OwnerOf[w], worker[w].version)
          /\ job' = [job EXCEPT ![PROCESS].work = worker[w].manifest]
          /\ worker[w].step \in {"bind", "bindResult"}
      BY <2>1 DEF BindWorkIdentity, BindResult, BindWork, HoldsLease
    <3>2. k = PROCESS
      BY <1>1, <3>1, TwoKinds
    <3> QED
      BY <2>1, <3>1, <3>2, WorkerKnown DEF WorkerInOrder, ProcessSteps
  <2>2. CASE Report(w)
    <3>1. /\ Fenced(worker[w].kind, OwnerOf[w], worker[w].version)
          /\ job' = [job EXCEPT ![worker[w].kind] = End(worker[w].kind, "SUCCEEDED")]
      BY <2>2 DEF Report, Succeed, HoldsLease
    <3>2. k = worker[w].kind
      BY <1>1, <3>1
    <3> QED
      BY <2>2, <3>1, <3>2
  <2>3. CASE job' = job
    BY <1>2, <2>3
  <2> QED
    BY <1>6, <2>1, <2>2, <2>3
    DEF WorkerStep, Checkpoint, ReadRelease, ReadDeclared, Gather, Delete, Promote, AbandonPut,
        BeginFinalTransaction, AssertLease, FinalizeRelease, Finalize, AssertCleanup,
        SealRelease, Seal, List, ReportAgain, jobsVars
<1>7. ASSUME NEW w \in Workers, Throw(w) \/ Crash(w)
      PROVE  FALSE
  BY <1>2, <1>7 DEF Throw, Crash, DropTransaction, RollBackTransaction, jobsVars
<1>8. ASSUME NEW w \in Workers, HandBack(w)
      PROVE  Fenced(k, OwnerOf[w], worker[w].version) /\ worker[w].kind = k
  <2>1. /\ Fenced(worker[w].kind, OwnerOf[w], worker[w].version)
        /\ \E state \in {"RETRY_WAIT", "FAILED"} :
             job' = [job EXCEPT ![worker[w].kind] = End(worker[w].kind, state)]
    BY <1>8 DEF HandBack, Retry, Fail, HoldsLease
  <2>2. k = worker[w].kind
    BY <1>1, <2>1
  <2> QED
    BY <2>1, <2>2
<1>9. CASE JobsClock
  BY <1>1, <1>9 DEF JobsClock, LeaseExpires, RetryFallsDue
<1> QED
  BY <1>3, <1>4, <1>5, <1>6, <1>7, <1>8, <1>9 DEF ReleaseNext

\* A worker that binds, reports or hands back does not stay where it is.
LEMMA CallerMoves ==
  ASSUME ReleaseIndInv, NEW w \in Workers,
         \/ BindWorkIdentity(w) \/ BindResult(w) \/ Report(w) \/ HandBack(w)
         \/ FinalizeRelease(w)
  PROVE  worker'[w] # worker[w]
<1>1. CASE BindWorkIdentity(w) \/ BindResult(w)
  <2>1. worker'[w].step \in {"promote", "succeed"}
    BY <1>1, BecomeMoves DEF BindWorkIdentity, BindResult, Steps, Checkpointed
  <2> QED
    BY <1>1, <2>1 DEF BindWorkIdentity, BindResult
<1>2. CASE Report(w)
  <2>1. worker'[w].step \in {"finished", "failed"}
    BY <1>2, LeaveMoves DEF Report, Steps, Resting
  <2> QED
    BY <1>2, <2>1 DEF Report
<1>3. CASE HandBack(w)
  BY <1>3, IdleMoves DEF HandBack
<1>4. CASE FinalizeRelease(w)
  <2>1. worker'[w].step \in {"bindResult", "failed"}
    BY <1>4, BecomeMoves, LeaveMoves DEF FinalizeRelease, Steps
  <2> QED
    BY <1>4, <2>1 DEF FinalizeRelease
<1> QED
  BY <1>1, <1>2, <1>3, <1>4

\* What makes a release READY is the last transaction of the worker that is fenced.
LEMMA FinalizingStep ==
  ASSUME ReleaseIndInv, ReleaseNext, release.state # "READY", release'.state = "READY"
  PROVE  \E w \in Workers : FinalizeRelease(w)
<1>1. release \in ReleaseRows
  BY DEF ReleaseIndInv, JobsInv, JobsTypeOK
<1>2. release' # release
  OBVIOUS
<1>3. ~ControlStep
  BY <1>1 DEF ControlStep, AdvanceRelease, Redeclare, Enqueue, ReleaseRows, Uploading
<1>4. ~Upload /\ ~\E put \in abandoned : ServeAbandoned(put)
  BY <1>2
  DEF Upload, StartUpload, BeginUpload, FinishUpload, AbandonUpload, EndUpload, ServeAbandoned,
      jobsVars
<1>5. ~FailRelease
  BY <1>1 DEF FailRelease, ReleaseRows
<1>6. ASSUME NEW w \in Workers, ClaimStep(w)
      PROVE  FALSE
  BY <1>2, <1>5, <1>6 DEF ClaimStep, ClaimDue, Claim
<1>7. ASSUME NEW w \in Workers, WorkerStep(w)
      PROVE  FinalizeRelease(w)
  <2>1. ~SealRelease(w)
    BY <1>1 DEF SealRelease, Seal, ReleaseRows
  <2> QED
    BY <1>2, <1>7, <2>1
    DEF WorkerStep, Checkpoint, ReadRelease, ReadDeclared, Gather, Delete, Promote, AbandonPut,
        BindWorkIdentity, BindResult, BindWork, BeginFinalTransaction, AssertLease,
        AssertCleanup, List, Report, Succeed, ReportAgain, jobsVars
<1>8. ASSUME NEW w \in Workers, Throw(w) \/ Crash(w) \/ HandBack(w)
      PROVE  FALSE
  BY <1>2, <1>5, <1>8
  DEF Throw, Crash, DropTransaction, RollBackTransaction, HandBack, Retry, Fail, jobsVars
<1>9. ~JobsClock
  BY <1>2 DEF JobsClock, LeaseExpires, RetryFallsDue
<1> QED
  BY <1>3, <1>4, <1>6, <1>7, <1>8, <1>9 DEF ReleaseNext

\* A live lease is its worker's alone, though another may go by its name, and only the
\* attempt that still owns the job makes the release READY.
THEOREM LeasesAreExclusive == ReleaseSpec => LeasesProtect
<1> DEFINE Exclusive ==
             \A k \in Kinds :
               job[k].state = "LEASED" /\ job[k].live /\ job'[k] # job[k] =>
                 \/ job'[k] = [job[k] EXCEPT !.live = FALSE]
                 \/ \E w \in Workers :
                      /\ OwnerOf[w] = job[k].owner
                      /\ worker[w].kind = k /\ worker[w].version = job[k].attempts
                      /\ worker'[w] # worker[w]
           Owned ==
             release.state # "READY" /\ release'.state = "READY" =>
               \E w \in Workers :
                 /\ Fenced(PROCESS, OwnerOf[w], worker[w].version)
                 /\ worker[w].kind = PROCESS /\ worker'[w] # worker[w]
<1>1. ReleaseIndInv /\ [ReleaseNext]_releaseVars => [Exclusive]_releaseVars
  BY LiveLeaseStep, CallerMoves DEF Fenced
<1>2. ReleaseIndInv /\ [ReleaseNext]_releaseVars => [Owned]_releaseVars
  <2> SUFFICES ASSUME ReleaseIndInv, ReleaseNext, release.state # "READY",
                      release'.state = "READY"
               PROVE  Owned
    OBVIOUS
  <2>1. PICK w \in Workers : FinalizeRelease(w)
    BY FinalizingStep
  <2>2. worker[w].kind = PROCESS /\ Fenced(PROCESS, OwnerOf[w], worker[w].version)
    BY <2>1, WorkerKnown DEF FinalizeRelease, WorkerInOrder, InTransaction, ProcessSteps
  <2> QED
    BY <2>1, <2>2, CallerMoves
<1> QED
  BY <1>1, <1>2, ReleaseIndInvHolds, PTL
  DEF ReleaseSpec, LeasesProtect, LiveLeaseIsExclusive, FinalizedByOwner

=============================================================================
