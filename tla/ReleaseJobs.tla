---------------------------- MODULE ReleaseJobs ----------------------------
(***************************************************************************)
(* The database half of releases: the row of one release, its upload       *)
(* declarations and its two jobs, with the SECURITY DEFINER functions of   *)
(* migrations 03 to 05 and the transactions of V2ObjectStorage.ts.         *)
(*                                                                         *)
(* A transaction that waits for a lock after it looked at the clock is two *)
(* steps: what it checked, holding the row of the job, and what it commits.*)
(* Every other transaction is one.  Uploads hold the release FOR SHARE     *)
(* while they talk to the bucket; nothing that changes the state of the    *)
(* release passes them.                                                    *)
(*                                                                         *)
(* Time is abstract, as in PublicationOutbox.  lease_version and           *)
(* attempt_count advance together and only in a claim: attempts is both.   *)
(* A job is named by its kind, (release_id, kind) is UNIQUE.               *)
(***************************************************************************)
EXTENDS Naturals, FiniteSets

CONSTANTS
  Owners,       \* lease owners
  Paths,        \* the declared paths of the release
  Contents,     \* what a file may contain: its size and SHA-256
  NoOwner,      \* lease_owner IS NULL
  NoManifest,   \* manifest_digest IS NULL, work_identity IS NULL
  MaxAttempts   \* max_attempts of every job (5 in 04.ts:123)

ASSUME AttemptsAssumption == MaxAttempts \in Nat \ {0}

Declarations == [Paths -> Contents]

\* A manifest holds the files and the default document, and its digest is all
\* that the database keeps of it.
Manifests == [files : Declarations, default : Paths]

ASSUME NullAssumption ==
  /\ NoOwner \notin Owners
  /\ NoManifest \notin Manifests

VARIABLES
  release,   \* the row of v2_releases
  declared,  \* the rows of v2_upload_files: OBSERVED when READY, DECLARED before
  job,       \* the rows of v2_release_jobs
  uploads,   \* open transactions of putQuarantineFile
  held       \* who holds the row of a job in a transaction that checked its lease

jobsVars == <<release, declared, job, uploads, held>>

PROCESS == "PROCESS_RELEASE"
CLEANUP == "CLEANUP_QUARANTINE"
Kinds == {PROCESS, CLEANUP}

Uploading == {"PENDING_UPLOAD", "UPLOADED", "PROCESSING", "AWAITING_DEFAULT_DOCUMENT"}
Finalizable == {"PROCESSING", "AWAITING_DEFAULT_DOCUMENT"}
Ended == {"SUCCEEDED", "FAILED"}

ReleaseRows == [state : Uploading \cup {"READY", "FAILED"},
                manifest : Manifests \cup {NoManifest}]

Jobs ==
  [ state : {"ABSENT", "PENDING", "LEASED", "RETRY_WAIT"} \cup Ended,
    owner : Owners \cup {NoOwner},
    attempts : 0 .. MaxAttempts,
    live : BOOLEAN,
    due : BOOLEAN,
    work : Manifests \cup {NoManifest} ]

UploadRequests == [path : Paths, content : Contents]

JobsInit ==
  /\ release = [state |-> "PENDING_UPLOAD", manifest |-> NoManifest]
  /\ declared \in Declarations
  /\ job = [k \in Kinds |-> [state |-> "ABSENT", owner |-> NoOwner, attempts |-> 0,
                             live |-> FALSE, due |-> FALSE, work |-> NoManifest]]
  /\ uploads = {}
  /\ held = [k \in Kinds |-> NoOwner]

-----------------------------------------------------------------------------
(* The control plane.                                                      *)

\* FOR UPDATE of the release is granted.
ReleaseIsFree == uploads = {}

\* No code of the repository moves a release before it is finalized; these are
\* the moves that its states and the tests suggest.
AdvanceRelease(from, to) ==
  /\ <<from, to>> \in { <<"PENDING_UPLOAD", "UPLOADED">>, <<"UPLOADED", "PROCESSING">>,
                        <<"PROCESSING", "AWAITING_DEFAULT_DOCUMENT">>,
                        <<"AWAITING_DEFAULT_DOCUMENT", "PROCESSING">> }
  /\ release.state = from
  /\ ReleaseIsFree
  /\ release' = [release EXCEPT !.state = to]
  /\ UNCHANGED <<declared, job, uploads, held>>

\* A declaration is replaced.  v2_guard_upload_file keeps those of a READY release.
Redeclare(path, content) ==
  /\ release.state # "READY"
  /\ \A u \in uploads : u.path # path
  /\ declared' = [declared EXCEPT ![path] = content]
  /\ UNCHANGED <<release, job, uploads, held>>

\* putQuarantineFile up to the PUT.
BeginUpload(path) ==
  /\ release.state \in Uploading
  /\ uploads' = uploads \cup {[path |-> path, content |-> declared[path]]}
  /\ UNCHANGED <<release, declared, job, held>>

\* Its transaction ends, one way or the other; it writes nothing to the database.
EndUpload(u) ==
  /\ u \in uploads
  /\ uploads' = uploads \ {u}
  /\ UNCHANGED <<release, declared, job, held>>

\* INSERT of a job, with the trigger v2_guard_release_job_enqueue.
Enqueue(k) ==
  /\ job[k].state = "ABSENT"
  /\ k = PROCESS =>
       /\ ReleaseIsFree
       /\ release.state \in {"UPLOADED", "READY"} \cup Finalizable
  /\ job' = [job EXCEPT ![k].state = "PENDING", ![k].due = TRUE]
  /\ UNCHANGED <<release, declared, uploads, held>>

-----------------------------------------------------------------------------
(* Leases.                                                                 *)

\* The owner and the lease version that every worker call names.
Fenced(k, o, v) ==
  /\ job[k].state = "LEASED"
  /\ job[k].owner = o
  /\ job[k].attempts = v

\* v2_renew_release_job and v2_assert_release_job_lease succeed.  A renewal leaves
\* a live lease live, so it is this guard and no state change.
HoldsLease(k, o, v) ==
  /\ Fenced(k, o, v)
  /\ job[k].live
  /\ held[k] = NoOwner

\* Mutated form: the sweep is forgotten.
NothingSweepable == {k \in Kinds : job[k].attempts > MaxAttempts}

\* Rows that another transaction holds are skipped.
Sweepable == {k \in Kinds : /\ job[k].state = "LEASED"
                            /\ ~job[k].live
                            /\ job[k].attempts = MaxAttempts
                            /\ held[k] = NoOwner}

Claimable == {k \in Kinds : /\ \/ job[k].state = "LEASED" /\ ~job[k].live
                               \/ job[k].state \in {"PENDING", "RETRY_WAIT"} /\ job[k].due
                            /\ job[k].attempts < MaxAttempts
                            /\ held[k] = NoOwner}

\* Mutated form: whatever the release is, the job has failed.
NeverCommitted(k) == k \notin Kinds

\* The work of the final attempt was committed before its lease ran out.
Committed(k) ==
  /\ k = PROCESS
  /\ release.state = "READY"
  /\ job[k].work # NoManifest
  /\ release.manifest = job[k].work

End(k, state) ==
  [job[k] EXCEPT !.state = state, !.owner = NoOwner, !.live = FALSE, !.due = FALSE]

Leased(k, o) ==
  [job[k] EXCEPT !.state = "LEASED", !.owner = o, !.attempts = @ + 1,
                 !.live = TRUE, !.due = FALSE]

FailRelease == release' = [release EXCEPT !.state = "FAILED"]

\* Mutated form: the release of a swept job is left as it is.
ClaimLeavingRelease(o, swept, claimed) ==
  /\ swept \subseteq Sweepable /\ claimed \subseteq Claimable
  /\ Cardinality(claimed) <= 1
  /\ job' = [k \in Kinds |->
               IF k \in swept THEN End(k, IF Committed(k) THEN "SUCCEEDED" ELSE "FAILED")
               ELSE IF k \in claimed THEN Leased(k, o) ELSE job[k]]
  /\ UNCHANGED <<release, declared, uploads, held>>

\* v2_claim_release_jobs with limit 1, the default: expired leases of final attempts
\* end, another job is leased.  Jobs of other releases share the limit and the
\* order, so which of these two jobs a call gets to is left open.
Claim(o, swept, claimed) ==
  /\ swept \subseteq Sweepable /\ claimed \subseteq Claimable
  /\ Cardinality(swept) <= 1 /\ Cardinality(claimed) <= 1
  /\ PROCESS \in swept => ReleaseIsFree
  /\ job' = [k \in Kinds |->
               IF k \in swept THEN End(k, IF Committed(k) THEN "SUCCEEDED" ELSE "FAILED")
               ELSE IF k \in claimed THEN Leased(k, o) ELSE job[k]]
  /\ IF PROCESS \in swept /\ release.state \in Uploading
     THEN FailRelease ELSE UNCHANGED release
  /\ UNCHANGED <<declared, uploads, held>>

\* v2_bind_release_job_work.
BindWork(o, v, m) ==
  /\ HoldsLease(PROCESS, o, v)
  /\ job[PROCESS].work \in {NoManifest, m}
  /\ job' = [job EXCEPT ![PROCESS].work = m]
  /\ UNCHANGED <<release, declared, uploads, held>>

-----------------------------------------------------------------------------
(* Transactions that check the lease and then wait for the release.        *)

\* Mutated form: the check is a query of its own and keeps nothing.
AssertAndLetGo(k, o, v) ==
  /\ HoldsLease(k, o, v)
  /\ UNCHANGED jobsVars

\* v2_assert_release_job_lease inside a transaction.
AssertLease(k, o, v) ==
  /\ HoldsLease(k, o, v)
  /\ held' = [held EXCEPT ![k] = o]
  /\ UNCHANGED <<release, declared, job, uploads>>

LetGo(k) == held' = [held EXCEPT ![k] = NoOwner]

RollBackTransaction(k) ==
  /\ LetGo(k)
  /\ UNCHANGED <<release, declared, job, uploads>>

\* The last transaction of finalizeRelease, which read the release in state from
\* and built m of the declarations.  A READY release with the same manifest is
\* finalized already.
Finalize(from, m) ==
  /\ LetGo(PROCESS)
  /\ ReleaseIsFree
  /\ \/ release.state = "READY" /\ release.manifest = m /\ UNCHANGED release
     \/ /\ release.state = from
        /\ declared = m.files
        /\ release' = [state |-> "READY", manifest |-> m]
  /\ UNCHANGED <<declared, job, uploads>>

\* v2_prepare_quarantine_cleanup after the lease was asserted.  Whether the release
\* is old enough is left open.
Seal ==
  /\ LetGo(CLEANUP)
  /\ ReleaseIsFree
  /\ release.state \in {"PENDING_UPLOAD", "UPLOADED", "FAILED"}
  /\ job[PROCESS].state \in Ended \cup {"ABSENT"}
  /\ release' = [release EXCEPT !.state = "FAILED"]
  /\ UNCHANGED <<declared, job, uploads>>

-----------------------------------------------------------------------------
(* v2_finish_release_job.  A call that was answered before is answered the *)
(* same again and changes nothing.                                         *)

Retry(k, o, v) ==
  /\ HoldsLease(k, o, v)
  /\ v < MaxAttempts
  /\ job' = [job EXCEPT ![k] = End(k, "RETRY_WAIT")]
  /\ UNCHANGED <<release, declared, uploads, held>>

Succeed(k, o, v, m) ==
  /\ HoldsLease(k, o, v)
  /\ \/ k = PROCESS /\ release.state = "READY" /\ release.manifest = m /\ job[k].work = m
     \/ k = CLEANUP /\ release.state = "FAILED"
  /\ job' = [job EXCEPT ![k] = End(k, "SUCCEEDED")]
  /\ UNCHANGED <<release, declared, uploads, held>>

\* The call finds what a claim recorded for it when the lease of this very attempt
\* ran out: it returns.
SucceededAlready(k, v, m) ==
  /\ job[k].state = "SUCCEEDED"
  /\ job[k].attempts = v
  /\ k = PROCESS => job[k].work = m

\* v2_finish_release_job_attempt would take FAILED from the final attempt after its
\* lease ran out, but the identity of the call is recorded first, and the trigger
\* v2_guard_release_job refuses any update that leaves an expired lease as it is.
Fail(k, o, v) ==
  /\ HoldsLease(k, o, v)
  /\ k = PROCESS => ReleaseIsFree /\ release.state # "READY"
  /\ job' = [job EXCEPT ![k] = End(k, "FAILED")]
  /\ IF k = PROCESS /\ release.state \in Uploading
     THEN FailRelease ELSE UNCHANGED release
  /\ UNCHANGED <<declared, uploads, held>>

-----------------------------------------------------------------------------
(* Time.                                                                   *)

LeaseExpires(k) ==
  /\ job[k].state = "LEASED" /\ job[k].live
  /\ job' = [job EXCEPT ![k].live = FALSE]
  /\ UNCHANGED <<release, declared, uploads, held>>

RetryFallsDue(k) ==
  /\ job[k].state = "RETRY_WAIT" /\ ~job[k].due
  /\ job' = [job EXCEPT ![k].due = TRUE]
  /\ UNCHANGED <<release, declared, uploads, held>>

JobsClock == \E k \in Kinds : LeaseExpires(k) \/ RetryFallsDue(k)

-----------------------------------------------------------------------------
Control ==
  \/ \E from, to \in Uploading : AdvanceRelease(from, to)
  \/ \E path \in Paths, content \in Contents : Redeclare(path, content)
  \/ \E path \in Paths : BeginUpload(path)
  \/ \E u \in uploads : EndUpload(u)
  \/ \E k \in Kinds : Enqueue(k)

\* The caller's part: what is finalized is what was bound.  ImplementsJobs of
\* ReleasePipeline shows that V2ReleaseJobWorker plays it.
FinalizeBound ==
  /\ job[PROCESS].work # NoManifest
  /\ \E from \in Finalizable : Finalize(from, job[PROCESS].work)

Call(k, o, v) ==
  \/ AssertLease(k, o, v)
  \/ Retry(k, o, v)
  \/ Fail(k, o, v)
  \/ \E m \in Manifests \cup {NoManifest} : Succeed(k, o, v, m)

JobsNext ==
  \/ Control
  \/ \E o \in Owners :
       \/ \E swept, claimed \in SUBSET Kinds : Claim(o, swept, claimed)
       \/ \E k \in Kinds, v \in 1 .. MaxAttempts : Call(k, o, v)
       \/ \E v \in 1 .. MaxAttempts, m \in Manifests : BindWork(o, v, m)
  \/ held[PROCESS] # NoOwner /\ FinalizeBound
  \/ held[CLEANUP] # NoOwner /\ Seal
  \/ \E k \in Kinds : held[k] # NoOwner /\ RollBackTransaction(k)
  \/ JobsClock

JobsSpec == JobsInit /\ [][JobsNext]_jobsVars

-----------------------------------------------------------------------------
(* What holds.                                                             *)

\* Every column keeps its type.
JobsTypeOK ==
  /\ release \in ReleaseRows
  /\ declared \in Declarations
  /\ job \in [Kinds -> Jobs]
  /\ uploads \subseteq UploadRequests
  /\ held \in [Kinds -> Owners \cup {NoOwner}]

\* A READY release is the result of the work its processing job is bound to.
ReadyIsBoundWork ==
  release.state = "READY" =>
    /\ release.manifest # NoManifest
    /\ job[PROCESS].work = release.manifest
    /\ release.manifest.files = declared

\* Jobs and release end alike: processing succeeds only with a READY release and
\* fails only with a FAILED one, whoever records the end, the worker or the sweep
\* of a claim, before or after its transaction was answered (JOB-02); a cleanup
\* succeeds only for a release that can no longer become READY.
JobsAgreeWithRelease ==
  /\ job[PROCESS].state = "SUCCEEDED" => release.state = "READY"
  /\ job[PROCESS].state = "FAILED" => release.state = "FAILED"
  /\ job[CLEANUP].state = "SUCCEEDED" => release.state = "FAILED"

\* No release is sealed under a processing job that could still finalize it,
\* though jobs are enqueued while a cleanup is prepared (README of pg-s3-storages:
\* cleanup "refuses every nonterminal processing job before sealing the release").
NoJobIsSealedOut ==
  release.state = "FAILED" => job[PROCESS].state \in Ended \cup {"ABSENT"}

\* The release and its two jobs never contradict each other.
JobsConsistent == ReadyIsBoundWork /\ JobsAgreeWithRelease /\ NoJobIsSealedOut

=============================================================================
