# A verification project for StaticDeploy

TLA+ models, TLC configurations and TLAPS proofs for the parts of StaticDeploy
that several processes, a database, an object store, an identity provider and
browsers have to get right together. Every definition is translated from the
source of this repository (the `map` of `PROJECT.json` names the lines) and
checked or proved as said below.

1. The system · 2. Modules · 3. Runs · 4. Proofs · 5. Not modelled ·
6. Where documents and code disagree · 7. Plan

## 1. The system

StaticDeploy publishes bundles of static files under the hosts of applications.
The repository holds two generations of it: the v1 product (apps, bundles,
entrypoints; synchronous use cases over plain storages) and the v2 redesign
(applications, immutable releases, generations, three least-privilege planes):

- **control** accepts requests of signed-in users and writes PostgreSQL only;
- a **worker** takes leases on rows of job tables and moves objects in S3;
- **content** reads S3 only and answers requests for published files.

Paths below are under `src/`; `migrations` are those of `pg-s3-storages/src`.

| Part | Source | State it keeps | Operations | What is hard |
| --- | --- | --- | --- | --- |
| Publication outbox | `migrations/03,04,08.ts`, `V2PublicationQueue` in `V2RoutingProjection.ts` | desired and served pointer of an application, a row per generation (state, lease, attempts, bound key), idempotency records, audit events, first publications | request, claim (four passes), bind key, renew, assert projectable, retry, fail, acknowledge, delete record | leases that run out under a running worker, final attempts, overtaken rows, one exception that rolls a batch back |
| Worker and routing projection | `V2RoutingProjector`, `V2PublicationWorker` | `generations/<g>.json` (create only), `current.json` (conditional replacement), the worker's place in `apply` | checkpoint, conditional PUTs, reads back, compare loop of three rounds, acknowledge | late, lost and resent PUTs; a crash after the pointer moved; two workers on two generations |
| Content routing cache | `V2ContentRoutingCache` | last known good document, watermark | refresh | overlapping refreshes, restarts, buckets rolled back |
| Routing signatures | `V2RoutingSigner`, `V2RoutingVerifier`, `assertKeyRetirable` | keyrings with validity windows | choose, bind, sign, verify, may a key go | keyrings replaced process by process while documents are under way |
| Projection reconciler | `V2ProjectionReconciler` | none | compare database and bucket, propose repairs | three reads at three times |
| Release jobs | `V2ReleaseJobs.ts`, `migrations/03-05.ts` | release rows, upload declarations, jobs with leases, attempts and work identity | enqueue, claim with sweep, renew, assert, bind work, prepare cleanup, retry, fail, succeed | commit done but success unreported, cleanup racing enqueue, attempts with different declarations |
| Release objects | `V2ObjectStorage.ts` | quarantine and release prefixes in S3 | upload under a shared lock, promote create-only, manifest, list, delete | partial promotion, attempts side by side, PUTs that arrive after everyone gave up |
| Sessions | `V2Sessions.ts`, `v2SessionRouter.ts`, `migrations/04-07.ts` | session rows, login transactions, envelope keys, the cookies | login, callback, use, rotate, log out, revoke, clean up | a callback racing a logout, one-time states, keys that are retired |
| Sign-in | `V2Sessions.ts`, `migrations/06.ts` | admission windows, discovery document, provider keys | admit a login, discover, fetch keys, verify | shared requests, caches that pin what is old, counters at their limit |
| Authorization | `V2Authorization.ts`, `V2Authorizer.ts`, `migrations/05,07,08.ts` | policy, bindings with a version, recorded replacements | authorize, replace bindings, provision | waits for locks between deciding and acting |
| Core use cases | `core/src` | what the storages hold | create, update, delete, deploy | check, then act, with awaits and no transaction |
| Request matching | `core/src/usecases/RespondToEndpointRequest` | none, but browsers remember redirects | entrypoint, asset, redirect, fallback | addresses that cover each other, permanent redirects over a deploy |
| Storages | `pg-s3-storages/src/*Storage.ts`, `memory-storages` | tables and objects, or maps | create, read, update, delete | a row and its objects written one after the other |
| Migrations | `migrations/03-08.ts` | the schema: tables, guards, function bodies | up, down | downs while transactions write; bodies put back from older migrations |
| Server process | `staticdeploy/src`, `pg-s3-storages/src/index.ts` | start and shutdown state, sockets | start, signal, drain, exit | signals during the start, several starts over one empty database |
| Management console | `management-console/src` | the page shown, requests, modals | fetch, create, edit, delete | answers that overtake each other |
| HTTP adapters | `http-adapters` | none | routes, error codes | – |
| Authentication strategies | `jwt-…`, `oidc-authentication-strategy` | provider discovered once | verify tokens | – |
| Clients and tools | `cli`, `sdk`, `serve-static`, `tar-archiver`, `scripts`, `website` | none that outlives a call | HTTP calls, archives, pages | nothing concurrent |

How they interact: control calls SECURITY DEFINER functions and never touches S3;
a worker claims a row, gets a lease (owner, version, expiry), writes objects
between two kinds of calls to the same functions, and acknowledges; content polls
the bucket. Every v2 request passes a session and a decision first, in the
transaction that acts. Nobody in the repository drives the two workers (`claimDue`,
`apply`, `retry`, `fail` are called by tests and a benchmark), nor inserts
idempotency records: both are external, and the models let them do anything that
the functions admit.

### What makes each part correct

- Outbox: the served pointer is the newest acknowledged row; rows, records and
  audit tell the same story; a release is first published once; no row is out of
  reach of the claim; every request ends.
- Projection: the pointer never goes back, equals its immutable object and is never
  behind what the database calls served; a live lease is exclusive; a healthy worker
  succeeds; a document shown can be verified by everybody who verifies.
- Cache: one process never answers with an older document, honours its checkpoint,
  and comes to show what was acknowledged.
- Reconciler: finding nothing means something; no alarm without a cause.
- Releases: a READY release is complete and immutable, cleanup never removes what
  one needs, every job ends.
- Sessions and sign-in: an ended session stays ended, a login makes one, a rollout
  of keys costs none; limits hold for every stretch of time; caches pin nothing old.
- Authorization: a decision is of one set of bindings and still holds when it is
  acted on; a replacement happens once; nobody waits for ever.
- Core and storages: tables agree; a refused call changes nothing; callers hold the
  role for what they change; an entrypoint's bundle is complete.
- Matching: nobody is sent in a circle; who is sent to a canonical path is answered.
- Migrations: a down takes no data with it, and every body is the one of its version.
- Server: listens over what is ready, stops in bounded time, 0 means clean.
- Console: shows what was asked for, and never older than what its user changed.

## 2. Modules

| Module | Models | With |
| --- | --- | --- |
| `RoutingRegister` | The abstract promise of publication: a register of generations with a desired, a current and a served one. | |
| `PublicationOutbox` | The database half of publication. One action per function, because a function is one transaction. | |
| `PublicationPipeline` | The outbox, the routing objects, the PUTs on their way and the workers. | extends the outbox, implements the register |
| `ContentRoutingCache` | One content process over a bucket that the register moves. | extends the register |
| `RoutingKeys` | Keyrings, signing, verifying, the retirement query and the rollout of a key. | |
| `Reconciler` | `inspect`, read by read. | extends `RoutingKeys` |
| `ReleaseJobs` | The database half of releases: one release, its declarations, its two jobs. | |
| `ReleasePipeline` | Its bucket, uploads and workers. | extends and implements `ReleaseJobs` |
| `Sessions` | Login transactions, sessions, envelope keys, one browser's cookies. | |
| `SignIn` | Admission, the capacity of an hour, discovery and provider keys. | |
| `Roles` | Roles and capabilities. | |
| `BindingRegister` | The abstract promise of replacing bindings: atomic, authorized, once per key. | |
| `Authorization` | Decisions, replacements and publication requests, lock by lock. | implements `BindingRegister` |
| `LegacyStorages`, `UseCases` | The v1 use cases, await by await, over PostgreSQL and S3 or over maps. | |
| `Endpoints` | Which entrypoint and asset answer, and the redirects a browser follows and remembers. | |
| `Console` | The apps page of the management console. | |
| `Server` | The life of server processes over one database and bucket. | |
| `Migrations` | Ups and downs of the v2 schema while transactions write. | |
| `MC…` | Instances for TLC. `MCProgress`, `MCHousekeeping` and `MCBrowsers` hold several parts that share nothing and explore each with the others at rest. | |
| `…Proofs` | Theorems (section 4). `PublicationPipelineProofs` has those of the outbox too, `BrowsersProofs` those of `ContentRoutingCache` and `Console`, `HousekeepingProofs` those of `RoutingKeys`, `Reconciler` and `Migrations`, `ProcessProofs` those of `Server` and `SignIn`, `UseCasesProofs` those of the storages with the calls. | |

Operators whose comment begins "Mutated form" are not part of a model: each is what
a plausible slip would make of the definition after it. Put in its place, TLC finds
the property violated that `mutants` of `PROJECT.json` names; every property that a run
checks has one.

### Publication: `PublicationOutbox`, `PublicationPipeline`, `ContentRoutingCache`

The outbox is about one application. Its variables are the columns: `desired`,
`served`, `published`, `outbox[g]` (the row of generation g), `idempotency[i]`, and
`audit[g]`, the number of events of each kind that the functions wrote for g. Time is
abstract: a lease is `live` until `LeaseExpires`, a delayed retry not `due` until
`RetryFallsDue`, a record open until `IdempotencyExpires`.

- `Claim` is all of `v2_claim_publications`: due pending and expired leased rows are
  leased, rows whose final lease ran out are failed, overtaken rows are leased and
  failed at once, each failure completing its record and writing its event; one record
  that cannot be completed disables the whole action, as the exception rolls the batch
  back. Rows locked elsewhere are passed over.
- The claim reads the application without locking it. A request that commits during
  the claim's statement changes nothing the claim writes, so that claim-then-request
  is an equivalent order and one atomic action is faithful.
- A worker may call with any version it was ever given: stale callers are in.
- Refused calls and replays change nothing and are no actions. Rows written before
  migration 08 (no routing host) are out of scope.

The pipeline makes `V2PublicationWorker.apply` a step machine: bind the key, then for
every S3 call a checkpoint (renew and assert), the call, and its answer. A conditional
PUT is a message in `inflight`: the bucket may serve it at its answer, serve it
without an answer (then the S3 client resends), serve it after the sender has given
up, or never; its condition is evaluated when it is served. A worker throws or dies at
any step. `Workers` are processes and `OwnerOf` gives the name each of them claims with:
one that was restarted may go by the name of one that is not dead yet.
Adjacent checkpoints with nothing in between are one; the read of the manifest, which
is immutable, is left out. A document is its generation and key: the rest comes from
the immutable row, and signatures are deterministic. The ETag is the content.

In the cache each read of `refresh()` is a step, the part after the last `await` one
action, and two calls overlap. `PointerMatchesGeneration` of the pipeline is why
`Project` writes both objects. `RollBack` restores an older or re-signed document, the
process may restart with or without a checkpoint.

### Keys and reconciler: `RoutingKeys`, `Reconciler`

Every process runs a keyring of the rollout (`stage`). A worker binds the key that
`kidForIssueTime` chooses, signs, verifies what it wrote and what it replaces, and
acknowledges with the version of the pointer. `AssertKeyRetirable` is the query; what it
says holds at that moment only, and the model remembers in `cleared` what an operator
may conclude, until a worker takes the key up (`TakenUp`): in a rollout of three keyrings
an answer from before could otherwise take a key from verifiers that a worker signs with.
The order of a rollout is not in the code: `MayFollow` states the
operator that `ShownDocumentVerifies` needs. Leases and late PUTs are `PublicationPipeline`'s
and are held, lost, or served conditionally here.

`inspect` is `QueryDatabase`, `ReadCurrentObject`, `ReadImmutableObject`; the reasons are
the code's, over what the three reads found, with publications and `PutBack` (an
operator restores an earlier version of the pointer) in between. `moved` and the
pointer kept in the snapshot are for the properties.

### Releases: `ReleaseJobs`, `ReleasePipeline`

One release, as `release` (state and manifest digest), `declared` (its upload
declarations), `job[k]` for the two kinds of jobs, `uploads` (transactions of
`putQuarantineFile` that hold the release FOR SHARE) and `held` (rows of jobs locked by
a transaction that has checked the lease and waits).

- Where a transaction looks at the clock and then waits for a lock, it is two actions:
  `AssertLease`, then `Finalize` or `Seal`. The lease may run out in between; the row
  lock is what keeps a claim (`SKIP LOCKED`) from the job.
- `ReleaseIsFree` is the wait for `FOR UPDATE` of the release: no upload holds it.
- `Claim` is both passes of `v2_claim_release_jobs`. Other releases' jobs share the
  limit, so any job of this one, or none, is reached.
- How a release comes to UPLOADED, PROCESSING and AWAITING_DEFAULT_DOCUMENT, and who
  replaces declarations and inserts jobs, is not in the repository: `AdvanceRelease`,
  `Redeclare` and `Enqueue` do what states and triggers admit.
- `FinalizeBound` says what the caller must keep to: finalize what was bound.
  `ImplementsJobs` checks that the worker does.
- `Fail` of a processing job needs a live lease, also on the final attempt: the function
  lets a late FAILED through, but it records the completion identity first, and the guard
  trigger of the jobs refuses that of a leased row whose lease ran out
  (`migrations/04.ts:586`, `05.ts:606`). The sweep fails the job then. The outbox writes
  its row once and does take a late FAILED.

`ReleasePipeline` is `V2ReleaseJobWorker` step by step. A worker may throw, hand the job
back or not, and lose the answer of its final transaction or of `succeed`. A PUT nobody
waits for stays in `abandoned` and can be served any number of times. `Workers` are
processes and `Owners` the names they claim with. `putCreateOnly` with its read-back
and its loop over 409 is one step: a create either made the object or found one.

### Signing in and deciding: `Sessions`, `SignIn`, `Authorization`

`Sessions`: every database function locks the one row it decides on before it reads
the clock, so each is a step. The requests of one browser run in `Calls`, each at one
process; a callback reads the session it will replace first (`inspect`), spends its
login (`consume`) and makes the session (`create`) with the exchange in between; a
request uses the session, decrypts its envelope, and rotates it or revokes it for a
lost key. The browser gets an answer or not (`Answer`). Every process goes through the
configurations of a rollout (`phase`): key rings, primaries, idle lifetimes.

`SignIn` is what stands before `BeginLogin` and after `consume`: windows by source and
for all, concurrency, the capacity of an hour under an advisory lock that is waited for
after the clock is read, the discovery document that is kept, the provider keys that
are not, and one request for both that every waiting call shares. The provider replaces
its document and retires keys at any time; every request fails in any way.
`CleanUpLogin` deletes rows of logins that are older than `LoginKept`, their lifetime and
a retention, for which the code only asks that it is not negative. The
default is a day; with less than an hour the capacity is one of the rows that are still
there, as the function counts no others, and more logins than that may have begun.

`Authorization`: a call is one transaction and takes its row locks in the order policy,
session, application; each lock is a step, and what a call holds follows from where it
is. A publication request takes the advisory lock, decides under FOR SHARE, then
upgrades. `Roles` has the role table. The audit event of a call says what its answer
says. Applications appear by `CreateApplication`, since no code inserts them yet.

### The v1 product: `LegacyStorages`, `UseCases`, `Endpoints`, `Console`

A use case is a record with the await it stands at; between two awaits anything may
happen, and a process may die at any await (`Cut`, `MaxCuts`). The storages have two
builds: `pg` (every statement commits by itself, constraints and cascades of the first
migrations, assets in a bucket) and `memory` (maps without constraints, an update of a
missing row makes one). `DeployBundle` runs other use cases in turn.

`Endpoints`: paths are sequences of segments, a segment is a name with a number of
".html" after it, which is all that the matching looks at. The functions of the code
are checked against reference definitions by browsers that ask, follow redirects,
remember permanent ones and ask again after a deploy.

`Console`: list and detail are two `DataFetcher`s, modals begin an operation on
what their page shows; answers come in any order or not. The requests under way are a
function from numbers that only tell them apart.

### Running it: `Server`, `Migrations`

`Server`: `start()` and `shutdown()` are two flows of one process, the second waiting
for the first; every await of the start may throw, a signal or a kill may come at any of
them, timers are steps that may fire once they are set. A supervisor starts again what
ended. `Lock`/`Migrate` are the migrations' row lock and transaction.

`Migrations`: a table is the set of kinds of rows that guards and constraints tell
apart. `inForce` names, for every function or constraint that several migrations
define, the one whose body it has. A down is three steps (`LockTables`, `RefuseRetained`
or `PassGuard`, `DropAndPutBack`) with transactions that write in between.

## 3. Runs

| Run | Question | Bounds |
| --- | --- | --- |
| `Progress` | *Outbox*: do pointers, rows, records and audit stay in step under any order of calls with stale or live leases, and does every request end? *Pipeline*: is the newest request acknowledged when nobody fails, whatever stale PUTs are served? *Server*: are the promises of section 1 kept by processes that race for an empty database, fail, are stopped or killed? | 2 workers of one name, in the outbox 2 names, 2 generations, 2 attempts; 2 processes, one with server-side sessions, 2 requests, 3 faults |
| `PipelineSafety` | With late and resent PUTs, crashes and throws: does the pointer only advance, equal its immutable object, lead the served pointer; is a live lease exclusive; is the register implemented? | 2 workers of one name, 2 keys, 2 generations, a PUBLISH and an UNPUBLISH after it, 2 attempts |
| `Content` | Does a process ever answer with an older document, or one older than its checkpoint; with the bucket as the pipeline leaves it, does everything acknowledged show up? | 2 overlapping calls, 2 generations, 2 signed forms |
| `Releases` | With stalling and dying workers, changing declarations, an upload and late PUTs: is a READY release complete and the bound work, do jobs end like the release, does cleanup only touch what is sealed? | 2 workers of one name, 2 attempts per job, 1 file in 2 versions, 1 upload, 2 cleanup rounds |
| `ReleaseLiveness` | Does every job end, is committed work reported? | 1 worker, otherwise the same |
| `Sessions` | Do callbacks, uses, changes and logouts of one browser at two processes keep sessions single, ended, audited, and a rollout harmless? | 2 calls, 2 sessions, 2 logins, clock to 3, a rollout of 3 configurations |
| `Authorization` | Are decisions, publication requests and replacements of one set of bindings, and does nobody wait for ever? | 2 calls, 2 processes with different administrator groups, 2 subjects, 3 requests that share a key, bindings to version 3 |
| `UseCases` | What can two calls of any two use cases, one of them cut off, do to each other? | 2 calls, 2 names, 3 addresses, one invalid, 1 tag, 2 assets, both builds |
| `Browsers` | *Visitors*: redirects, canonical paths, assets, slashes over a deploy. *Console*: does it show what was asked for? | 2 browsers on one path, 2 matchers, 6 bundles, 1 more visit, 1 deploy; 2 apps, 3 fetches, 3 moves, 2 operations |
| `Housekeeping` | *Sign-in*: limits and caches. *Keys*: can everybody verify what is shown? *Reconciler*: what does its answer mean? *Migrations*: do downs keep data and put the right bodies back? | 2 calls, 3 sources of which 2 are remembered, windows of 2, limits of 2, login rows kept for 3, admission and provider apart; 2 workers, 1 verifier, 2 keys over 3 keyrings, or 2 hosts; 1 worker, 1 restore; 1 writing transaction |
| `PipelineFailedShown`, `UpdateUserAnswers` | A statement of a document and one of a route that the code does not keep (section 6). | as `PipelineSafety` with 1 worker; as `UseCases` without a cut |

A run checks a few properties that are conjunctions of named parts, each stated and
commented where it is defined, so that a counterexample can be looked at part by part:

| Checked | Parts |
| --- | --- |
| `OutboxConsistent` | `ServedIsNewestAcknowledged`, `IdempotencyFollowsRow`, `AuditTellsEveryOutcomeOnce`, `PublishedOnce` |
| `ServerInOrder`, `ServersEndAndServe` | `ListensWhenReady`, `DestroyedAfterUse`; `SignalledProcessesEnd`, `AllComeToServe` |
| `PipelineInv`, `PointerLeads` | `ServedBehindPointer`, `PointerMatchesGeneration`; `PointerOnlyAdvances`, `AcknowledgedWhileCurrent` |
| `CacheInv` | `CheckpointHolds`, `AcknowledgedIsVisible` |
| `JobsConsistent` | `ReadyIsBoundWork`, `JobsAgreeWithRelease`, `NoJobIsSealedOut` |
| `ReleaseInv` | `ReadyIsComplete`, `OnlyBoundWorkIsPromoted`, `SuccessAnswerIsTrue`, `CleanedButForAbandoned` |
| `LeasesProtect`, `DecisionsStand` | `LiveLeaseIsExclusive`, `FinalizedByOwner`; `DecidedOnce`, `DeletedOnlyWhenSealed` |
| `SessionsInv`, `RolloutCostsNoSession` | `OneSessionPerLogin`, `RotationIsExclusive`, `EndsAuditedOnce`; `SafeRolloutKeepsSessions`, `OnlyShorterLifetimeRefuses` |
| `DecisionsHold`, `RepeatsAreAnswered` | `OneConfigurationServes`, `VersionReadIsCurrent`, `PublishedUnderAuthority`; `AuthorizesBeforeReplay`, `AnswersAgree` |
| `StoresAgree` | `TablesAgree`, `LinkedBundlesAreComplete`, `ObjectsHaveRows` |
| `CallsAnswerTruly`, `ChangesAreMeant` | `FailsOnlyInARace`, `RefusedChangesNothing`, `ChangesAreLogged`; `ChangesAreAuthorized`, `DeploysWhereAsked`, `GroupsLostWhenReplaced` |
| `VisitsArrive` | `RedirectsNeverReturn`, `CanonicalPathIsServed`, `AssetsAreAtTheirPaths`, `SlashMakesNoDifference` |
| `ConsoleInv` | `ShownIsAsked`, `OwnChangesShow` |
| `LimitsHold`, `ProviderIsRecent` | `ActiveIsUnderWay`, `BurstsAreBounded`, `HourlyCapacityHolds`; `DiscoveryIsRecent`, `RetiredKeysStayOut` |
| `PointerIsAccepted` | `ShownDocumentVerifies`, `PointerKeepsItsHost` |
| `InspectionIsRight` | `NothingFoundMeansServed`, `ClaimIsProposedBeforeTheFirst`, `PublishedIsClean` |
| `SchemaFitsVersion` | `BodiesFitVersion`, `PassedDownSucceeds`, `AuditGuardLetsIn` |

Every type invariant is part of one invariant of its run: `PipelineInv`, `CacheInv`,
`ReleaseInv`, `SessionsInv`, `DecisionsHold`, `StoresAgree`, `ConsoleInv`, `LimitsHold`,
`InspectionIsRight`, `SchemaFitsVersion`, and `ProgressTypeOK` in `Progress`.

Two generations are enough to have a newer and an older one in every place where the
code compares; a third was run once for the outbox with one attempt (590 000 states)
and added nothing. `PipelineSafety` publishes before it unpublishes: the other order was run
too, and makes the same steps of the workers. Two attempts distinguish a first, a reclaimed and a final lease. The
workers share a name, because every guard that compares names compares
versions too, and the version alone has to tell them apart. Two files instead of one were run once (5.4 million states, longer than a
run is given): nothing new. Two sessions are what a rotation makes of one, and a clock
to 3 passes every lifetime. That a session has one successor at most takes a third login and a
third session: they were run once with a clock to 1 (1.1 million states), which is when two
callbacks meet; with a clock to 3 they take too long, and the theorem (`SessionsInv`) is for any number. In `Authorization` version 3 is one beyond a replacement that
another request was meant for. One visit after a deploy is when a remembered redirect
can mislead. Three keyrings are the introduction, the overlap and the retirement of a
key. One writer is enough for `Migrations`, whose theorems hold for any number; `Server`
has two processes, since a third adds no role to holder, loser and bystander of the lock.

`CHECK_DEADLOCK FALSE` everywhere: the bounded systems stop when all generations, jobs,
calls or faults are used up. Where waiting for ever is a question it is a property
(`NoDeadlock`, `OutboxTerminates`, `JobsEnd`, `SignalledProcessesEnd`). Symmetry is used where no
property is temporal beyond a single step.

### Fairness

- Outbox (`OutboxTerminates`): the clock moves and somebody claims while rows are not
  locked; locks are held for at most the functions' `statement_timeout`. No worker
  need ever succeed.
- Pipeline (`PipelineServes`): the next-state relation is restricted instead: crashes,
  throws and expired leases happen to overtaken work only; workers take their steps.
- `ReleaseLiveness`: somebody calls the claim while it would change a job; a worker ends
  each step, by throwing if need be (S3 calls and statements have timeouts); the runner
  retries, fails or drops a lease; an upload is answered or aborted within its 30 s; the
  clock moves. `MaxUploads` ends the stream of uploads; without that, waits for the
  release lock would not end either.
- `Content` (`AcknowledgedReachesContent`): refresh is called again and again, and its
  reads are strongly fair: one that fails now and then does not fail each time.
- Server: a supervisor starts what is down, `start()` goes on, and the timer of the
  shutdown fires. A request or the destruction of a storage may hang for ever.

## 4. Proofs

**`PublicationPipelineProofs`**, of the outbox, for every number of releases, records, workers, keys,
generations and attempts: `TypeCorrect`, `ServedPointerIsRight`, `RecordsFollowRows`,
`AuditIsExact`, `FirstPublicationIsUnique`, with `OutboxIsConsistent` for the four together, and
`NoRowIsStranded`: the invariants of the outbox in `Progress`. They are conjuncts or consequences of one inductive invariant,
`OutboxInv`. What they need beyond themselves: rows exist exactly up to the desired
generation (`RowsUpToDesired`: otherwise an acknowledgement could overtake a row
nobody sees); a pending row has an attempt left (`AttemptsLeft`: otherwise it falls
between the passes of the claim); while the desired row is a PUBLISH in progress its
release is not published (`DesiredPublishIsFirst`: otherwise its acknowledgement would
be a second first publication). Steps have two shapes: *Ends*, where a set of rows
reaches a final state together with its records and events (acknowledge, fail and the
sweeps of a claim), and steps that end nothing. Assumptions: `BoundsAssumption`,
`NullAssumption`.

Of the pipeline, for every number of workers, PUTs on their way, keys,
generations and attempts: `PipelineIsConsistent` (`PipelineInv`), `PointerAlwaysLeads`
(`PointerLeads`), `LeaseIsExclusive` (`LiveLeaseIsExclusive`), `PipelineImplementsRegister`
(`ImplementsRegister`), and `PipelineUsesOutbox`: every behaviour of the pipeline is one of
the outbox, so that all theorems about the outbox hold of the workers that the code has.
`PipelineIndInv` rests on a key being bound once: every document of a generation, in
a PUT, in a worker's hands or in the bucket, is then the same document. With that, what
a worker has seen of the bucket stays true (`WorkerInOrder`, step by step of `apply`), and
every PUT of the pointer that may still be served replaces an older document by one
that is stored (`PutInOrder`), whoever sent it and however late. `LeaseIsExclusive` asks nothing of
names: the row that a fenced call changes is at the caller's own version (`LeaseOfCaller`).
Assumptions: those of the outbox, `OwnersAssumption` and `DocumentAssumption`.

**`ReleasePipelineProofs`**, for every number of workers, owners, paths, contents, attempts,
uploads and rounds of a cleanup. Of `JobsSpec`: `JobsTypeCorrect`, `ReadyReleaseIsBoundWork`,
`JobsEndLikeTheRelease`, `SealingRespectsJobs` and, for the last three together,
`JobsAreConsistent`. `JobsInv` is their conjunction, and none is inductive alone: a sweep
calls a job FAILED unless it finds the release READY *with the bound work*, which is right
only because every READY release is that; that a job ends consistently needs that a FAILED
release has no job in progress.

Of `ReleaseSpec`: `ReleasesAreSound` (`ReleaseInv`), `LeasesAreExclusive` (`LeasesProtect`),
`ReleaseDecisionsStand` (`DecisionsStand`) and `PipelineImplementsJobs` (`ImplementsJobs`), with
`PipelineKeepsJobsConsistent` for what follows from it. `ReleaseIndInv` adds to `ReleaseInv` what a
worker may rely on at each step (`WorkerInOrder`: from `promote` on it holds the bound work,
what it has promoted is in the bucket as declared, from `assertLease` on all of it is; in a
transaction it is fenced and holds the row; from `list` on the release is sealed), that an
abandoned PUT writes what the job is bound to (`AbandonedInOrder`), and that no two workers
are in a transaction of one job, whatever their names (`TransactionsDiffer`). The last is
what lease versions and the held row are for: without it, the end of one worker's
transaction would let go of another's. The argument has two parts: work, decisions,
successes and held rows stay (`DatabaseStep`, for every step of the database), and release
objects of the bound work stay (`BucketGrows`), so that what the others know is not
disturbed (`OthersKeep`); each action then has only its own worker to account for. Safety
needs no step to be prompt: a checkpoint is no assumption of any of it. Assumptions:
`AttemptsAssumption`, `NullAssumption`, `OwnersAssumption`, `RoundsAssumption`.

**`ProcessProofs`**, of the server, for every number of processes, requests and faults: `ServerTypesCorrect`,
`ListeningIsReady`, `StoragesOutliveTheirUse` (together `ServerIsInOrder`) and the action property `ZeroTellsTheTruth`.
The inductive invariant says of each process alone what it may rely on at every await
of the start (`Prepared`), that the shutdown has not gone further than start and drain
allow (`InOrder`), and that its exit code tells of all that failed (`Agreed`). It is kept by the others' steps
because database and bucket are never undone: `migrated` and `bucket` only become true.
Assumption: `ServerAssumption`.

Of signing in, for every number of calls, sources, keys and documents and all limits and
lifetimes: `SignInInvHolds`, `NoLimitIsPassed` (`LimitsHold`) and `NothingOldIsUsed`
(`ProviderIsRecent`). Counters forget while limits are about what was let in, so `SignInInv`
compares each window with the series of admissions it stands for: what it counts is what
the series has since its start, and that as well as what is remembered of before is
within the limit (`WindowHolds`); a source without a window has had at most one window's worth and
none just now (`Rested`), which is why it may start anew. Everybody's series is the sum over
sources, and sums over sources and over times may be exchanged (`SumsExchange`). The
capacity of an hour is inductive by itself, since an insertion counts every row that an
hour with its time can hold, and a cleanup only makes fewer of them. Places are given back once because only callbacks get
to the exchange (`KindsInOrder`). A document or a set of keys that was served is current or was
given up after its request was sent, and requests end in time, however many share
them (`DocumentInOrder`, `KeysInOrder`). `FoldFunctionOnSet` is recursive; what is needed of
sums (a term more, two parts, smaller terms) is proved all the same from a smallest set
that would be an exception (`EverySubset`). Assumption: `SignInAssumption`.

**`BrowsersProofs`**, of the routing cache, for every number of overlapping refreshes, generations,
restores and restarts: `CacheIsConsistent` (`CacheInv`) and `CacheNeverRegresses`
(`AnswersNeverRegress`). `CacheIndInv` ties the last answer to the cached document and that to
the watermark; a call carries what was served when it began and, once it has read a
pointer nobody put back, a document at least as new. Assumptions: `BoundAssumption`,
`NullAssumption`.

Of the console, for every number of apps, requests under way, moves and operations:
`ConsoleIndInvHolds` and `ConsoleShowsWhatIs` (`ConsoleInv`). A page is hurried when it asks while an
earlier answer is still due; otherwise every answer that is due to it was asked for at the
present URL and is as new as what the user has seen succeed (`ListInv`, `DetailInv`), which is more
than `ConsoleInv` says of what is shown. It stays so because a success makes the page ask again that
could show it: which page that is depends on what the modal was for, so that the modal
must have heard of an operation of its own kind (`Matching`), and that it could be closed at
all means that its page was showing something (`Placed`). A version made by an edit is never taken
for the mark of a deleted app, as operations yet to be served are counted (`VersionsOk`).
Assumption: `ConsoleAssumption`.

**`SessionsProofs`**, for every number of processes, requests, sessions and logins, every
rollout and every lifetime: `LoginsAndSessionsMatch` (`SessionsInv`), `RolloutIsGentle`
(`RolloutCostsNoSession`) and `EndsAreFinal` (`EndIsFinal`). `SessionsInv` is not inductive: the two
halves of a callback are apart, so `SessionsIndInv` adds that a callback about to create
holds a login that was spent, for it alone, and that no session has yet. For the
rollout it adds where stored keys and idle bounds come from: a configuration that some
process has reached. A key is lost only when a ring rejects some primary, which is what
`SafeRolloutKeepsSessions` needs to be told. Assumption: `SessionsAssumption`.

**`AuthorizationProofs`**, for every number of processes, calls, sessions, applications and
versions and every set of replacements: `WhatWasDecidedHolds` (`DecisionsHold`), `SomeCallProceeds`
(`NoDeadlock`), `RepeatsAnswered` (`RepeatsAreAnswered`) and `CallsImplementRegister`
(`ImplementsRegister`). `AuthorizationIndInv` says what a call knows at each step by the locks that it
holds there (the policy it read, the session it found live, the version of the
bindings), and that the locks of any two calls agree. `NoDeadlock` follows by looking at a
call that has come furthest: whoever it waits for has come further. That two
publications do not both wait to upgrade the same row is the advisory lock's doing. A row
that is not there locks nothing. Assumption: `AuthorizationAssumption`.

**`HousekeepingProofs`**, of the keys, for every rollout and every number of processes, keys,
requests, instants and hosts, in buckets with and without versions: `KeysIndInvHolds` and
`RolloutKeepsThePointer` (`PointerIsAccepted`: the shown document verifies everywhere and
keeps its host). `KeysIndInv` has three parts. `CoreInv`: a row is bound to its key once, to one
that was valid when the row was made, so that there is one document of a generation
wherever it is found, and all pointers have one host. `Leading`: the pointer is at the
acknowledged generation or ahead of it, so that every older row is settled. `OperatorIsRight`:
a key is accepted by all who verify, or nobody can sign with it and no row that counts is
bound to it (`KeyIsGone`). The last is what `MayFollow` is for: it lets no worker take up a key
that a verifier does not know, and takes none from verifiers but one that is gone, which it
stays (`GoneStays`) unless a worker takes it up. Assumptions: `KidsAreOrdered`,
`ProcessesDiffer`, `KeysBoundsAssumption`, `RolloutStarts`, `NothingIsNoDocument`.

Of the reconciler, for any number of restored versions besides: `ReconcilerIndInvHolds` and
`InspectionsMeanWhatTheySay` (`InspectionIsRight`). Three reads of different moments are worth
something together because nothing is written between a query and a read that finds the
version the query named: versions only grow, and a pointer of a version never changes.
Without versions nothing is promised but what the code then withholds. `Leading` is needed
only where nobody has put a version back. Assumption besides: `InspectorVerifies`.

Of the migrations, for every number of writing transactions: `DownsKeepData` (the action
property `RetainedDataStays`), `PassedDownsSucceed` (`PassedDownSucceeds`) and `SchemaAlwaysFits`
(`SchemaFitsVersion`). A guard's answer is worth something only as long as nobody can write
behind it: `LocksHold` says that no transaction has in hand what the down has locked,
`GuardHolds` that what the guard let pass stays away, and both rest on `DownAsksForAll`, which
goes through the six downs: what a down loses is what its guard asks for, and that is in
tables it locks. `LateRecordsAreTold` ties a record that migration 07 would refuse to the
event that the guard of 08 looks for. `BodiesAreBrought` says of every object in force that
it is of the newest migration that brought one (`Brought`); `BodiesPutBack` compares each of the six
downs with that, and is where a body copied from the wrong migration would fail.
`ReferencesHold` adds the tables and the rows referred to, of what is written and of what
is still in hand. There are no assumptions.

**`UseCasesProofs`**, for every number of calls, applications, addresses, bundles and assets, any
number of them cut off, over either storage: `StoresInductive`, `StoresAlwaysAgree`
(`StoresAgree`), `MeaningInductive`, `ChangesAreAlwaysMeant` (`ChangesAreMeant`), `TruthInductive`
and `CallsAlwaysAnswerTruly` (`CallsAnswerTruly`). No use case has a transaction, so what its checks found may be gone when it acts, and the
argument is about what can not be: a row takes the call that made it as its id and a call makes one
row of a kind, so that the row behind an id is the one that was read, or it is gone, or (in
memory) it is back without a name.

`StoresInv` has what `StoresAgree` needs. What lacks an asset is being deleted, or its deletion
was cut off, or failed with 500 after another call came (`Removing`, `Lacking`). This rests on `Unused`: a deletion that is still alone has found
its bundles unused and they are, since `Apart` says that whoever else runs has ended its being
alone. An object has its row or its upload (`ObjectsHaveRows`), because a bundle's row is
inserted after the last of its objects and deleted after the last of them is gone
(`Bundling`). That PostgreSQL's tables agree is inductive by the constraints alone; that an
entrypoint has a valid address is not: the address was checked at an earlier await (`Preparing`).
`Asking` says which awaits a use case has and what its request may hold, its second use case in a
deploy included.

`MeaningInv` has what `ChangesAreMeant` needs. `Finding`: the name or address that the Authorizer was
asked about is that of the row that will be changed, as long as there is one, although it was read
two awaits before. `Allowed`: past the Authorizer the roles that were read do permit it. `Deploying`:
the bundle, the application and the entrypoint a deploy has read at once, in any order, are of
the tag, the name and the address it asked for, and so is what it hands to the use cases
it runs, also the application that the first of them made. `Replacing`: a call that has
inserted the groups it was asked for finds them there, unless it is not alone. `Evolves` is what all the others see of one
step, and is proved once per use case.

`TruthInv` has what `CallsAnswerTruly` needs. `Checked`: as long as no two calls overlapped and none was
cut off, what a use case has checked is so at every later await until it acts; and then rows agree
with rows in memory too (`Tidy`), so that no constraint, no group that is gone and no bundle without
content can answer 500. The first call to overlap or to be cut off ends that for good
(`CalmBefore`), so a step has to keep it only for the call that takes it. `Again` is why a deploy that
is alone is not refused when it has already made the application: what it read of the bundle and
the address is found again by the second use case, and the Authorizer says yes again, over memory
although two users may have the login `root` there, because each of them has the role
(`RootsRule`). An invalid address is the exception that `RefusedChangesNothing` names. `Logging`: what a
call has changed is in the log or is what it is about to log. `People` knows which users and
groups the calls under way have made. Assumptions:
`UseCasesAssumption`, `StatusAssumption`, `ReadsAssumption`, `IdsAssumption`.

Model-checked only:

- liveness (`OutboxTerminates`, `PipelineServes`, `AcknowledgedReachesContent`, `JobsEnd`, `ServersEndAndServe`
  and the like), which is out of the prover's reach;
- matching (`VisitsArrive`): a path loses its gaps segment by segment and the longest match is
  looked for, which takes induction over paths and lists;
- the type invariant of `Progress` as one formula; its halves are `TypeCorrect` and
  `ServerTypesCorrect`.

## 5. Not modelled

- Byte formats, signatures as such, ciphers, token claims, network checks on the
  provider's addresses, quotas of text, MIME types, metrics, logging.
- PostgreSQL row locks outside `Authorization` and `Migrations`: functions are atomic, so
  lock waits are disabled actions and deadlocks are not visible. Renewal and
  acknowledgement of one publication take the outbox row and the application in opposite
  orders; PostgreSQL would abort one of them, and the worker retries.
- The clock may not go back.
- Of releases: `finalizeRelease` without a job's fence (its callers are tests; it could
  make a release READY whose job was never bound), page limits of listings,
  `deleteQuarantineFile`, a DELETE that is served late (it would meet a sealed release).
- Of the console: pages other than those of apps, which are made alike; forms.
- Of the HTTP adapters: parsing and headers. Handlers are one use case each.
- Authentication strategies: a library verifies a token, and the provider is discovered
  once at the start. No state changes afterwards.
- `cli`, `sdk`, `serve-static`, `tar-archiver`, `scripts`, `website`, `storages-test-suite`: stateless
  clients, conversions, tooling, tests and documentation.

## 6. Where documents and code disagree

With a run:

- `PipelineFailedShown`. The test strategy (`docs/test-strategies/
  staticdeploy-modernization.md:171`, PROJ-03) says a failed read-back leaves content
  on the last known good generation; the pointer has moved by then, and the row may
  end FAILED while content shows its generation, until the next request.
- `UpdateUserAnswers`. On PostgreSQL `updateOne` inserts all groups of a user before it
  deletes the old ones (`UsersStorage.ts:126`); a group that stays violates the primary
  key, and the call answers 500, which its route does not know, with the name changed.

Met on the way, without a run of their own:

- The modernization design (`docs/technical-designs/staticdeploy-modernization.md:282`)
  says content returns the unpublished response only after acknowledgement; the worker
  writes the tombstone to `current.json` before it acknowledges
  (`V2RoutingProjection.ts:1229`), and content reads nothing but `current.json`.
- `assertKeyRetirable` (`V2RoutingProjection.ts:822`) throws "still referenced by pending or
  current projection", yet lets go a key that signs the current pointer of a row that
  ended FAILED. No verifier accepts that pointer any more, and later publications meet it
  at `:1200`. `ShownDocumentVerifies` excepts it.
- Pending rows older than a new key's `notBefore` still bind the overlapping key after the
  query found it unreferenced, until the worker is restarted: that is why `MayFollow` has
  the query asked again.
- A request that names another host is accepted and can never be projected, nor can any
  later one for the new host: its worker rejects the pointer it should replace (`:1200`).
- `pg-s3-storages/README.md:52-53` says upload writes hold a shared lock "so cleanup cannot
  race a late write". The lock ends with the transaction; a PUT that was aborted may be
  served after the cleanup found the prefix empty (`V2ObjectStorage.ts:424`).
  `CleanedButForAbandoned` is what does hold.
- The reconciler compares `document.payload.release?.id`, undefined for a tombstone, with
  null (`V2RoutingProjection.ts:1554`): every healthy unpublished application is reported
  as DESIRED_RELEASE_DRIFT. A bucket without versions never gets NONE, and CLAIM_PENDING
  needs a missing `current.json`. `PublishedIsClean` says where there is no false alarm.
- The root user is inserted before its group (`UsersStorage.ts:101`), and a start cut off in
  between leaves it without one for ever (`CreateRootUserAndGroup.ts:30-35`), while
  `website/docs/guides-jwt-providers.md:34-35` promises it all permissions.
- `DeleteBundlesByNameAndTag.ts:22` checks that no entrypoint uses the bundles and deletes
  them after an await: an entrypoint linked in between keeps a bundle whose objects are
  gone, since `BundlesStorage.ts` removes them before the foreign key refuses the rows.
  `LinkedBundlesAreComplete` says that no such deletion is answered as done.
- The delete modal of the console runs on the props of 15 ms after the click
  (`OperationModal/index.tsx:102`): with overlapping fetches they may be of another app.

## 7. Plan

1. Proofs: `VisitsArrive` as far as it is no recursion over paths.
2. A lock-order module for the row locks of the outbox functions.
3. Leases and late PUTs in `RoutingKeys` as in the pipeline, larger rollouts.
