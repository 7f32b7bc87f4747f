------------------------- MODULE PublicationOutbox -------------------------
(***************************************************************************)
(* The database half of publication: the rows of v2_publication_outbox for *)
(* one application, its desired and served pointers, the idempotency       *)
(* records and the audit events, and the SECURITY DEFINER functions of     *)
(* migrations 03, 04 and 08 that are the only way to change them.  Every   *)
(* function is one PostgreSQL transaction, so every function is one action.*)
(*                                                                         *)
(* Time is abstract.  A lease is live until LeaseExpires, a delayed retry  *)
(* is not due until RetryFallsDue, an idempotency record is open until     *)
(* IdempotencyExpires; the clock never goes back.  A row is named by its   *)
(* generation: (application_id, generation) is UNIQUE (04.ts:306).         *)
(* Requests that a function refuses, or that replay an earlier answer,     *)
(* change nothing and are not actions.                                     *)
(***************************************************************************)
EXTENDS Naturals, FiniteSets

CONSTANTS
  Releases,         \* the READY releases of the application
  IdempotencyIds,   \* idempotency records that control may insert
  Owners,           \* lease owners: the names worker processes claim with
  Kids,             \* routing key identifiers
  NoRelease,        \* release_id IS NULL: the tombstone of an UNPUBLISH
  NoOwner,          \* lease_owner IS NULL
  NoKid,            \* routing_kid IS NULL
  NoDocument,       \* projection_digest IS NULL
  MaxGeneration,    \* bound: requests accepted in one behaviour
  MaxAttempts,      \* max_attempts of every row (10 in 04.ts:223)
  ClaimLimit        \* requested_limit of every claim

ASSUME BoundsAssumption ==
  /\ MaxGeneration \in Nat
  /\ MaxAttempts \in Nat \ {0}
  /\ ClaimLimit \in Nat \ {0}

ASSUME NullAssumption ==
  /\ NoRelease \notin Releases
  /\ NoOwner \notin Owners
  /\ NoKid \notin Kids

VARIABLES
  desired,      \* desired_generation and desired_current_release_id
  served,       \* served_generation and served_current_release_id
  published,    \* published_at IS NOT NULL, per release
  outbox,       \* the outbox row of every generation
  idempotency,  \* v2_idempotency
  audit         \* v2_audit_events: how often each action was recorded

outboxVars == <<desired, served, published, outbox, idempotency, audit>>

Generations == 1 .. MaxGeneration
Operations == {"PUBLISH", "RESTORE", "UNPUBLISH"}
AuditActions == {"REQUESTED", "APPLIED", "FAILED"}

\* A signed routing document.  Everything else in it is copied from the
\* immutable row of the generation, and Ed25519 is deterministic.
Documents == [generation : Generations, kid : Kids]

Pointers == [generation : Nat, release : Releases \cup {NoRelease}]

Rows ==
  [ state : {"ABSENT", "PENDING", "LEASED", "ACKNOWLEDGED", "FAILED"},
    release : Releases \cup {NoRelease},
    operation : Operations,
    idempotency : IdempotencyIds,
    attempts : 0 .. MaxAttempts,
    version : 0 .. MaxAttempts,
    owner : Owners \cup {NoOwner},
    live : BOOLEAN,
    due : BOOLEAN,
    kid : Kids \cup {NoKid},
    projection : Documents \cup {NoDocument} ]

IdempotencyRecords ==
  [ state : {"IN_PROGRESS", "COMPLETED", "DELETED"},
    operation : Operations,
    expired : BOOLEAN,
    result : {"NONE", "SUCCEEDED", "FAILED"},
    row : Generations \cup {0} ]

Active(g) == outbox[g].state \in {"PENDING", "LEASED"}
Terminal(g) == outbox[g].state \in {"ACKNOWLEDGED", "FAILED"}

-----------------------------------------------------------------------------
(* What the functions check.                                               *)

\* Mutated form: a row stays a candidate after a newer request.
AlwaysDesired(g) == outbox[g].state # "ABSENT"

\* The generation and release columns both equal the application's desired
\* ones; only the newest row can be.
IsDesired(g) ==
  /\ desired.generation = g
  /\ desired.release = outbox[g].release

\* Mutated form: the lease version is not compared.
FencedByName(g, owner, version) ==
  /\ outbox[g].state = "LEASED"
  /\ outbox[g].owner = owner

\* The fence every worker call passes: the row is leased to this very owner at
\* this very version.
Fenced(g, owner, version) ==
  /\ outbox[g].state = "LEASED"
  /\ outbox[g].owner = owner
  /\ outbox[g].version = version

\* v2_renew_publication and v2_assert_publication_projectable succeed.  The
\* renewal moves the expiry of a lease that is still live, which leaves it
\* live, so a renewal is this guard and no state change.
HoldsDesiredLease(g, owner, version) ==
  /\ Fenced(g, owner, version)
  /\ outbox[g].live
  /\ IsDesired(g)

\* Passes 1 and 2 of v2_claim_publications: a due pending row, or a leased row
\* whose lease ran out, that is still desired and has an attempt left.
Claimable(g) ==
  /\ \/ outbox[g].state = "PENDING" /\ outbox[g].due
     \/ outbox[g].state = "LEASED" /\ ~outbox[g].live
  /\ outbox[g].attempts < MaxAttempts
  /\ IsDesired(g)

\* Mutated form: the comparison of pass 3 is off by one.
OverExhausted(g) ==
  /\ outbox[g].state = "LEASED"
  /\ ~outbox[g].live
  /\ outbox[g].attempts > MaxAttempts

\* Pass 3: the lease of the final attempt ran out.
Exhausted(g) ==
  /\ outbox[g].state = "LEASED"
  /\ ~outbox[g].live
  /\ outbox[g].attempts >= MaxAttempts

\* Pass 4: a row that a newer request overtook.
Superseded(g) ==
  /\ \/ outbox[g].state = "PENDING" /\ outbox[g].due
     \/ outbox[g].state = "LEASED" /\ ~outbox[g].live
  /\ outbox[g].attempts < MaxAttempts
  /\ ~IsDesired(g)

-----------------------------------------------------------------------------
(* What the functions write.                                               *)

Leased(row, owner) ==
  [row EXCEPT !.state = "LEASED", !.owner = owner, !.live = TRUE, !.due = FALSE,
              !.attempts = @ + 1, !.version = @ + 1]

Released(row, newState) ==
  [row EXCEPT !.state = newState, !.owner = NoOwner, !.live = FALSE, !.due = FALSE]

\* The idempotency records of the rows that end here.
Completed(rows, result) ==
  [i \in IdempotencyIds |->
     IF \E g \in rows : outbox[g].idempotency = i
     THEN [idempotency[i] EXCEPT !.state = "COMPLETED", !.result = result,
                                 !.row = CHOOSE g \in rows : outbox[g].idempotency = i]
     ELSE idempotency[i]]

\* UPDATE ... WHERE state = 'IN_PROGRESS' must find the record: NOT FOUND raises
\* and the whole transaction, for a claim the whole batch, is rolled back.
Completable(rows) ==
  \A g \in rows : idempotency[outbox[g].idempotency].state = "IN_PROGRESS"

Audited(rows, action) ==
  [g \in Generations |->
     IF g \in rows THEN [audit[g] EXCEPT ![action] = @ + 1] ELSE audit[g]]

-----------------------------------------------------------------------------
(* The functions.                                                          *)

\* Records control inserted before it calls: IN_PROGRESS, unexpired, one scope.
Init ==
  /\ desired = [generation |-> 0, release |-> NoRelease]
  /\ served = [generation |-> 0, release |-> NoRelease]
  /\ published = [r \in Releases |-> FALSE]
  /\ idempotency \in
       [IdempotencyIds ->
          {record \in IdempotencyRecords :
             /\ record.state = "IN_PROGRESS" /\ ~record.expired
             /\ record.result = "NONE" /\ record.row = 0}]
  /\ \E i \in IdempotencyIds :
       outbox = [g \in Generations |->
                   [state |-> "ABSENT", release |-> NoRelease,
                    operation |-> "UNPUBLISH", idempotency |-> i,
                    attempts |-> 0, version |-> 0, owner |-> NoOwner,
                    live |-> FALSE, due |-> FALSE, kid |-> NoKid,
                    projection |-> NoDocument]]
  /\ audit = [g \in Generations |-> [a \in AuditActions |-> 0]]

\* Mutated form: a release can be published for the first time twice.
RequestableAgain(operation, release) ==
  CASE operation = "UNPUBLISH" -> release = NoRelease
    [] operation = "PUBLISH" -> release \in Releases
    [] operation = "RESTORE" -> release \in Releases /\ published[release]

\* The release a request may name: none for UNPUBLISH, a release that was never
\* published for PUBLISH, one that was for RESTORE.
Requestable(operation, release) ==
  CASE operation = "UNPUBLISH" -> release = NoRelease
    [] operation = "PUBLISH" -> release \in Releases /\ ~published[release]
    [] operation = "RESTORE" -> release \in Releases /\ published[release]

\* No row carries this idempotency id; when one does, the request returns that
\* row (or refuses a different request under the same id) and changes nothing.
Unused(i) == \A g \in Generations :
  outbox[g].state # "ABSENT" => outbox[g].idempotency # i

\* v2_request_publication with the INSERT checks of v2_guard_publication_outbox.
\* Authorization is the caller's: a denied request returns NULL.
Request(i, operation, release) ==
  LET g == desired.generation + 1
  IN /\ g \in Generations
     /\ idempotency[i].state = "IN_PROGRESS"
     /\ ~idempotency[i].expired
     /\ idempotency[i].operation = operation
     /\ Unused(i)
     /\ Requestable(operation, release)
     /\ desired' = [generation |-> g, release |-> release]
     /\ outbox' = [outbox EXCEPT ![g] =
                     [@ EXCEPT !.state = "PENDING", !.release = release,
                               !.operation = operation, !.idempotency = i,
                               !.due = TRUE]]
     /\ audit' = Audited({g}, "REQUESTED")
     /\ UNCHANGED <<served, published, idempotency>>

\* v2_claim_publications.  The rows in locked are held by other transactions and
\* SKIP LOCKED passes them over.  Of one application at most one row is desired,
\* so ClaimLimit never cuts passes 1 and 2; pass 3 goes by expiry time, which is
\* any order here, pass 4 by generation.
Claim(owner, locked) ==
  LET open == Generations \ locked
      leased == {g \in open : Claimable(g)}
      overtaken == {g \in open : Superseded(g)}
      spent == {g \in open : Exhausted(g)}
  IN \E exhausted \in SUBSET spent, superseded \in SUBSET overtaken :
       /\ Cardinality(exhausted) = ClaimLimit \/ exhausted = spent
       /\ Cardinality(exhausted) <= ClaimLimit
       /\ Cardinality(superseded) = ClaimLimit \/ superseded = overtaken
       /\ Cardinality(superseded) <= ClaimLimit
       /\ \A g \in superseded, h \in overtaken \ superseded : g < h
       /\ Completable(exhausted \cup superseded)
       /\ outbox' = [g \in Generations |->
                       IF g \in leased THEN Leased(outbox[g], owner)
                       ELSE IF g \in exhausted THEN Released(outbox[g], "FAILED")
                       ELSE IF g \in superseded
                            THEN Released(Leased(outbox[g], owner), "FAILED")
                       ELSE outbox[g]]
       /\ idempotency' = Completed(exhausted \cup superseded, "FAILED")
       /\ audit' = Audited(exhausted \cup superseded, "FAILED")
       /\ UNCHANGED <<desired, served, published>>

\* v2_bind_publication_key; binding the same key again changes nothing, another
\* key is refused.
BindKey(g, owner, version, kid) ==
  /\ Fenced(g, owner, version)
  /\ outbox[g].live
  /\ outbox[g].kid = NoKid
  /\ outbox' = [outbox EXCEPT ![g].kid = kid]
  /\ UNCHANGED <<desired, served, published, idempotency, audit>>

\* Mutated form: the final attempt may be handed back for another.
EndlessRetry(g, owner, version) ==
  /\ Fenced(g, owner, version)
  /\ outbox[g].live
  /\ outbox' = [outbox EXCEPT ![g] = Released(@, "PENDING")]
  /\ UNCHANGED <<desired, served, published, idempotency, audit>>

\* v2_finish_projected_publication_attempt, outcome RETRY: never on the final
\* attempt; the delay is at least one millisecond, so the row is not yet due.
Retry(g, owner, version) ==
  /\ Fenced(g, owner, version)
  /\ outbox[g].live
  /\ outbox[g].attempts < MaxAttempts
  /\ outbox' = [outbox EXCEPT ![g] = Released(@, "PENDING")]
  /\ UNCHANGED <<desired, served, published, idempotency, audit>>

\* Outcome FAILED: also on an expired lease when it was the final attempt's.
Fail(g, owner, version) ==
  /\ Fenced(g, owner, version)
  /\ outbox[g].live \/ outbox[g].attempts >= MaxAttempts
  /\ Completable({g})
  /\ outbox' = [outbox EXCEPT ![g] = Released(@, "FAILED")]
  /\ idempotency' = Completed({g}, "FAILED")
  /\ audit' = Audited({g}, "FAILED")
  /\ UNCHANGED <<desired, served, published>>

\* v2_acknowledge_projected_publication around v2_acknowledge_publication and
\* v2_claim_release_version: served and published move with the row's end.
Acknowledge(g, owner, version, document) ==
  /\ HoldsDesiredLease(g, owner, version)
  /\ outbox[g].kid # NoKid
  /\ Completable({g})
  /\ served' = [generation |-> g, release |-> outbox[g].release]
  /\ published' = [r \in Releases |-> published[r] \/ r = outbox[g].release]
  /\ outbox' = [outbox EXCEPT ![g] =
                  [Released(@, "ACKNOWLEDGED") EXCEPT !.projection = document]]
  /\ idempotency' = Completed({g}, "SUCCEEDED")
  /\ audit' = Audited({g}, "APPLIED")
  /\ UNCHANGED desired

-----------------------------------------------------------------------------
(* The clock, and the housekeeping of idempotency records.                 *)

LeaseExpires(g) ==
  /\ outbox[g].state = "LEASED"
  /\ outbox[g].live
  /\ outbox' = [outbox EXCEPT ![g].live = FALSE]
  /\ UNCHANGED <<desired, served, published, idempotency, audit>>

RetryFallsDue(g) ==
  /\ outbox[g].state = "PENDING"
  /\ ~outbox[g].due
  /\ outbox' = [outbox EXCEPT ![g].due = TRUE]
  /\ UNCHANGED <<desired, served, published, idempotency, audit>>

IdempotencyExpires(i) ==
  /\ idempotency[i].state # "DELETED"
  /\ ~idempotency[i].expired
  /\ idempotency' = [idempotency EXCEPT ![i].expired = TRUE]
  /\ UNCHANGED <<desired, served, published, outbox, audit>>

\* A DELETE that v2_guard_idempotency lets through.
DeleteIdempotency(i) ==
  /\ idempotency[i].state # "DELETED"
  /\ idempotency[i].expired
  /\ \A g \in Generations : Active(g) => outbox[g].idempotency # i
  /\ idempotency' = [idempotency EXCEPT ![i].state = "DELETED"]
  /\ UNCHANGED <<desired, served, published, outbox, audit>>

-----------------------------------------------------------------------------
Control ==
  \E i \in IdempotencyIds, operation \in Operations,
     release \in Releases \cup {NoRelease} : Request(i, operation, release)

\* Any worker may call with any lease it was ever given.
Worker ==
  \E owner \in Owners :
    \/ \E locked \in SUBSET Generations : Claim(owner, locked)
    \/ \E g \in Generations, version \in 1 .. MaxAttempts :
         \/ \E kid \in Kids : BindKey(g, owner, version, kid)
         \/ Retry(g, owner, version)
         \/ Fail(g, owner, version)
         \/ \E kid \in Kids :
              Acknowledge(g, owner, version, [generation |-> g, kid |-> kid])

Environment ==
  \/ \E g \in Generations : LeaseExpires(g) \/ RetryFallsDue(g)
  \/ \E i \in IdempotencyIds : IdempotencyExpires(i) \/ DeleteIdempotency(i)

Next == Control \/ Worker \/ Environment

Spec == Init /\ [][Next]_outboxVars

\* The clock moves, and some worker keeps claiming while the rows are not locked
\* (locks are held for at most statement_timeout).  No worker need succeed.
Fairness ==
  /\ \A g \in Generations :
       WF_outboxVars(LeaseExpires(g)) /\ WF_outboxVars(RetryFallsDue(g))
  /\ WF_outboxVars(\E owner \in Owners : Claim(owner, {}))

FairSpec == Spec /\ Fairness

-----------------------------------------------------------------------------
(* What holds.                                                             *)

\* Every column keeps its type; attempt_count and lease_version stay in range.
TypeOK ==
  /\ desired \in Pointers
  /\ served \in Pointers
  /\ published \in [Releases -> BOOLEAN]
  /\ outbox \in [Generations -> Rows]
  /\ idempotency \in [IdempotencyIds -> IdempotencyRecords]
  /\ audit \in [Generations -> [AuditActions -> Nat]]

\* The served pointer is the newest acknowledged row, whatever was requested,
\* reclaimed or failed since: acknowledgements of different generations, made by
\* different workers, never go backwards (ADR-009 step 3).
ServedIsNewestAcknowledged ==
  /\ served.generation = 0 => served.release = NoRelease
  /\ \A g \in Generations :
       outbox[g].state = "ACKNOWLEDGED" => g <= served.generation
  /\ served.generation # 0 =>
       /\ served.generation \in Generations
       /\ outbox[served.generation].state = "ACKNOWLEDGED"
       /\ outbox[served.generation].release = served.release

\* Row and idempotency record end together: while a row is in progress its record
\* is IN_PROGRESS (so the completion inside an acknowledgement, a failure or a
\* claim batch never raises), afterwards the record, until it is deleted, tells
\* the row's own outcome; and no two rows share a record.
IdempotencyFollowsRow ==
  \A g \in Generations : outbox[g].state # "ABSENT" =>
    LET record == idempotency[outbox[g].idempotency]
    IN /\ Active(g) => record.state = "IN_PROGRESS"
       /\ Terminal(g) =>
            /\ record.state # "IN_PROGRESS"
            /\ record.row = g
            /\ record.result =
                 IF outbox[g].state = "FAILED" THEN "FAILED" ELSE "SUCCEEDED"
       /\ \A h \in Generations \ {g} : outbox[h].state # "ABSENT" =>
            outbox[h].idempotency # outbox[g].idempotency

\* One request event per row, and exactly one final event exactly when the row is
\* terminal: no retry, reclaim or claim sweep records an outcome twice.
AuditTellsEveryOutcomeOnce ==
  \A g \in Generations :
    /\ audit[g]["REQUESTED"] = IF outbox[g].state = "ABSENT" THEN 0 ELSE 1
    /\ audit[g]["APPLIED"] = IF outbox[g].state = "ACKNOWLEDGED" THEN 1 ELSE 0
    /\ audit[g]["FAILED"] = IF outbox[g].state = "FAILED" THEN 1 ELSE 0

\* No row is left where no pass of the claim can reach it: once the clock has run
\* its lease or its delay out, a row in progress is claimable, exhausted or
\* superseded, and nothing blocks the completion of its idempotency record.
NoStrandedRow ==
  \A g \in Generations :
    ( \/ outbox[g].state = "PENDING" /\ outbox[g].due
      \/ outbox[g].state = "LEASED" /\ ~outbox[g].live )
    => /\ Claimable(g) \/ Exhausted(g) \/ Superseded(g)
       /\ Completable({g})

\* A release is first published once: the PUBLISH that succeeded is unique, every
\* RESTORE of the release comes after it, and published_at is set exactly then,
\* however many PUBLISH requests for the release were made meanwhile.
PublishedOnce ==
  \A r \in Releases :
    LET firsts == {g \in Generations : /\ outbox[g].state = "ACKNOWLEDGED"
                                       /\ outbox[g].operation = "PUBLISH"
                                       /\ outbox[g].release = r}
    IN /\ published[r] <=> firsts # {}
       /\ \A g, h \in firsts : g = h
       /\ \A h \in Generations :
            outbox[h].state # "ABSENT" /\ outbox[h].operation = "RESTORE"
            /\ outbox[h].release = r => \E g \in firsts : g < h

\* Rows, pointers, records, events and releases tell one story of every request,
\* whichever workers were given leases for it and whatever they still send.
OutboxConsistent ==
  /\ ServedIsNewestAcknowledged
  /\ IdempotencyFollowsRow
  /\ AuditTellsEveryOutcomeOnce
  /\ PublishedOnce

\* Every accepted request reaches a final state, even if every worker that takes
\* it dies, as long as someone keeps claiming.
RequestsTerminate ==
  \A g \in Generations : Active(g) ~> Terminal(g)

=============================================================================
