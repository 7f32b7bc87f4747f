---------------------------- MODULE RoutingKeys ----------------------------
(***************************************************************************)
(* The life of a routing key: documents are signed by the workers with the *)
(* keys they were started with, and verified by workers, content processes *)
(* and the reconciler with theirs, while an operator replaces a key by     *)
(* starting one process after the other with the next keyring.             *)
(*                                                                         *)
(* The code refuses keyrings that cannot work and answers whether a key is *)
(* still referenced; the order of the rollout is the operator's.  Assumed  *)
(* is an operator who gives a key to a worker, as its active key or to     *)
(* overlap, only when everybody who just verifies accepts it (a worker     *)
(* whose active key ran out signs with one that overlaps), and who takes a *)
(* key away only when the query for it came back empty: from the workers   *)
(* first, and from the others when it was asked again after that.          *)
(*                                                                         *)
(* Leases, attempts and late PUTs are those of PublicationPipeline: here a *)
(* lease is held or lost, and a conditional PUT is served or not.  An      *)
(* instant is a number, and a document holds after its key ran out as long *)
(* as it was issued before.                                                *)
(***************************************************************************)
EXTENDS Integers, FiniteSets, Sequences, SequencesExt

CONSTANTS
  Kids,             \* key identities: numbers, for the order they are sorted in
  NotBefore, NotAfter, \* validity window of every key
  Rollout,          \* the keyrings that replace each other, a sequence
  Workers,          \* processes with a V2RoutingSigner
  Verifiers,        \* processes with a V2RoutingVerifier only
  Targets,          \* what a request may ask for: releases, and NoRelease for none
  NoRelease, Hosts, NoKid, Nothing,
  MaxGeneration,    \* bound of the model: requests
  LastInstant,          \* bound of the model: instants
  Versioned         \* whether the bucket keeps versions

ASSUME KidsAreOrdered == Kids \subseteq Nat /\ NoKid \notin Kids

ASSUME ProcessesDiffer == Workers \cap Verifiers = {}

ASSUME KeysBoundsAssumption == MaxGeneration \in Nat /\ LastInstant \in Nat

Statuses == {"ABSENT", "ACTIVE", "OVERLAP", "RETIRED", "REVOKED"}
Keyrings == [Kids -> Statuses]
Accepted == {"ACTIVE", "OVERLAP"}

\* validateVerificationKeys, then the signer wants exactly one active key; the
\* verifier would be content with several.
SignerStarts(ring) == Cardinality({k \in Kids : ring[k] = "ACTIVE"}) = 1
VerifierStarts(ring) == \E k \in Kids : ring[k] = "ACTIVE"

ASSUME RolloutStarts ==
  /\ NotBefore \in [Kids -> Int] /\ NotAfter \in [Kids -> Int]
  /\ \A k \in Kids : NotBefore[k] < NotAfter[k]
  /\ Rollout \in Seq(Keyrings) /\ Rollout # <<>>
  /\ \A n \in DOMAIN Rollout : SignerStarts(Rollout[n])

Generations == 1 .. MaxGeneration
Instants == 0 .. LastInstant
Processes == Workers \cup Verifiers

VARIABLES
  clock,       \* the database clock
  rows,      \* v2_publication_outbox of one application, in order of generation
  acknowledged, \* served_generation
  objects,   \* v2/routing/<id>/generations/<g>.json
  pointers,  \* the versions of v2/routing/<id>/current.json, the last one shown
  stage,     \* the keyring of the rollout every process was started with
  cleared,   \* what the operator knows of a key from assertKeyRetirable
  applying   \* the apply() call of every worker

bucketOfKeys == <<objects, pointers>>
keysVars == <<clock, rows, acknowledged, bucketOfKeys, stage, cleared, applying>>

Documents ==
  [ generation : Generations, release : Targets, host : Hosts,
    issuedAt : Instants, kid : Kids ]

ASSUME NothingIsNoDocument == Nothing \notin Documents

Shown == IF pointers = <<>> THEN Nothing ELSE Last(pointers)
ShownVersion == IF Versioned THEN Len(pointers) ELSE 0

Rows ==
  [ createdAt : Instants, release : Targets, host : Hosts,
    kid : Kids \cup {NoKid}, state : {"PENDING", "LEASED", "ACKNOWLEDGED", "FAILED"},
    by : SUBSET Workers, projection : Documents \cup {Nothing}, version : Nat ]

\* v2_applications.desired_generation.
Requested == Len(rows)

NotApplying == [step |-> "idle", generation |-> 0, prior |-> Nothing]

Ring(p) == Rollout[stage[p]]

KeysInit ==
  /\ clock = 0
  /\ rows = <<>> /\ acknowledged = 0
  /\ objects = [g \in Generations |-> Nothing]
  /\ pointers = <<>>
  /\ stage = [p \in Processes |-> 1]
  /\ cleared = [k \in Kids |-> {}]
  /\ applying = [w \in Workers |-> NotApplying]

-----------------------------------------------------------------------------
(* Signing and verifying.                                                  *)

ValidAt(kid, instant) == NotBefore[kid] <= instant /\ instant < NotAfter[kid]

\* The keys of a process that may sign or have signed what was issued then.
UsableKeys(p, instant) == {k \in Kids : Ring(p)[k] \in Accepted /\ ValidAt(k, instant)}

\* The active key comes first, then the one that became valid last, then the
\* smaller identity.
SortsBefore(ring, k, l) ==
  IF ring[k] # ring[l] THEN ring[k] = "ACTIVE"
  ELSE \/ NotBefore[k] > NotBefore[l]
       \/ NotBefore[k] = NotBefore[l] /\ k < l

KidForIssueTime(p, instant) ==
  CHOOSE k \in UsableKeys(p, instant) :
    \A l \in UsableKeys(p, instant) \ {k} : SortsBefore(Ring(p), k, l)

DocumentFor(g) ==
  [generation |-> g, release |-> rows[g].release, host |-> rows[g].host,
   issuedAt |-> rows[g].createdAt, kid |-> rows[g].kid]

\* V2RoutingSigner.sign refuses a key that is gone or was not valid then.
Signs(w, g) == rows[g].kid \in UsableKeys(w, rows[g].createdAt)

\* V2RoutingVerifier.verify; the identities other than the host and the signature
\* are right in every document that a worker signed.
Verifies(p, document, host) ==
  /\ document.kid \in UsableKeys(p, document.issuedAt)
  /\ document.host = host

-----------------------------------------------------------------------------
(* Requests and the rows of the outbox.                                    *)

ClockTicks == clock < LastInstant /\ clock' = clock + 1
        /\ UNCHANGED <<rows, acknowledged, bucketOfKeys, stage, cleared, applying>>

\* v2_request_publication; the caller names the host.
RequestPublication ==
  /\ Requested < MaxGeneration
  /\ \E release \in Targets, host \in Hosts :
       rows' = Append(rows,
         [createdAt |-> clock, release |-> release, host |-> host, kid |-> NoKid,
          state |-> "PENDING", by |-> {}, projection |-> Nothing, version |-> 0])
  /\ UNCHANGED <<clock, acknowledged, bucketOfKeys, stage, cleared, applying>>

\* What the checkpoint asks of worker w: its lease holds, the row is the newest.
HoldsRow(w) ==
  LET g == applying[w].generation
  IN g = Requested /\ rows[g].state = "LEASED" /\ w \in rows[g].by

At(w, step) == applying[w].step = step
GoOn(w, step) ==
  applying' = [applying EXCEPT ![w].step = step,
                               ![w].prior = IF step = "put" THEN Shown ELSE Nothing]

\* The key that was bound first, or the one bound now; NoKid: apply throws.
KidFor(w, g) ==
  IF rows[g].kid # NoKid THEN rows[g].kid
  ELSE IF UsableKeys(w, rows[g].createdAt) = {} THEN NoKid
  ELSE KidForIssueTime(w, rows[g].createdAt)

\* claimDue takes the newest row and ends the ones it overtook; apply binds a key
\* at once.
ClaimRow(w) ==
  /\ At(w, "idle")
  /\ Requested > 0 /\ rows[Requested].state = "PENDING"
  /\ rows' = [g \in DOMAIN rows |->
       IF g = Requested
       THEN [rows[g] EXCEPT !.state = "LEASED", !.by = {w}, !.kid = KidFor(w, g)]
       ELSE IF rows[g].state \in {"PENDING", "LEASED"}
            THEN [rows[g] EXCEPT !.state = "FAILED", !.by = {}]
            ELSE rows[g]]
  /\ applying' = [applying EXCEPT ![w] =
       [NotApplying EXCEPT !.step = "write", !.generation = Requested]]
  /\ UNCHANGED <<clock, acknowledged, bucketOfKeys, stage, cleared>>

\* The document is signed, verified and written once; an object that is there
\* already must have the same bytes.
WriteGeneration(w) ==
  LET g == applying[w].generation
  IN /\ At(w, "write") /\ HoldsRow(w)
     /\ Signs(w, g) /\ Verifies(w, DocumentFor(g), rows[g].host)
     /\ objects[g] \in {Nothing, DocumentFor(g)}
     /\ objects' = [objects EXCEPT ![g] = DocumentFor(g)]
     /\ GoOn(w, "read")
     /\ UNCHANGED <<clock, rows, acknowledged, pointers, stage, cleared>>

\* The prior pointer is verified against the host of the new row.
ReadPointer(w) ==
  LET g == applying[w].generation
      prior == Shown
  IN /\ At(w, "read") /\ HoldsRow(w)
     /\ prior # Nothing => Verifies(w, prior, rows[g].host) /\ prior.generation <= g
     /\ GoOn(w, IF prior = DocumentFor(g) THEN "acknowledge" ELSE "put")
     /\ UNCHANGED <<clock, rows, acknowledged, bucketOfKeys, stage, cleared>>

\* The conditional PUT is served when the pointer is still the one read, and sends
\* the loop round again when it is not.  The lease may have run out on the way.
PutPointer(w) ==
  LET g == applying[w].generation
  IN /\ At(w, "put")
     /\ IF Shown = applying[w].prior
        THEN pointers' = Append(pointers, DocumentFor(g)) /\ GoOn(w, "acknowledge")
        ELSE UNCHANGED pointers /\ GoOn(w, "read")
     /\ UNCHANGED <<clock, rows, acknowledged, objects, stage, cleared>>

\* The read-back, with its ETag and version, and the acknowledgement; that nothing
\* comes between the two is AcknowledgedWhileCurrent of PublicationPipeline.
AcknowledgeRow(w) ==
  LET g == applying[w].generation
  IN /\ At(w, "acknowledge") /\ HoldsRow(w)
     /\ Shown = DocumentFor(g)
     /\ rows' = [rows EXCEPT ![g].state = "ACKNOWLEDGED", ![g].by = {},
                             ![g].projection = Shown, ![g].version = ShownVersion]
     /\ acknowledged' = g
     /\ applying' = [applying EXCEPT ![w] = NotApplying]
     /\ UNCHANGED <<clock, bucketOfKeys, stage, cleared>>

\* apply throws, or its process dies.
LetGo(w) ==
  /\ ~At(w, "idle")
  /\ applying' = [applying EXCEPT ![w] = NotApplying]
  /\ UNCHANGED <<clock, rows, acknowledged, bucketOfKeys, stage, cleared>>

\* The lease is given back or runs out, be its worker busy or gone: the row waits
\* again, or its attempts are used up.
RowLeaseEnds ==
  /\ \E g \in DOMAIN rows, state \in {"PENDING", "FAILED"} :
       /\ rows[g].state = "LEASED"
       /\ rows' = [rows EXCEPT ![g].state = state, ![g].by = {}]
  /\ UNCHANGED <<clock, acknowledged, bucketOfKeys, stage, cleared, applying>>

-----------------------------------------------------------------------------
(* The operator.                                                           *)

InProgress(g) == rows[g].state \in {"PENDING", "LEASED"}

\* Mutated form: a key no row in progress is bound to may go.
UnboundIsRetirable(kid) ==
  {g \in DOMAIN rows : rows[g].kid = kid /\ InProgress(g)} = {}

\* assertKeyRetirable counts rows in progress and the served one, if acknowledged.
Retirable(kid) ==
  {g \in DOMAIN rows :
     /\ rows[g].kid = kid
     /\ InProgress(g) \/ (rows[g].state = "ACKNOWLEDGED" /\ acknowledged = g)} = {}

Signing(kid) == {w \in Workers : Ring(w)[kid] \in Accepted}

\* The query says nothing of what comes after it: remembered is which workers
\* could still sign with the key when it was asked.
AssertKeyRetirable(kid) ==
  /\ Retirable(kid)
  /\ cleared' = [cleared EXCEPT ![kid] = IF Signing(kid) = {} THEN {"sign", "verify"}
                                         ELSE {"sign"}]
  /\ UNCHANGED <<clock, rows, acknowledged, bucketOfKeys, stage, applying>>

\* What the operator observes before process p gets the next keyring.
MayFollow(p, next) ==
  \A k \in Kids :
    /\ p \in Workers /\ next[k] \in Accepted =>
         \A v \in Verifiers : Ring(v)[k] \in Accepted
    /\ Ring(p)[k] \in Accepted /\ next[k] \notin Accepted =>
         (IF p \in Workers THEN "sign" ELSE "verify") \in cleared[k]

\* The keys that next lets worker p sign with again, or for the first time.
TakenUp(p, next) ==
  {k \in Kids : p \in Workers /\ Ring(p)[k] \notin Accepted /\ next[k] \in Accepted}

\* A process is restarted with the next keyring; a call of a worker is lost.  Of a key
\* that a worker takes up the operator knows nothing any more.
StartWithNext(p) ==
  /\ stage[p] < Len(Rollout)
  /\ LET next == Rollout[stage[p] + 1]
     IN /\ IF p \in Workers THEN SignerStarts(next) ELSE VerifierStarts(next)
        /\ MayFollow(p, next)
        /\ cleared' = [k \in Kids |-> IF k \in TakenUp(p, next) THEN {} ELSE cleared[k]]
  /\ stage' = [stage EXCEPT ![p] = @ + 1]
  /\ applying' = IF p \in Workers THEN [applying EXCEPT ![p] = NotApplying] ELSE applying
  /\ UNCHANGED <<clock, rows, acknowledged, bucketOfKeys>>

Apply(w) ==
  \/ ClaimRow(w) \/ WriteGeneration(w) \/ ReadPointer(w)
  \/ PutPointer(w) \/ AcknowledgeRow(w) \/ LetGo(w)

KeysNext ==
  \/ ClockTicks \/ RequestPublication \/ RowLeaseEnds
  \/ \E w \in Workers : Apply(w)
  \/ \E k \in Kids : AssertKeyRetirable(k)
  \/ \E p \in Processes : StartWithNext(p)

KeysSpec == KeysInit /\ [][KeysNext]_keysVars

-----------------------------------------------------------------------------
\* Types, and every pointer is a copy of the object of its generation.
KeysTypeOK ==
  /\ clock \in Instants
  /\ Requested <= MaxGeneration /\ acknowledged \in 0 .. Requested
  /\ \A g \in DOMAIN rows : rows[g] \in Rows
  /\ \A g \in Generations : objects[g] \in Documents \cup {Nothing}
  /\ \A n \in DOMAIN pointers :
       pointers[n] \in Documents /\ pointers[n] = objects[pointers[n].generation]
  /\ stage \in [Processes -> DOMAIN Rollout]

\* What content is to show can be verified by every process that verifies, all
\* through the replacement of a key: no process is left with a pointer it rejects,
\* and the last known good document of the processes that run already is no better
\* than what a new process gets.  Left out is a pointer whose row failed after the
\* pointer had moved: assertKeyRetirable does not count it.
ShownDocumentVerifies ==
  Shown # Nothing /\ rows[Shown.generation].state # "FAILED" =>
    \A p \in Verifiers : Verifies(p, Shown, Shown.host)

\* The host of the first projection is the host for good: a request may name an
\* other one, but its worker rejects the pointer it should replace, whoever wrote
\* the pointer and however the two overlapped.
PointerKeepsItsHost ==
  \A m, n \in DOMAIN pointers : pointers[m].host = pointers[n].host

\* Nobody who has to read the pointer is ever left with one it must reject.
PointerIsAccepted == ShownDocumentVerifies /\ PointerKeepsItsHost

=============================================================================
