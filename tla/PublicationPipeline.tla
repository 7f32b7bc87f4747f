------------------------ MODULE PublicationPipeline ------------------------
(***************************************************************************)
(* Publication from the request to the routing pointer: the database of    *)
(* PublicationOutbox, the routing objects of the bucket, and the worker    *)
(* processes that run V2PublicationWorker.apply between the two.           *)
(*                                                                         *)
(* A conditional PUT is a message: the bucket may serve it late, more than *)
(* once (the S3 client resends a request whose answer was lost), after its *)
(* sender timed out or crashed, or never.  Its condition is evaluated when *)
(* it is served.  Reads are atomic and strongly consistent.  A worker may  *)
(* crash or throw at any step; the loop that calls claimDue, apply, retry  *)
(* and fail is not in the repository and is modelled as free to do any of  *)
(* them.  The idempotency clock is left to PublicationOutbox: no worker    *)
(* step reads it.                                                          *)
(***************************************************************************)
EXTENDS PublicationOutbox

CONSTANTS
  Workers,  \* the worker processes
  OwnerOf   \* the name each of them claims with; a restarted one may use that
            \* of one that is not dead yet

ASSUME OwnersAssumption == OwnerOf \in [Workers -> Owners]

\* A key of the bucket that is not there is no document.
ASSUME DocumentAssumption == NoDocument \notin Documents

VARIABLES
  generationObject,  \* v2/routing/<id>/generations/<g>.json
  currentObject,     \* v2/routing/<id>/current.json; the ETag is its content
  inflight,          \* conditional PUTs sent and not answered
  worker             \* the apply() call of every worker process

storeVars == <<generationObject, currentObject, inflight>>
pipelineVars == <<outboxVars, storeVars, worker>>

\* V2RoutingProjector.project gives up after this many conditional PUTs.
ProjectAttempts == 3

PutRequests ==
  [ key : {"generation", "current"}, body : Documents,
    ifMatch : Documents \cup {NoDocument}, from : Workers ]

Steps == {"idle", "bindKey", "putGeneration", "awaitGeneration", "getGeneration",
          "getCurrent", "putCurrent", "awaitCurrent", "readBack", "acknowledge",
          "failed"}

\* The steps that a checkpoint (renew, then assertProjectable) comes before.
Checkpointed == {"putGeneration", "getGeneration", "getCurrent", "putCurrent",
                 "readBack", "acknowledge"}

WorkerStates ==
  [ step : Steps,
    generation : Generations \cup {0},
    version : 0 .. MaxAttempts,
    kid : Kids \cup {NoKid},
    armed : BOOLEAN,                         \* the checkpoint was passed
    attempt : 0 .. ProjectAttempts - 1,      \* the loop counter of project
    seen : Documents \cup {NoDocument} ]     \* current.json as last read

Idle == [step |-> "idle", generation |-> 0, version |-> 0, kid |-> NoKid,
         armed |-> FALSE, attempt |-> 0, seen |-> NoDocument]

GenerationOf(document) == IF document = NoDocument THEN 0 ELSE document.generation

\* What documentFor signs for the lease of w.
Document(w) == [generation |-> worker[w].generation, kid |-> worker[w].kid]

\* Control moves on; locals that no later step reads are forgotten.
Goto(w, step) ==
  worker' = [worker EXCEPT
    ![w].step = step,
    ![w].armed = FALSE,
    ![w].kid = IF step = "failed" THEN NoKid ELSE @,
    ![w].attempt = IF step \in {"getCurrent", "putCurrent", "awaitCurrent"} THEN @ ELSE 0,
    ![w].seen = IF step = "awaitCurrent" THEN @ ELSE NoDocument]

PipelineInit ==
  /\ Init
  /\ generationObject = [g \in Generations |-> NoDocument]
  /\ currentObject = NoDocument
  /\ inflight = {}
  /\ worker = [w \in Workers |-> Idle]

-----------------------------------------------------------------------------
(* The bucket.                                                             *)

Stored(key, g) == IF key = "current" THEN currentObject ELSE generationObject[g]

\* Mutated form: the pointer is overwritten unconditionally.
AcceptsAnyPointer(put) ==
  put.key = "generation" => generationObject[put.body.generation] = NoDocument

\* If-None-Match: * wants no object, If-Match wants the one that was read.
Accepts(put) == Stored(put.key, put.body.generation) = put.ifMatch

Serve(put) ==
  IF Accepts(put)
  THEN /\ currentObject' = IF put.key = "current" THEN put.body ELSE currentObject
       /\ generationObject' =
            IF put.key = "generation"
            THEN [generationObject EXCEPT ![put.body.generation] = put.body]
            ELSE generationObject
  ELSE UNCHANGED <<currentObject, generationObject>>

\* The PUT worker w sends at its step.
PutOf(w, key) ==
  [key |-> key, body |-> Document(w), from |-> w,
   ifMatch |-> IF key = "current" THEN worker[w].seen ELSE NoDocument]

Awaiting(w, put) ==
  \/ worker[w].step = "awaitGeneration" /\ put = PutOf(w, "generation")
  \/ worker[w].step = "awaitCurrent" /\ put = PutOf(w, "current")

\* The bucket serves a PUT and the answer is lost: the client resends the same
\* request, or has stopped waiting for it.
ServeUnanswered(put) ==
  /\ Serve(put)
  /\ UNCHANGED <<inflight, outboxVars, worker>>

\* A PUT that nobody waits for any more is gone for good.
DropPut(put) ==
  /\ ~Awaiting(put.from, put)
  /\ inflight' = inflight \ {put}
  /\ UNCHANGED <<generationObject, currentObject, outboxVars, worker>>

-----------------------------------------------------------------------------
(* V2PublicationWorker.apply and V2RoutingProjector.project.               *)

\* claimDue with limit 1; the lease, if there is one, is applied at once.
ClaimDue(w) ==
  /\ worker[w].step = "idle"
  /\ \E locked \in SUBSET Generations : Claim(OwnerOf[w], locked)
  /\ LET mine == {g \in Generations : /\ outbox'[g].state = "LEASED"
                                      /\ outbox'[g].version # outbox[g].version}
     IN IF mine = {} THEN UNCHANGED worker
        ELSE \E g \in mine :
               worker' = [worker EXCEPT ![w] =
                 [Idle EXCEPT !.generation = g, !.version = outbox'[g].version,
                              !.kid = outbox'[g].kid,
                              !.step = IF outbox'[g].kid = NoKid
                                       THEN "bindKey" ELSE "putGeneration"]]
  /\ UNCHANGED storeVars

\* kidForIssueTime: which key depends on the keys this process was started with.
BindRoutingKey(w) ==
  /\ worker[w].step = "bindKey"
  /\ \E kid \in Kids :
       /\ BindKey(worker[w].generation, OwnerOf[w], worker[w].version, kid)
       /\ worker' = [worker EXCEPT ![w].kid = kid, ![w].step = "putGeneration"]
  /\ UNCHANGED storeVars

\* The checkpoint closure.  project runs it before and after every S3 call; two
\* in a row with nothing in between are one here, and the read of the immutable
\* release manifest between the first two, which changes nothing, is left out.
Checkpoint(w) ==
  /\ worker[w].step \in Checkpointed
  /\ ~worker[w].armed
  /\ HoldsDesiredLease(worker[w].generation, OwnerOf[w], worker[w].version)
  /\ worker' = [worker EXCEPT ![w].armed = TRUE]
  /\ UNCHANGED <<outboxVars, storeVars>>

SendPut(w, key, from, to) ==
  /\ worker[w].step = from
  /\ worker[w].armed
  /\ inflight' = inflight \cup {PutOf(w, key)}
  /\ Goto(w, to)
  /\ UNCHANGED <<generationObject, currentObject, outboxVars>>

\* Mutated form: the generation object is neither awaited nor read back.
PutGenerationUnawaited(w) == SendPut(w, "generation", "putGeneration", "getCurrent")

PutGeneration(w) == SendPut(w, "generation", "putGeneration", "awaitGeneration")

PutCurrent(w) == SendPut(w, "current", "putCurrent", "awaitCurrent")

\* The generation object is create-only, and a 412 is no error.
GenerationPutAnswered(w) ==
  LET put == PutOf(w, "generation")
  IN /\ worker[w].step = "awaitGeneration"
     /\ Serve(put)
     /\ inflight' = inflight \ {put}
     /\ Goto(w, "getGeneration")
     /\ UNCHANGED outboxVars

\* The object at this generation must be, byte for byte, the one of this lease.
GetGeneration(w) ==
  /\ worker[w].step = "getGeneration"
  /\ worker[w].armed
  /\ Goto(w, IF generationObject[worker[w].generation] = Document(w)
             THEN "getCurrent" ELSE "failed")
  /\ UNCHANGED <<outboxVars, storeVars>>

\* A newer pointer is a conflict, the same generation is done when the bytes are
\* the same and a conflict otherwise, and anything older is to be replaced.
GetCurrent(w) ==
  LET step == IF GenerationOf(currentObject) > worker[w].generation THEN "failed"
              ELSE IF currentObject = Document(w) THEN "acknowledge"
              ELSE IF GenerationOf(currentObject) = worker[w].generation THEN "failed"
              ELSE "putCurrent"
  IN /\ worker[w].step = "getCurrent"
     /\ worker[w].armed
     /\ IF step = "putCurrent"
        THEN worker' = [worker EXCEPT ![w].step = step, ![w].armed = FALSE,
                                      ![w].seen = currentObject]
        ELSE Goto(w, step)
     /\ UNCHANGED <<outboxVars, storeVars>>

\* Mutated form: any 412 is a conflict, the answer to a resent PUT too.
CurrentPutAnsweredOnce(w) ==
  LET put == PutOf(w, "current")
  IN /\ worker[w].step = "awaitCurrent"
     /\ Serve(put)
     /\ inflight' = inflight \ {put}
     /\ Goto(w, IF Accepts(put) THEN "readBack" ELSE "failed")
     /\ UNCHANGED outboxVars

\* A 412 goes round the loop, the third one is a conflict.
CurrentPutAnswered(w) ==
  LET put == PutOf(w, "current")
  IN /\ worker[w].step = "awaitCurrent"
     /\ Serve(put)
     /\ inflight' = inflight \ {put}
     /\ IF Accepts(put) THEN Goto(w, "readBack")
        ELSE IF worker[w].attempt = ProjectAttempts - 1 THEN Goto(w, "failed")
        ELSE worker' = [worker EXCEPT ![w].step = "getCurrent", ![w].armed = FALSE,
                                      ![w].attempt = @ + 1, ![w].seen = NoDocument]
     /\ UNCHANGED outboxVars

ReadBack(w) ==
  /\ worker[w].step = "readBack"
  /\ worker[w].armed
  /\ Goto(w, IF currentObject = Document(w) THEN "acknowledge" ELSE "failed")
  /\ UNCHANGED <<outboxVars, storeVars>>

\* The acknowledgement commits; apply returns, or its answer is lost and it throws.
AcknowledgeProjection(w) ==
  /\ worker[w].step = "acknowledge"
  /\ worker[w].armed
  /\ Acknowledge(worker[w].generation, OwnerOf[w], worker[w].version, Document(w))
  /\ \/ worker' = [worker EXCEPT ![w] = Idle]
     \/ Goto(w, "failed")
  /\ UNCHANGED storeVars

\* apply throws: a lost lease, a failed or timed out call.
Throw(w) ==
  /\ worker[w].step \notin {"idle", "failed"}
  /\ Goto(w, "failed")
  /\ UNCHANGED <<outboxVars, storeVars>>

\* The caller of apply gives the lease back.
HandBack(w) ==
  /\ worker[w].step = "failed"
  /\ \/ Retry(worker[w].generation, OwnerOf[w], worker[w].version)
     \/ Fail(worker[w].generation, OwnerOf[w], worker[w].version)
  /\ worker' = [worker EXCEPT ![w] = Idle]
  /\ UNCHANGED storeVars

\* The process dies, or the caller of apply leaves the lease to run out.
Crash(w) ==
  /\ worker[w].step # "idle"
  /\ worker' = [worker EXCEPT ![w] = Idle]
  /\ UNCHANGED <<outboxVars, storeVars>>

-----------------------------------------------------------------------------
WorkerStep(w) ==
  \/ BindRoutingKey(w) \/ Checkpoint(w) \/ PutGeneration(w)
  \/ GenerationPutAnswered(w) \/ GetGeneration(w) \/ GetCurrent(w)
  \/ PutCurrent(w) \/ CurrentPutAnswered(w) \/ ReadBack(w)
  \/ AcknowledgeProjection(w)

Bucket == \E put \in inflight : ServeUnanswered(put) \/ DropPut(put)

PublicationClock ==
  /\ \E g \in Generations : LeaseExpires(g) \/ RetryFallsDue(g)
  /\ UNCHANGED <<storeVars, worker>>

PipelineNext ==
  \/ Control /\ UNCHANGED <<storeVars, worker>>
  \/ \E w \in Workers : ClaimDue(w) \/ WorkerStep(w) \/ Throw(w)
                         \/ HandBack(w) \/ Crash(w)
  \/ Bucket
  \/ PublicationClock

PipelineSpec == PipelineInit /\ [][PipelineNext]_pipelineVars

\* The system on a good day: nobody crashes or hands a lease back, a worker
\* throws and a lease runs out only after a newer request.  Late, resent and
\* unanswered PUTs stay.
Overtaken(w) ==
  worker[w].generation # 0 /\ worker[w].generation < desired.generation

HealthyNext ==
  \/ Control /\ UNCHANGED <<storeVars, worker>>
  \/ \E w \in Workers :
       \/ ClaimDue(w) \/ WorkerStep(w)
       \/ Overtaken(w) /\ (Throw(w) \/ Crash(w))
  \/ Bucket
  \/ /\ \E g \in Generations : ~IsDesired(g) /\ LeaseExpires(g)
     /\ UNCHANGED <<storeVars, worker>>

HealthyFairness ==
  \A w \in Workers :
    /\ WF_pipelineVars(ClaimDue(w) /\ outbox' # outbox)
    /\ WF_pipelineVars(WorkerStep(w))
    /\ WF_pipelineVars(Overtaken(w) /\ (Throw(w) \/ Crash(w)))

-----------------------------------------------------------------------------
(* What holds.                                                             *)

\* Objects, messages and worker states keep their types, and the database its.
PipelineTypeOK ==
  /\ TypeOK
  /\ generationObject \in [Generations -> Documents \cup {NoDocument}]
  /\ currentObject \in Documents \cup {NoDocument}
  /\ inflight \subseteq PutRequests
  /\ worker \in [Workers -> WorkerStates]

\* The pointer never goes back and is never rewritten at the generation it shows,
\* though stale workers, resent requests and requests of dead workers are served
\* at any time (PROJ-02).
PointerOnlyAdvances ==
  [][currentObject' # currentObject =>
       GenerationOf(currentObject') > GenerationOf(currentObject)]_pipelineVars

\* The database never claims to serve more than the pointer shows, and the pointer
\* never shows what nobody requested.
ServedBehindPointer ==
  /\ served.generation <= GenerationOf(currentObject)
  /\ GenerationOf(currentObject) <= desired.generation

\* At the moment a generation is acknowledged the pointer still shows exactly the
\* document that the row records: nothing replaced it between the read-back and
\* the transaction (ADR-009 step 3).
AcknowledgedWhileCurrent ==
  [][served' # served =>
       /\ currentObject = outbox'[served'.generation].projection
       /\ GenerationOf(currentObject) = served'.generation]_pipelineVars

\* The pointer always equals the immutable object of its generation, signed with
\* the key the row is bound to; V2ContentRoutingCache rejects anything else.
PointerMatchesGeneration ==
  currentObject # NoDocument =>
    /\ generationObject[currentObject.generation] = currentObject
    /\ outbox[currentObject.generation].kid = currentObject.kid

\* While a lease is live, the row changes only by a step of the worker it was
\* given to, at this very version, though another worker may go by the same name
\* (JOB-01): not by a stale worker, another claim, nor a sweep.
LiveLeaseIsExclusive ==
  [][\A g \in Generations :
       outbox[g].state = "LEASED" /\ outbox[g].live /\ outbox'[g] # outbox[g] =>
         \/ outbox'[g] = [outbox[g] EXCEPT !.live = FALSE]
         \/ \E w \in Workers :
              /\ OwnerOf[w] = outbox[g].owner
              /\ worker[w].generation = g /\ worker[w].version = outbox[g].version
              /\ worker'[w] # worker[w]]_pipelineVars

Register == INSTANCE RoutingRegister WITH
  desired <- desired.generation,
  current <- GenerationOf(currentObject),
  served <- served.generation

\* The workers, the bucket and the outbox together keep the promise of a register: the
\* pointer moves forward to what is desired, and what is served was pointed to.
ImplementsRegister == Register!Spec

\* What holds of bucket and database together in every state.
PipelineInv == PipelineTypeOK /\ ServedBehindPointer /\ PointerMatchesGeneration

\* The pointer leads and the database follows: it moves forward only, and is what is
\* acknowledged at the moment it is.
PointerLeads == PointerOnlyAdvances /\ AcknowledgedWhileCurrent

\* A worker that is left alone publishes what it claimed: resent PUTs that find
\* their own object, PUTs of stale workers and the three rounds of the loop never
\* make a healthy worker give up on the newest request.
HealthyRequestIsServed ==
  \A g \in Generations :
    Active(g) ~> (outbox[g].state = "ACKNOWLEDGED" \/ desired.generation > g)

-----------------------------------------------------------------------------
(* What the documents say and the code does not do.                        *)

\* "read-back/digest failure leaves operation pending/failed and content on
\* last-known-good generation" (PROJ-03): the pointer of a failed operation does
\* not show it.
FailedIsNotShown ==
  currentObject # NoDocument => outbox[currentObject.generation].state # "FAILED"

=============================================================================
