----------------------------- MODULE MCProgress -----------------------------
(***************************************************************************)
(* What must happen in the end: TLC instances of PublicationOutbox, of     *)
(* PublicationPipeline with healthy workers, and of Server.  They are      *)
(* explored one at a time, with the others at rest: workers that have      *)
(* given up, an outbox that was asked for nothing, processes that listen.  *)
(***************************************************************************)
EXTENDS MCPublicationPipeline, Server

VARIABLE part

progressVars == <<part, pipelineVars, serverVars>>

BucketRests ==
  /\ generationObject = [g \in Generations |-> NoDocument]
  /\ currentObject = NoDocument
  /\ inflight = {}
WorkersRest == worker = [w \in Workers |-> [Idle EXCEPT !.step = "failed"]]
ServerRests ==
  /\ migrated = TRUE /\ bucket = TRUE /\ migrating = NoProcess
  /\ proc = [p \in Processes |-> [Down EXCEPT !.start = "returned", !.listening = TRUE]]
  /\ faults = 0

MCProgressInit ==
  \/ part = "outbox" /\ Init /\ BucketRests /\ WorkersRest /\ ServerRests
  \/ part = "pipeline" /\ MCInit /\ ServerRests
  \/ part = "server" /\ MCInit /\ ServerInit

OnlyOutbox == UNCHANGED <<part, storeVars, worker, serverVars>>

MCProgressNext ==
  \/ part = "outbox" /\ Next /\ OnlyOutbox
  \/ part = "pipeline" /\ HealthyNext /\ UNCHANGED <<part, serverVars>>
  \/ part = "server" /\ ServerNext /\ UNCHANGED <<part, pipelineVars>>

\* Fairness of PublicationOutbox, while that is explored.
OutboxFairness ==
  LET Alone(A) == part = "outbox" /\ A /\ OnlyOutbox
  IN  /\ \A g \in Generations :
           /\ WF_progressVars(Alone(LeaseExpires(g)))
           /\ WF_progressVars(Alone(RetryFallsDue(g)))
      /\ WF_progressVars(Alone(\E owner \in Owners : Claim(owner, {})))

MCProgressSpec ==
  /\ MCProgressInit /\ [][MCProgressNext]_progressVars
  /\ OutboxFairness /\ HealthyFairness /\ ServerFairness

\* Types, of the outbox and of the server.
ProgressTypeOK == TypeOK /\ ServerTypeOK

\* RequestsTerminate: every accepted request ends, though no worker ever succeeds.
OutboxTerminates == part = "outbox" => RequestsTerminate

\* HealthyRequestIsServed: the newest request is acknowledged by a healthy worker.
PipelineServes == part = "pipeline" => HealthyRequestIsServed

=============================================================================
