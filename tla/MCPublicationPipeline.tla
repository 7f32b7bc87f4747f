----------------------- MODULE MCPublicationPipeline -----------------------
(***************************************************************************)
(* TLC instances of PublicationPipeline.                                   *)
(***************************************************************************)
EXTENDS PublicationPipeline, TLC

\* All workers go by one name, so that only lease versions tell them apart.
OneName == [w \in Workers |-> CHOOSE o \in Owners : TRUE]

Symmetry == Permutations(Releases) \cup Permutations(IdempotencyIds)
              \cup Permutations(Kids) \cup Permutations(Workers)

\* One idempotency record allows a PUBLISH, the others an UNPUBLISH; control uses the
\* first one first.  The operation of a row decides nothing that a worker does, and all
\* orders are explored of the outbox alone.
MCInit ==
  /\ PipelineInit
  /\ \E i \in IdempotencyIds :
       \A j \in IdempotencyIds :
         idempotency[j].operation = IF j = i THEN "PUBLISH" ELSE "UNPUBLISH"

MCNext == PipelineNext /\ outbox'[1].operation # "UNPUBLISH"

MCSpec == MCInit /\ [][MCNext]_pipelineVars

=============================================================================
