-------------------------- MODULE RoutingRegister --------------------------
(***************************************************************************)
(* What publication promises (ADR-009), with no database, lease, worker or *)
(* object store in sight.  One application has a register of generations:  *)
(* control asks for a new one, the projection makes it current, and the    *)
(* acknowledgement makes it the served one.  PublicationPipeline implements*)
(* this module, and ContentRoutingCache reads from it.                     *)
(***************************************************************************)
EXTENDS Naturals

VARIABLES
  desired,   \* v2_applications.desired_generation: the newest request
  current,   \* generation of the object v2/routing/<id>/current.json, 0 if none
  served     \* v2_applications.served_generation: the newest acknowledged

registerVars == <<desired, current, served>>

Init ==
  /\ desired = 0
  /\ current = 0
  /\ served = 0

\* Control accepts a publication request.
Request ==
  /\ desired' = desired + 1
  /\ UNCHANGED <<current, served>>

\* The routing pointer moves to some newer generation that was requested; it
\* may be overtaken already, it may never be acknowledged.
Project ==
  /\ \E generation \in current + 1 .. desired : current' = generation
  /\ UNCHANGED <<desired, served>>

\* A generation is acknowledged only while it is both the newest request and
\* the one the pointer shows.
Acknowledge ==
  /\ served < current
  /\ current = desired
  /\ served' = current
  /\ UNCHANGED <<desired, current>>

Next == Request \/ Project \/ Acknowledge

Spec == Init /\ [][Next]_registerVars

=============================================================================
