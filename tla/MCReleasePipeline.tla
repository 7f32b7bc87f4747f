------------------------- MODULE MCReleasePipeline -------------------------
(***************************************************************************)
(* TLC instances of ReleasePipeline.                                       *)
(***************************************************************************)
EXTENDS ReleasePipeline, TLC

\* All workers go by one name, so that only lease versions tell them apart.
OneName == [w \in Workers |-> CHOOSE o \in Owners : TRUE]

Symmetry == Permutations(Workers) \cup Permutations(Contents) \cup Permutations(Paths)

=============================================================================
