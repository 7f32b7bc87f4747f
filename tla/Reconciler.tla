----------------------------- MODULE Reconciler -----------------------------
(***************************************************************************)
(* V2ProjectionReconciler.inspect: one query of the database, then current *)
(* and immutable object of the bucket, one after the other, while workers  *)
(* publish and somebody may put an earlier version of the pointer back.    *)
(* inspect reports and changes nothing.  Release manifests are immutable   *)
(* and not lost here, so that their two reasons never come up.             *)
(***************************************************************************)
EXTENDS RoutingKeys

CONSTANTS
  Inspector,      \* the process the reconciler runs in, one of the Verifiers
  MaxRestores     \* bound of the model: how often the pointer is put back

ASSUME InspectorVerifies == Inspector \in Verifiers /\ MaxRestores \in Nat

VARIABLES
  restores,       \* how often it was
  inspection,     \* the call of inspect
  moved           \* the database or the bucket changed since its query

reconcilerVars == <<keysVars, restores, inspection, moved>>

NotInspecting == [step |-> "idle"]

\* What the query returns: the application, and its newest row, if any.
Snapshot ==
  [ desired |-> Requested,
    desiredRelease |-> IF Requested = 0 THEN NoRelease ELSE rows[Requested].release,
    served |-> acknowledged,
    servedRelease |-> IF acknowledged = 0 THEN NoRelease ELSE rows[acknowledged].release,
    row |-> IF Requested = 0 THEN <<>> ELSE <<Last(rows)>>,
    superseded |-> \E g \in 1 .. Requested - 1 : InProgress(g),
    pointer |-> Shown ] \* what the pointer shows meanwhile: no part of the result

ReconcilerInit ==
  /\ KeysInit
  /\ restores = 0
  /\ inspection = NotInspecting
  /\ moved = FALSE

-----------------------------------------------------------------------------
(* The reasons, for what the query found, the pointer and its version.     *)

\* document.payload.release?.id is undefined for a tombstone, and never equal to
\* the null that the database has for no release.
ReleaseDiffers(document, wanted) ==
  document.release = NoRelease \/ document.release # wanted

\* Mutated form: the version of the pointer is not looked at.
VersionIgnored(found, version) == {}

\* A version can only be compared when the row and the bucket have one.
VersionReasons(found, version) ==
  IF version = 0 \/ \A row \in Range(found.row) : row.version = 0
  THEN {"VERSION_HISTORY_UNATTESTABLE"}
  ELSE IF \A row \in Range(found.row) : row.version = version THEN {}
  ELSE {"VERSION_ID_DRIFT"}

\* What contradicts the newest row; without one only a release does.
RowReasons(found, document) ==
  {r \in {"OUTBOX_GENERATION_DRIFT", "OUTBOX_KEY_DRIFT", "OUTBOX_HOST_DRIFT",
          "OUTBOX_RELEASE_DRIFT", "ACKNOWLEDGED_IDENTITY_DRIFT"} :
     \/ r = "OUTBOX_RELEASE_DRIFT" /\ found.row = <<>> /\ document.release # NoRelease
     \/ \E row \in Range(found.row) :
          CASE r = "OUTBOX_GENERATION_DRIFT" -> document.generation # found.desired
            [] r = "OUTBOX_KEY_DRIFT" -> row.kid # NoKid /\ document.kid # row.kid
            [] r = "OUTBOX_HOST_DRIFT" -> document.host # row.host
            [] r = "OUTBOX_RELEASE_DRIFT" -> document.release # row.release
            [] OTHER -> row.state = "ACKNOWLEDGED" /\ document # row.projection}

\* The block that may throw: a document that does not verify is only invalid.
ObjectReasons(found, document, version, immutable, host) ==
  IF ~Verifies(Inspector, document, host) THEN {"OBJECT_INVALID"}
  ELSE (IF immutable # document THEN {"GENERATION_MISMATCH"} ELSE {})
       \cup (IF ReleaseDiffers(document, found.desiredRelease)
             THEN {"DESIRED_RELEASE_DRIFT"} ELSE {})
       \cup RowReasons(found, document)
       \cup VersionReasons(found, version)

\* The comparisons of generations; 0 stands for the null of no valid object, which
\* differs from every generation, 0 too.
GenerationReasons(found, generation) ==
  (IF found.superseded THEN {"SUPERSEDED_OPERATION"} ELSE {})
    \cup (IF found.desired # found.served THEN {"DATABASE_PROJECTION_LAG"} ELSE {})
    \cup (IF generation = 0 \/ generation # found.served THEN {"SERVED_OBJECT_DRIFT"} ELSE {})
    \cup (IF found.desired = found.served /\ found.desiredRelease # found.servedRelease
          THEN {"SERVED_RELEASE_DRIFT"} ELSE {})
    \cup (IF generation = 0 \/ generation # found.desired THEN {"DESIRED_OBJECT_DRIFT"} ELSE {})

SafelyClaimable ==
  {"OBJECT_MISSING", "DATABASE_PROJECTION_LAG", "SERVED_OBJECT_DRIFT", "DESIRED_OBJECT_DRIFT"}

Repair(found, reasons) ==
  IF /\ \E row \in Range(found.row) : row.state = "PENDING"
     /\ reasons \subseteq SafelyClaimable
  THEN "CLAIM_PENDING"
  ELSE IF reasons = {} THEN "NONE" ELSE "REPORT_AMBIGUITY"

-----------------------------------------------------------------------------
QueryDatabase ==
  /\ inspection.step = "idle"
  /\ inspection' = [step |-> "readCurrent", found |-> Snapshot]
  /\ moved' = FALSE
  /\ UNCHANGED <<keysVars, restores>>

Answered(found, document, version, reasons) ==
  [ step |-> "answered", found |-> found, document |-> document,
    reasons |-> reasons, repair |-> Repair(found, reasons) ]

\* No object: nothing more is read.
ReadCurrentObject ==
  /\ inspection.step = "readCurrent"
  /\ LET found == inspection.found
     IN inspection' =
          IF Shown = Nothing
          THEN Answered(found, Nothing, 0,
                        {"OBJECT_MISSING"} \cup GenerationReasons(found, 0))
          ELSE [step |-> "readGeneration", found |-> found, document |-> Shown,
                version |-> ShownVersion]
  /\ UNCHANGED <<keysVars, restores, moved>>

ReadGenerationObject ==
  /\ inspection.step = "readGeneration"
  /\ \E host \in Hosts :
       LET found == inspection.found
           document == inspection.document
           valid == Verifies(Inspector, document, host)
           reasons == ObjectReasons(found, document, inspection.version,
                                    objects[document.generation], host)
       IN inspection' = Answered(found, document, inspection.version,
            reasons \cup GenerationReasons(found, IF valid THEN document.generation ELSE 0))
  /\ UNCHANGED <<keysVars, restores, moved>>

\* A read that fails leaves a document that was valid, and is reported as if it
\* were not.
GenerationReadFails ==
  /\ inspection.step = "readGeneration"
  /\ \E host \in Hosts :
       LET found == inspection.found
           document == inspection.document
       IN  /\ Verifies(Inspector, document, host)
           /\ inspection' = Answered(found, document, inspection.version,
                {"OBJECT_INVALID"} \cup GenerationReasons(found, document.generation))
  /\ UNCHANGED <<keysVars, restores, moved>>

Forget ==
  /\ inspection.step # "idle"
  /\ inspection' = NotInspecting
  /\ moved' = FALSE
  /\ UNCHANGED <<keysVars, restores>>

\* Somebody puts an earlier version of the pointer back: a new version.
PutBack ==
  /\ restores < MaxRestores /\ restores' = restores + 1
  /\ \E n \in DOMAIN pointers : pointers' = Append(pointers, pointers[n])
  /\ UNCHANGED <<clock, rows, acknowledged, objects, stage, cleared, applying>>

Publishing == RequestPublication \/ RowLeaseEnds \/ \E w \in Workers : Apply(w)

ReconcilerNext ==
  \/ QueryDatabase \/ ReadCurrentObject \/ ReadGenerationObject
  \/ GenerationReadFails \/ Forget
  \/ /\ \/ Publishing /\ UNCHANGED restores
        \/ PutBack
     /\ UNCHANGED inspection
     /\ moved' = (inspection.step \notin {"idle", "answered"} \/ moved)

ReconcilerSpec == ReconcilerInit /\ [][ReconcilerNext]_reconcilerVars

-----------------------------------------------------------------------------
IsAnswered == inspection.step = "answered"

\* Types, and the relations that KeysTypeOK holds.
ReconcilerTypeOK == KeysTypeOK /\ restores \in 0 .. MaxRestores /\ moved \in BOOLEAN

\* An inspection that finds nothing is right about one moment, although it reads
\* three things at three moments: when the database was asked, every request was
\* acknowledged and the pointer showed what had been acknowledged.
NothingFoundMeansServed ==
  IsAnswered /\ inspection.repair = "NONE" =>
    /\ inspection.found.desired = inspection.found.served
    /\ inspection.found.pointer = inspection.document
    /\ inspection.document.generation = inspection.found.served

\* A repair by claiming the row is only proposed where a claim cannot overwrite
\* what content shows: nothing was shown yet and nothing was ever acknowledged.
ClaimIsProposedBeforeTheFirst ==
  IsAnswered /\ inspection.repair = "CLAIM_PENDING" =>
    inspection.found.pointer = Nothing /\ inspection.found.served = 0

\* No false alarm: where a release is published, acknowledged and shown, nothing
\* was put back and nothing moves while the inspection runs, it finds nothing.  A
\* bucket without versions and an unpublished application are always reported.
PublishedIsClean ==
  LET found == inspection.found
  IN /\ IsAnswered /\ ~moved /\ restores = 0 /\ Versioned
     /\ found.served # 0 /\ found.desired = found.served
     /\ found.row[1].release # NoRelease
     /\ "OBJECT_INVALID" \notin inspection.reasons
     => inspection.repair = "NONE"

\* An inspection means what it says, of whatever moments its reads were.
InspectionIsRight ==
  /\ ReconcilerTypeOK
  /\ NothingFoundMeansServed
  /\ ClaimIsProposedBeforeTheFirst
  /\ PublishedIsClean

=============================================================================
