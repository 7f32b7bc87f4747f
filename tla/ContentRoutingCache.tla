------------------------ MODULE ContentRoutingCache ------------------------
(***************************************************************************)
(* The content plane: V2ContentRoutingCache of one content process and one *)
(* application, reading a bucket whose pointer is moved by the publication *)
(* register (RoutingRegister, which PublicationPipeline implements).       *)
(*                                                                         *)
(* refresh() may be called again while earlier calls wait for the bucket.  *)
(* Each of its reads is a step; everything after the last await, from the  *)
(* watermark check to the return, runs without interruption and is one     *)
(* action.  A read of an object can fail at any time.  The routing objects *)
(* may be put back to older or re-signed ones, as restoring a backup of the*)
(* bucket does (the watermark is there for that, TM-PROJ-01).              *)
(* Keys, signatures and hosts are decided by the verifier and not modelled:*)
(* a document that fails verification is a failed read.                    *)
(***************************************************************************)
EXTENDS Naturals

CONSTANTS
  Calls,          \* refresh() calls that can be open at once
  Digests,        \* digests of validly signed documents of one generation
  NoDocument,     \* no object, or lastKnownGood === null
  NoAnswer,       \* refresh() has not returned a document yet
  MaxGeneration   \* bound: publication requests in one behaviour

ASSUME BoundAssumption == MaxGeneration \in Nat

VARIABLES
  desired, current, served,  \* the publication register
  pointer,          \* current.json as the bucket returns it
  generationObject, \* generations/<g>.json
  lastKnownGood,    \* the cache's document
  watermark,        \* the cache's watermark, 0 for null
  minimum,          \* minimumGeneration this process was started with, 0 if none
  call,             \* the open refresh() calls
  answer,           \* the document refresh() returned last
  disturbed         \* the bucket was restored or the process restarted

register == <<desired, current, served>>
bucketVars == <<pointer, generationObject>>
cacheVars == <<lastKnownGood, watermark, minimum, call, answer>>
vars == <<register, bucketVars, cacheVars, disturbed>>

Register == INSTANCE RoutingRegister

Generations == 1 .. MaxGeneration
Documents == [generation : Generations, digest : Digests]
MaybeDocument == Documents \cup {NoDocument}

\* served at the start of the call travels with it, for the properties only.
CallStates ==
  [step : {"closed", "readCurrent", "readImmutable", "readManifest"},
   document : MaybeDocument, since : Nat]

Closed == [step |-> "closed", document |-> NoDocument, since |-> 0]

Answers ==
  [document : Documents, source : {"OBJECT", "LAST_KNOWN_GOOD"},
   replayStatus : {"ATTESTED", "COLD_START_UNATTESTED"}, since : Nat]

\* null is no document, and no answer.
ASSUME NullAssumption == NoDocument \notin Documents /\ NoAnswer \notin Answers

Init ==
  /\ Register!Init
  /\ pointer = NoDocument
  /\ generationObject = [g \in Generations |-> NoDocument]
  /\ lastKnownGood = NoDocument
  /\ minimum \in 0 .. MaxGeneration
  /\ watermark = minimum
  /\ call = [c \in Calls |-> Closed]
  /\ answer = NoAnswer
  /\ disturbed = FALSE

-----------------------------------------------------------------------------
(* The bucket.                                                             *)

Request ==
  /\ desired < MaxGeneration
  /\ Register!Request
  /\ UNCHANGED <<bucketVars, cacheVars, disturbed>>

\* The worker has written the immutable object first: PointerMatchesGeneration
\* of PublicationPipeline.
Project ==
  /\ Register!Project
  /\ \E digest \in Digests :
       LET document == [generation |-> current', digest |-> digest]
       IN /\ pointer' = document
          /\ generationObject' = [generationObject EXCEPT ![current'] = document]
  /\ UNCHANGED <<cacheVars, disturbed>>

Acknowledge ==
  /\ Register!Acknowledge
  /\ UNCHANGED <<bucketVars, cacheVars, disturbed>>

\* The bucket is restored: the pointer shows a generation that was once projected,
\* as it was or signed again.
RollBack ==
  /\ \E document \in Documents :
       /\ generationObject[document.generation] # NoDocument
       /\ pointer' = document
       /\ generationObject' = [generationObject EXCEPT ![document.generation] = document]
  /\ disturbed' = TRUE
  /\ UNCHANGED <<register, cacheVars>>

-----------------------------------------------------------------------------
(* refresh().                                                              *)

Return(c, document, source, replayStatus) ==
  /\ call' = [call EXCEPT ![c] = Closed]
  /\ answer' = [document |-> document, source |-> source,
                replayStatus |-> replayStatus, since |-> call[c].since]

\* Mutated form: the document known by now passes for one that was just read.
FallBackAsObject(c) ==
  /\ IF lastKnownGood # NoDocument
     THEN Return(c, lastKnownGood, "OBJECT", "ATTESTED")
     ELSE call' = [call EXCEPT ![c] = Closed] /\ UNCHANGED answer
  /\ UNCHANGED <<lastKnownGood, watermark>>

\* The catch block: the document known by now, or the error itself.
FallBack(c) ==
  /\ IF lastKnownGood # NoDocument
     THEN Return(c, lastKnownGood, "LAST_KNOWN_GOOD", "ATTESTED")
     ELSE call' = [call EXCEPT ![c] = Closed] /\ UNCHANGED answer
  /\ UNCHANGED <<lastKnownGood, watermark>>

Refresh(c) ==
  /\ call[c].step = "closed"
  /\ call' = [call EXCEPT ![c].step = "readCurrent", ![c].since = served]
  /\ UNCHANGED <<register, bucketVars, lastKnownGood, watermark, minimum, answer,
                 disturbed>>

ReadCurrent(c) ==
  /\ call[c].step = "readCurrent"
  /\ IF pointer = NoDocument THEN FallBack(c)
     ELSE /\ call' = [call EXCEPT ![c].step = "readImmutable", ![c].document = pointer]
          /\ UNCHANGED <<lastKnownGood, watermark, answer>>
  /\ UNCHANGED <<register, bucketVars, minimum, disturbed>>

ReadImmutable(c) ==
  LET document == call[c].document
  IN /\ call[c].step = "readImmutable"
     /\ IF generationObject[document.generation] # document THEN FallBack(c)
        ELSE /\ call' = [call EXCEPT ![c].step = "readManifest"]
             /\ UNCHANGED <<lastKnownGood, watermark, answer>>
     /\ UNCHANGED <<register, bucketVars, minimum, disturbed>>

\* The network, a verification or a digest fails.
ReadFails(c) ==
  /\ call[c].step # "closed"
  /\ FallBack(c)
  /\ UNCHANGED <<register, bucketVars, minimum, disturbed>>

\* Mutated form: the watermark is checked against nothing.
NeverReplayed(document) == watermark # 0 /\ document.generation < 1

\* Mutated form: the generation of the watermark itself is a replay.
ReplayedOrSame(document) == watermark # 0 /\ document.generation <= watermark

\* V2RoutingReplayError: older than the watermark.
Replayed(document) == watermark # 0 /\ document.generation < watermark

\* V2ProjectionConflictError: the generation of the watermark with other bytes.
Conflicting(document) ==
  /\ watermark # 0
  /\ document.generation = watermark
  /\ lastKnownGood # NoDocument
  /\ document.digest # lastKnownGood.digest

\* The manifest was read and matches (a tombstone has none): the checks, the new
\* watermark and the new document.
Adopt(c) ==
  LET document == call[c].document
  IN /\ call[c].step = "readManifest"
     /\ IF Replayed(document) \/ Conflicting(document) THEN FallBack(c)
        ELSE /\ watermark' = IF document.generation > watermark
                             THEN document.generation ELSE watermark
             /\ lastKnownGood' = document
             /\ Return(c, document, "OBJECT", IF watermark = 0 THEN "COLD_START_UNATTESTED"
                                         ELSE "ATTESTED")
     /\ UNCHANGED <<register, bucketVars, minimum, disturbed>>

\* A new process, with a checkpoint or without.
Restart ==
  /\ \E checkpoint \in 0 .. MaxGeneration :
       minimum' = checkpoint /\ watermark' = checkpoint
  /\ lastKnownGood' = NoDocument
  /\ call' = [c \in Calls |-> Closed]
  /\ answer' = NoAnswer
  /\ disturbed' = TRUE
  /\ UNCHANGED <<register, bucketVars>>

-----------------------------------------------------------------------------
RefreshStep(c) ==
  Refresh(c) \/ ReadCurrent(c) \/ ReadImmutable(c) \/ Adopt(c)

Publication == Request \/ Project \/ Acknowledge

Next ==
  \/ Publication
  \/ \E c \in Calls : RefreshStep(c) \/ ReadFails(c)
  \/ Restart
  \/ RollBack

\* The process refreshes again and again, and a read that fails now and then does
\* not fail every time; which of its calls gets through is left open.
Spec ==
  /\ Init
  /\ [][Next]_vars
  /\ WF_vars(\E c \in Calls : Refresh(c))
  /\ SF_vars(\E c \in Calls : ReadCurrent(c))
  /\ SF_vars(\E c \in Calls : ReadImmutable(c))
  /\ SF_vars(\E c \in Calls : Adopt(c))

-----------------------------------------------------------------------------
\* Every variable keeps its type; the watermark is a generation that was requested
\* or the checkpoint of the process.
TypeOK ==
  /\ desired \in Nat /\ current \in Nat /\ served \in Nat
  /\ pointer \in MaybeDocument
  /\ generationObject \in [Generations -> MaybeDocument]
  /\ lastKnownGood \in MaybeDocument
  /\ watermark \in 0 .. MaxGeneration
  /\ minimum \in 0 .. MaxGeneration
  /\ call \in [Calls -> CallStates]
  /\ answer \in Answers \cup {NoAnswer}
  /\ disturbed \in BOOLEAN

\* A process never answers with an older generation than it answered with before,
\* nor with other bytes for the same one, although refreshes overtake each other
\* and the pointer may be put back under its feet (TM-PROJ-01).
AnswersNeverRegress ==
  [][answer # NoAnswer /\ answer' # NoAnswer =>
       \/ answer'.document = answer.document
       \/ answer'.document.generation > answer.document.generation]_vars

\* A process started with a checkpoint answers with nothing older, from the first
\* answer on and whatever the bucket holds.
CheckpointHolds ==
  answer # NoAnswer => answer.document.generation >= minimum

\* A document read from the bucket is at least as new as every publication that
\* was acknowledged before the call: what control reports as published is what
\* content shows from then on, as long as nobody restores the bucket.
AcknowledgedIsVisible ==
  ~disturbed /\ answer # NoAnswer /\ answer.source = "OBJECT" =>
    answer.document.generation >= answer.since

\* What holds of a process whatever its refreshes met: nothing below its checkpoint,
\* nothing older than what was acknowledged before it looked.
CacheInv == TypeOK /\ CheckpointHolds /\ AcknowledgedIsVisible

\* A content process that keeps refreshing comes to show what was acknowledged,
\* unless it was started with a checkpoint that nothing acknowledged reaches, it
\* is restarted or the bucket is restored.
AcknowledgedReachesContent ==
  \A g \in Generations :
    (served >= g) ~>
      \/ lastKnownGood # NoDocument /\ lastKnownGood.generation >= g
      \/ minimum > served
      \/ disturbed

=============================================================================
