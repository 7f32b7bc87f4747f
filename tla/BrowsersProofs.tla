--------------------------- MODULE BrowsersProofs ----------------------------
(***************************************************************************)
(* Theorems about what browsers are shown.                                 *)
(*                                                                         *)
(* ContentRoutingCache, for every number of overlapping refreshes,         *)
(* generations, restores of the bucket and restarts: the cache never       *)
(* answers with something older than before, than its checkpoint or, from  *)
(* an undisturbed bucket, than what was acknowledged when the call began.  *)
(*                                                                         *)
(* Console, for every number of apps, requests under way, moves of its     *)
(* user and operations: what it shows is what was asked for, and never     *)
(* older than what its user has changed.                                   *)
(***************************************************************************)
EXTENDS ContentRoutingCache, Console, FiniteSetTheorems, TLAPS

(***************************************************************************)
(* The cache: its inductive invariant.  The last answer is the document of the cache, *)
(* whose generation is the watermark; a call in progress carries what was  *)
(* served when it began, and, once it has read a pointer nobody put back,  *)
(* a document at least as new.                                             *)
(***************************************************************************)

RegisterInOrder ==
  /\ served <= current
  /\ current <= desired
  /\ desired <= MaxGeneration

\* Nobody has restored the bucket: the pointer shows the register's generation.
PointerInOrder ==
  ~disturbed =>
    IF pointer = NoDocument THEN current = 0 ELSE pointer.generation = current

CacheInOrder ==
  /\ minimum <= watermark
  /\ lastKnownGood # NoDocument => lastKnownGood.generation = watermark
  /\ answer # NoAnswer => answer.document = lastKnownGood

CallInOrder(c) ==
  /\ call[c].step # "closed" => call[c].since <= served
  /\ call[c].step \in {"readImmutable", "readManifest"} =>
       /\ call[c].document \in Documents
       /\ ~disturbed => call[c].document.generation >= call[c].since

CacheIndInv ==
  /\ TypeOK
  /\ RegisterInOrder
  /\ PointerInOrder
  /\ CacheInOrder
  /\ \A c \in Calls : CallInOrder(c)
  /\ AcknowledgedIsVisible

-----------------------------------------------------------------------------
(***************************************************************************)
(* The two ways a call ends.                                               *)
(***************************************************************************)
LEMMA DocumentsAreReal ==
  ASSUME NEW document \in Documents
  PROVE  /\ document # NoDocument
         /\ document.generation \in 1 .. MaxGeneration /\ document.digest \in Digests
         /\ document = [generation |-> document.generation, digest |-> document.digest]
BY NullAssumption DEF Documents, Generations

LEMMA ClosedInOrder ==
  Closed \in CallStates /\ Closed.step = "closed"
BY DEF Closed, CallStates, MaybeDocument

\* One call is given a new state, and the others stay.
LEMMA CallsInOrder ==
  ASSUME CacheIndInv, NEW c \in Calls, NEW new \in CallStates,
         call' = [call EXCEPT ![c] = new], served' = served, disturbed' = disturbed,
         new.step # "closed" => new.since <= served,
         new.step \in {"readImmutable", "readManifest"} =>
           /\ new.document \in Documents
           /\ ~disturbed => new.document.generation >= new.since
  PROVE  call' \in [Calls -> CallStates] /\ \A d \in Calls : CallInOrder(d)'
<1>1. call \in [Calls -> CallStates]
  BY DEF CacheIndInv, TypeOK
<1>2. /\ call' \in [Calls -> CallStates] /\ call'[c] = new
      /\ \A d \in Calls \ {c} : call'[d] = call[d]
  BY <1>1
<1>3. CallInOrder(c)'
  BY <1>2 DEF CallInOrder
<1>4. ASSUME NEW d \in Calls \ {c} PROVE CallInOrder(d)'
  BY <1>2 DEF CallInOrder, CacheIndInv
<1> QED
  BY <1>2, <1>3, <1>4

\* Whatever a call returns, the cache holds it.
LEMMA ReturnInOrder ==
  ASSUME CacheIndInv, NEW c \in Calls, NEW document \in Documents,
         NEW source \in {"OBJECT", "LAST_KNOWN_GOOD"},
         NEW replayStatus \in {"ATTESTED", "COLD_START_UNATTESTED"},
         Return(c, document, source, replayStatus),
         served' = served, disturbed' = disturbed
  PROVE  /\ call' \in [Calls -> CallStates] /\ \A d \in Calls : CallInOrder(d)'
         /\ answer' \in Answers /\ answer'.document = document
         /\ answer'.source = source /\ answer'.since = call[c].since
         /\ answer' # NoAnswer
<1>1. call[c] \in CallStates
  BY DEF CacheIndInv, TypeOK
<1>2. call' \in [Calls -> CallStates] /\ \A d \in Calls : CallInOrder(d)'
  BY CallsInOrder, ClosedInOrder DEF Return
<1>3. answer' \in Answers /\ answer'.document = document
      /\ answer'.source = source /\ answer'.since = call[c].since
  BY <1>1 DEF Return, Answers, CallStates
<1> QED
  BY <1>2, <1>3, NullAssumption

\* The catch block of refresh().
LEMMA FallBackInOrder ==
  ASSUME CacheIndInv, NEW c \in Calls, FallBack(c),
         UNCHANGED <<register, bucketVars, minimum, disturbed>>
  PROVE  CacheIndInv' /\ (answer' # NoAnswer => answer' = answer \/ answer'.document = lastKnownGood)
<1>1. /\ UNCHANGED <<desired, current, served, pointer, generationObject>>
      /\ UNCHANGED <<minimum, disturbed, lastKnownGood, watermark>>
  BY DEF FallBack, register, bucketVars
<1>2. TypeOK /\ lastKnownGood \in Documents \cup {NoDocument}
  BY DEF CacheIndInv, TypeOK, MaybeDocument
<1>3. CASE lastKnownGood # NoDocument
  <2>1. Return(c, lastKnownGood, "LAST_KNOWN_GOOD", "ATTESTED") /\ lastKnownGood \in Documents
    BY <1>2, <1>3 DEF FallBack
  <2>2. /\ call' \in [Calls -> CallStates] /\ \A d \in Calls : CallInOrder(d)'
        /\ answer' \in Answers /\ answer'.document = lastKnownGood
        /\ answer'.source = "LAST_KNOWN_GOOD"
    BY <1>1, <2>1, ReturnInOrder
  <2>3. TypeOK'
    BY <1>1, <1>2, <2>2 DEF TypeOK, MaybeDocument
  <2>4. RegisterInOrder' /\ PointerInOrder'
    BY <1>1 DEF CacheIndInv, RegisterInOrder, PointerInOrder
  <2>5. CacheInOrder' /\ AcknowledgedIsVisible'
    BY <1>1, <2>2 DEF CacheIndInv, CacheInOrder, AcknowledgedIsVisible
  <2> QED
    BY <2>2, <2>3, <2>4, <2>5 DEF CacheIndInv
<1>4. CASE lastKnownGood = NoDocument
  <2>1. call' = [call EXCEPT ![c] = Closed] /\ answer' = answer
    BY <1>4 DEF FallBack
  <2>2. call' \in [Calls -> CallStates] /\ \A d \in Calls : CallInOrder(d)'
    BY <1>1, <2>1, CallsInOrder, ClosedInOrder
  <2>3. TypeOK'
    BY <1>1, <1>2, <2>1, <2>2 DEF TypeOK, MaybeDocument
  <2>4. RegisterInOrder' /\ PointerInOrder'
    BY <1>1 DEF CacheIndInv, RegisterInOrder, PointerInOrder
  <2>5. CacheInOrder' /\ AcknowledgedIsVisible'
    BY <1>1, <2>1 DEF CacheIndInv, CacheInOrder, AcknowledgedIsVisible
  <2> QED
    BY <2>1, <2>2, <2>3, <2>4, <2>5 DEF CacheIndInv
<1> QED
  BY <1>3, <1>4

-----------------------------------------------------------------------------
(***************************************************************************)
(* The steps of the bucket.                                                *)
(***************************************************************************)
LEMMA PublicationKeeps ==
  ASSUME CacheIndInv, Publication
  PROVE  CacheIndInv' /\ UNCHANGED cacheVars
<1>1. /\ desired \in Nat /\ current \in Nat /\ served \in Nat /\ MaxGeneration \in Nat
      /\ served <= current /\ current <= desired /\ desired <= MaxGeneration
  BY BoundAssumption DEF CacheIndInv, TypeOK, RegisterInOrder
<1>2. CASE Request
  <2>1. /\ desired' = desired + 1 /\ desired < MaxGeneration
        /\ UNCHANGED <<current, served, pointer, generationObject, lastKnownGood,
                       watermark, minimum, call, answer, disturbed>>
    BY <1>2 DEF Request, Register!Request, bucketVars, cacheVars
  <2>2. TypeOK' /\ RegisterInOrder'
    BY <1>1, <2>1 DEF CacheIndInv, TypeOK, RegisterInOrder
  <2> QED
    BY <2>1, <2>2 DEF CacheIndInv, PointerInOrder, CacheInOrder, CallInOrder,
                      AcknowledgedIsVisible, cacheVars
<1>3. CASE Acknowledge
  <2>1. /\ served < current /\ served' = current
        /\ UNCHANGED <<current, desired, pointer, generationObject, lastKnownGood,
                       watermark, minimum, call, answer, disturbed>>
    BY <1>3 DEF Acknowledge, Register!Acknowledge, bucketVars, cacheVars
  <2>2. TypeOK' /\ RegisterInOrder'
    BY <1>1, <2>1 DEF CacheIndInv, TypeOK, RegisterInOrder
  <2>3. \A c \in Calls : CallInOrder(c)'
    <3> SUFFICES ASSUME NEW c \in Calls PROVE CallInOrder(c)'
      OBVIOUS
    <3>1. call[c].since \in Nat /\ CallInOrder(c)
      BY DEF CacheIndInv, TypeOK, CallStates
    <3> QED
      BY <1>1, <2>1, <3>1 DEF CallInOrder
  <2> QED
    BY <2>1, <2>2, <2>3 DEF CacheIndInv, PointerInOrder, CacheInOrder,
                      AcknowledgedIsVisible, cacheVars
<1>4. CASE Project
  <2>1. PICK generation \in current + 1 .. desired : current' = generation
    BY <1>4 DEF Project, Register!Project
  <2>2. /\ UNCHANGED <<desired, served, lastKnownGood, watermark, minimum, call, answer,
                       disturbed>>
    BY <1>4 DEF Project, Register!Project, cacheVars
  <2>3. PICK digest \in Digests :
          /\ pointer' = [generation |-> current', digest |-> digest]
          /\ generationObject' = [generationObject EXCEPT
                 ![current'] = [generation |-> current', digest |-> digest]]
    BY <1>4 DEF Project
  <2>4. /\ current' \in Generations /\ current' \in Nat /\ current < current'
        /\ current' <= desired
    BY <1>1, <2>1 DEF Generations
  <2>5. pointer' \in Documents /\ pointer'.generation = current'
    BY <2>3, <2>4 DEF Documents
  <2>6. TypeOK'
    BY <2>2, <2>3, <2>4, <2>5 DEF CacheIndInv, TypeOK, MaybeDocument, Documents
  <2>7. RegisterInOrder' /\ PointerInOrder'
    BY <1>1, <2>2, <2>4, <2>5, DocumentsAreReal DEF RegisterInOrder, PointerInOrder
  <2> QED
    BY <2>2, <2>6, <2>7 DEF CacheIndInv, CacheInOrder, CallInOrder, AcknowledgedIsVisible,
                            cacheVars
<1> QED
  BY <1>2, <1>3, <1>4 DEF Publication

LEMMA RollBackKeeps ==
  ASSUME CacheIndInv, RollBack
  PROVE  CacheIndInv' /\ UNCHANGED cacheVars
<1>1. PICK document \in Documents :
        /\ pointer' = document
        /\ generationObject' = [generationObject EXCEPT ![document.generation] = document]
  BY DEF RollBack
<1>2. /\ disturbed' = TRUE
      /\ UNCHANGED <<desired, current, served, lastKnownGood, watermark, minimum, call, answer>>
  BY DEF RollBack, register, cacheVars
<1>3. TypeOK'
  BY <1>1, <1>2 DEF CacheIndInv, TypeOK, MaybeDocument
<1> QED
  BY <1>2, <1>3 DEF CacheIndInv, RegisterInOrder, PointerInOrder, CacheInOrder, CallInOrder,
                    AcknowledgedIsVisible, cacheVars

LEMMA RestartKeeps ==
  ASSUME CacheIndInv, Restart
  PROVE  CacheIndInv' /\ answer' = NoAnswer
<1>1. PICK checkpoint \in 0 .. MaxGeneration : minimum' = checkpoint /\ watermark' = checkpoint
  BY DEF Restart
<1>2. /\ lastKnownGood' = NoDocument /\ call' = [c \in Calls |-> Closed]
      /\ answer' = NoAnswer /\ disturbed' = TRUE
      /\ UNCHANGED <<desired, current, served, pointer, generationObject>>
  BY DEF Restart, register, bucketVars
<1>3. TypeOK'
  BY <1>1, <1>2, ClosedInOrder DEF CacheIndInv, TypeOK, MaybeDocument
<1>4. \A c \in Calls : CallInOrder(c)'
  BY <1>2, ClosedInOrder DEF CallInOrder
<1>5. CacheInOrder'
  BY <1>1, <1>2 DEF CacheInOrder
<1> QED
  BY <1>2, <1>3, <1>4, <1>5 DEF CacheIndInv, RegisterInOrder, PointerInOrder,
                                AcknowledgedIsVisible

-----------------------------------------------------------------------------
(***************************************************************************)
(* The steps of refresh().                                                 *)
(***************************************************************************)

\* What the properties ask of two answers in a row.
NoOlderAnswer ==
  answer # NoAnswer /\ answer' # NoAnswer =>
    \/ answer'.document = answer.document
    \/ answer'.document.generation > answer.document.generation

LEMMA FallBackAnswers ==
  ASSUME CacheIndInv, NEW c \in Calls, FallBack(c),
         UNCHANGED <<register, bucketVars, minimum, disturbed>>
  PROVE  CacheIndInv' /\ NoOlderAnswer
BY FallBackInOrder DEF NoOlderAnswer, CacheIndInv, CacheInOrder

\* A call that only moves on leaves the rest as it is.
LEMMA CallMoves ==
  ASSUME CacheIndInv, NEW c \in Calls, NEW new \in CallStates,
         call' = [call EXCEPT ![c] = new],
         UNCHANGED <<register, bucketVars, lastKnownGood, watermark, minimum, answer, disturbed>>,
         new.step # "closed" => new.since <= served,
         new.step \in {"readImmutable", "readManifest"} =>
           /\ new.document \in Documents
           /\ ~disturbed => new.document.generation >= new.since
  PROVE  CacheIndInv' /\ NoOlderAnswer
<1>1. /\ UNCHANGED <<desired, current, served, pointer, generationObject>>
      /\ UNCHANGED <<lastKnownGood, watermark, minimum, answer, disturbed>>
  BY DEF register, bucketVars
<1>2. call' \in [Calls -> CallStates] /\ \A d \in Calls : CallInOrder(d)'
  BY <1>1, CallsInOrder
<1>3. TypeOK'
  BY <1>1, <1>2 DEF CacheIndInv, TypeOK
<1> QED
  BY <1>1, <1>2, <1>3 DEF CacheIndInv, RegisterInOrder, PointerInOrder, CacheInOrder,
                          AcknowledgedIsVisible, NoOlderAnswer

LEMMA RefreshKeeps ==
  ASSUME CacheIndInv, NEW c \in Calls, Refresh(c)
  PROVE  CacheIndInv' /\ NoOlderAnswer
<1> DEFINE new == [call[c] EXCEPT !.step = "readCurrent", !.since = served]
<1>1. call[c] \in CallStates /\ call \in [Calls -> CallStates] /\ served \in Nat
  BY DEF CacheIndInv, TypeOK
<1>2. new \in CallStates /\ new.step = "readCurrent" /\ new.since = served
  BY <1>1 DEF CallStates
<1>3. call' = [call EXCEPT ![c] = new]
  BY <1>1 DEF Refresh
<1>4. UNCHANGED <<register, bucketVars, lastKnownGood, watermark, minimum, answer, disturbed>>
  BY DEF Refresh
<1> HIDE DEF new
<1>5. new.since <= served
  BY <1>1, <1>2
<1>6. new.step \notin {"readImmutable", "readManifest"}
  BY <1>2
<1> QED
  BY <1>2, <1>3, <1>4, <1>5, <1>6, CallMoves

LEMMA ReadCurrentKeeps ==
  ASSUME CacheIndInv, NEW c \in Calls, ReadCurrent(c)
  PROVE  CacheIndInv' /\ NoOlderAnswer
<1>1. UNCHANGED <<register, bucketVars, minimum, disturbed>> /\ call[c].step = "readCurrent"
  BY DEF ReadCurrent
<1>2. CASE pointer = NoDocument
  BY <1>1, <1>2, FallBackAnswers DEF ReadCurrent
<1>3. CASE pointer # NoDocument
  <2> DEFINE new == [call[c] EXCEPT !.step = "readImmutable", !.document = pointer]
  <2>1. /\ call[c] \in CallStates /\ call \in [Calls -> CallStates]
        /\ served \in Nat /\ current \in Nat /\ served <= current
        /\ pointer \in Documents /\ call[c].since \in Nat
    BY <1>3 DEF CacheIndInv, TypeOK, RegisterInOrder, MaybeDocument, CallStates
  <2>2. /\ new \in CallStates /\ new.step = "readImmutable" /\ new.document = pointer
        /\ new.since = call[c].since
    BY <2>1 DEF CallStates, MaybeDocument
  <2>3. call' = [call EXCEPT ![c] = new]
    BY <1>3, <2>1 DEF ReadCurrent
  <2>4. call[c].since <= served
    BY <1>1 DEF CacheIndInv, CallInOrder
  <2>5. ~disturbed => pointer.generation = current
    BY <1>3 DEF CacheIndInv, PointerInOrder
  <2>6. UNCHANGED <<register, bucketVars, lastKnownGood, watermark, minimum, answer, disturbed>>
    BY <1>1, <1>3 DEF ReadCurrent
  <2> HIDE DEF new
  <2>7. ~disturbed => new.document.generation >= new.since
    BY <2>1, <2>2, <2>4, <2>5
  <2> QED
    BY <2>1, <2>2, <2>3, <2>4, <2>6, <2>7, CallMoves
<1> QED
  BY <1>2, <1>3

LEMMA ReadImmutableKeeps ==
  ASSUME CacheIndInv, NEW c \in Calls, ReadImmutable(c)
  PROVE  CacheIndInv' /\ NoOlderAnswer
<1>1. UNCHANGED <<register, bucketVars, minimum, disturbed>> /\ call[c].step = "readImmutable"
  BY DEF ReadImmutable
<1>2. CASE FallBack(c)
  BY <1>1, <1>2, FallBackAnswers
<1>3. CASE /\ call' = [call EXCEPT ![c].step = "readManifest"]
           /\ UNCHANGED <<lastKnownGood, watermark, answer>>
  <2> DEFINE new == [call[c] EXCEPT !.step = "readManifest"]
  <2>1. call[c] \in CallStates /\ call \in [Calls -> CallStates]
    BY DEF CacheIndInv, TypeOK
  <2>2. /\ new \in CallStates /\ new.step = "readManifest" /\ new.since = call[c].since
        /\ new.document = call[c].document
    BY <2>1 DEF CallStates
  <2>3. call' = [call EXCEPT ![c] = new]
    BY <1>3, <2>1
  <2>4. /\ call[c].since <= served /\ call[c].document \in Documents
        /\ ~disturbed => call[c].document.generation >= call[c].since
    BY <1>1 DEF CacheIndInv, CallInOrder
  <2> HIDE DEF new
  <2>5. UNCHANGED <<register, bucketVars, lastKnownGood, watermark, minimum, answer, disturbed>>
    BY <1>1, <1>3
  <2> QED
    BY <2>2, <2>3, <2>4, <2>5, CallMoves
<1> QED
  BY <1>2, <1>3 DEF ReadImmutable

\* What passes the watermark and the digest is newer than the document of the cache,
\* or that document.
LEMMA AdoptKeeps ==
  ASSUME CacheIndInv, NEW c \in Calls, Adopt(c)
  PROVE  CacheIndInv' /\ NoOlderAnswer
<1> DEFINE document == call[c].document
<1>1. /\ UNCHANGED <<register, bucketVars, minimum, disturbed>>
      /\ UNCHANGED <<desired, current, served, pointer, generationObject>>
      /\ call[c].step = "readManifest"
  BY DEF Adopt, register, bucketVars
<1>2. CASE Replayed(document) \/ Conflicting(document)
  BY <1>1, <1>2, FallBackAnswers DEF Adopt
<1>3. CASE ~Replayed(document) /\ ~Conflicting(document)
  <2>1. /\ document \in Documents /\ document.generation \in 1 .. MaxGeneration
        /\ ~disturbed => document.generation >= call[c].since
    BY <1>1, DocumentsAreReal DEF CacheIndInv, CallInOrder
  <2>2. /\ watermark \in 0 .. MaxGeneration /\ minimum \in 0 .. MaxGeneration
        /\ minimum <= watermark /\ MaxGeneration \in Nat
        /\ lastKnownGood \in Documents \cup {NoDocument}
    BY BoundAssumption DEF CacheIndInv, TypeOK, CacheInOrder, MaybeDocument
  <2>3. watermark <= document.generation
    BY <1>3, <2>1, <2>2 DEF Replayed
  <2>4. watermark' = document.generation /\ lastKnownGood' = document
    BY <1>3, <2>1, <2>2, <2>3 DEF Adopt
  <2>5. PICK replayStatus \in {"ATTESTED", "COLD_START_UNATTESTED"} :
          Return(c, document, "OBJECT", replayStatus)
    BY <1>3 DEF Adopt
  <2>6. /\ call' \in [Calls -> CallStates] /\ \A d \in Calls : CallInOrder(d)'
        /\ answer' \in Answers /\ answer'.document = document
        /\ answer'.source = "OBJECT" /\ answer'.since = call[c].since
    BY <1>1, <2>1, <2>5, ReturnInOrder
  <2>7. TypeOK'
    BY <1>1, <2>1, <2>4, <2>6 DEF CacheIndInv, TypeOK, MaybeDocument
  <2>8. RegisterInOrder' /\ PointerInOrder'
    BY <1>1 DEF CacheIndInv, RegisterInOrder, PointerInOrder
  <2>9. CacheInOrder'
    BY <1>1, <2>1, <2>2, <2>3, <2>4, <2>6 DEF CacheInOrder
  <2>10. AcknowledgedIsVisible'
    BY <1>1, <2>1, <2>6 DEF AcknowledgedIsVisible
  <2>11. NoOlderAnswer
    <3> SUFFICES ASSUME answer # NoAnswer, document.generation <= answer.document.generation
                 PROVE  document = answer.document
      <4>1. answer # NoAnswer => answer.document \in Documents
        BY DEF CacheIndInv, TypeOK, Answers
      <4> QED
        BY <2>1, <2>6, <4>1, DocumentsAreReal DEF NoOlderAnswer
    <3>1. answer.document = lastKnownGood /\ answer.document \in Documents
      BY DEF CacheIndInv, TypeOK, Answers, CacheInOrder
    <3>2. lastKnownGood # NoDocument /\ lastKnownGood.generation = watermark
      BY <3>1, DocumentsAreReal DEF CacheIndInv, CacheInOrder
    <3>3. document.generation = watermark /\ watermark # 0
      BY <2>1, <2>2, <2>3, <3>1, <3>2
    <3>4. document.digest = lastKnownGood.digest
      BY <1>3, <3>2, <3>3 DEF Conflicting
    <3> QED
      BY <2>1, <3>1, <3>2, <3>3, <3>4, DocumentsAreReal
  <2> QED
    BY <2>6, <2>7, <2>8, <2>9, <2>10, <2>11 DEF CacheIndInv
<1> QED
  BY <1>2, <1>3

-----------------------------------------------------------------------------
(***************************************************************************)
(* The theorems.                                                           *)
(***************************************************************************)
LEMMA InitCacheIndInv == Init => CacheIndInv
<1> SUFFICES ASSUME Init PROVE CacheIndInv
  OBVIOUS
<1>1. desired = 0 /\ current = 0 /\ served = 0
  BY DEF Init, Register!Init
<1>2. minimum \in 0 .. MaxGeneration /\ watermark = minimum /\ MaxGeneration \in Nat
  BY BoundAssumption DEF Init
<1>3. TypeOK
  BY <1>1, <1>2, ClosedInOrder DEF Init, TypeOK, MaybeDocument
<1>4. \A c \in Calls : CallInOrder(c)
  BY ClosedInOrder DEF Init, CallInOrder
<1> QED
  BY <1>1, <1>2, <1>3, <1>4 DEF Init, CacheIndInv, RegisterInOrder, PointerInOrder,
                                CacheInOrder, AcknowledgedIsVisible

LEMMA StepCacheIndInv ==
  ASSUME CacheIndInv, [Next]_vars
  PROVE  CacheIndInv' /\ NoOlderAnswer
<1>1. CASE Publication
  BY <1>1, PublicationKeeps DEF NoOlderAnswer, cacheVars
<1>2. ASSUME NEW c \in Calls, RefreshStep(c) \/ ReadFails(c)
      PROVE  CacheIndInv' /\ NoOlderAnswer
  <2>1. CASE ReadFails(c)
    BY <2>1, FallBackAnswers DEF ReadFails
  <2> QED
    BY <1>2, <2>1, RefreshKeeps, ReadCurrentKeeps, ReadImmutableKeeps, AdoptKeeps
       DEF RefreshStep
<1>3. CASE Restart
  BY <1>3, RestartKeeps DEF NoOlderAnswer
<1>4. CASE RollBack
  BY <1>4, RollBackKeeps DEF NoOlderAnswer, cacheVars
<1>5. CASE UNCHANGED vars
  <2>1. /\ UNCHANGED <<desired, current, served, pointer, generationObject>>
        /\ UNCHANGED <<lastKnownGood, watermark, minimum, call, answer, disturbed>>
    BY <1>5 DEF vars, register, bucketVars, cacheVars
  <2> QED
    BY <2>1 DEF CacheIndInv, TypeOK, RegisterInOrder, PointerInOrder, CacheInOrder,
                CallInOrder, AcknowledgedIsVisible, NoOlderAnswer
<1> QED
  BY <1>1, <1>2, <1>3, <1>4, <1>5 DEF Next

\* The inductive invariant holds in every reachable state.
THEOREM CacheIndInvHolds == Spec => []CacheIndInv
<1>1. CacheIndInv /\ [Next]_vars => CacheIndInv'
  BY StepCacheIndInv
<1> QED
  BY <1>1, InitCacheIndInv, PTL DEF Spec

\* A process never answers below the checkpoint it was started with, whatever the
\* bucket holds, and what it reads from a bucket nobody restored is at least as new
\* as every publication acknowledged before the call: for every number of refreshes
\* that overtake each other.
THEOREM CacheIsConsistent == Spec => []CacheInv
<1>1. CacheIndInv => CacheInv
  <2> SUFFICES ASSUME CacheIndInv PROVE CheckpointHolds
    BY DEF CacheIndInv, CacheInv
  <2> SUFFICES ASSUME answer # NoAnswer PROVE answer.document.generation >= minimum
    BY DEF CheckpointHolds
  <2>1. answer.document \in Documents /\ answer.document = lastKnownGood
    BY DEF CacheIndInv, TypeOK, Answers, CacheInOrder
  <2>2. lastKnownGood.generation = watermark /\ minimum <= watermark
    BY <2>1, DocumentsAreReal DEF CacheIndInv, CacheInOrder
  <2>3. watermark \in Nat /\ minimum \in Nat
    BY BoundAssumption DEF CacheIndInv, TypeOK
  <2> QED
    BY <2>1, <2>2, <2>3
<1> QED
  BY <1>1, CacheIndInvHolds, PTL

\* No answer is older than the one before it, nor has other bytes at the same
\* generation, though refreshes overtake each other and the bucket may be put back
\* to older or re-signed objects at any moment (TM-PROJ-01).
THEOREM CacheNeverRegresses == Spec => AnswersNeverRegress
<1>1. CacheIndInv /\ [Next]_vars =>
        [answer # NoAnswer /\ answer' # NoAnswer =>
           \/ answer'.document = answer.document
           \/ answer'.document.generation > answer.document.generation]_vars
  BY StepCacheIndInv DEF NoOlderAnswer
<1> QED
  BY <1>1, CacheIndInvHolds, PTL DEF Spec, AnswersNeverRegress


-----------------------------------------------------------------------------
(***************************************************************************)
(* The console: its inductive invariant.  A page that nobody hurried shows *)
(* what was asked for, and every answer under way to it is fit to be       *)
(* shown: it begins with a request made after whatever the user saw        *)
(* succeed, and the next success has the page ask again.  A modal is in a  *)
(* page that shows something and hears of operations of its own kind only; *)
(* operations are counted, so that no edit makes the version that stands   *)
(* for a deleted app.                                                      *)
(***************************************************************************)

\* What a page may show, or a request have found.
Finding(f) == DOMAIN f \subseteq Apps /\ f \in [DOMAIN f -> 0 .. Gone]

\* A request of the detail is of an app, and finds that app or nothing.
RequestOk(f) ==
  /\ f = [page |-> f.page, of |-> f.of, state |-> f.state, found |-> f.found]
  /\ f.page \in Pages /\ f.state \in {"sent", "served"}
  /\ f.of \in Apps \cup {NoApp} /\ Finding(f.found)
  /\ f.page = "detail" =>
       /\ f.of # NoApp
       /\ f.state = "served" => DOMAIN f.found = {f.of} /\ f.found[f.of] >= Created

ViewOk(v) ==
  /\ v = [status |-> v.status, hurried |-> v.hurried, shown |-> v.shown]
  /\ v.status \in {"unmounted", "started", "succeeded", "failed"}
  /\ v.hurried \in BOOLEAN /\ Finding(v.shown)

UiOk(u) ==
  /\ u = [url |-> u.url, list |-> u.list, detail |-> u.detail, fetches |-> u.fetches]
  /\ u.url \in Apps \cup {NoApp} /\ ViewOk(u.list) /\ ViewOk(u.detail)
  /\ DOMAIN u.fetches \subseteq 1 .. MaxFetches + 2
  /\ u.fetches = [k \in DOMAIN u.fetches |-> u.fetches[k]]
  /\ \A k \in DOMAIN u.fetches : RequestOk(u.fetches[k])

\* A list that is not older than the versions d.
ListFits(found, d) ==
  \A a \in Apps : /\ d[a] = Gone => a \notin DOMAIN found
                  /\ d[a] = Created /\ Exists(a) => a \in DOMAIN found

\* Where nobody hurried, every answer under way is fit to be shown, like what is shown.
ListInv(u, d) ==
  /\ u.list.status = "started" => Pending(u, "list")
  /\ ~u.list.hurried =>
       /\ \A k \in Numbers(u, "list") :
            u.fetches[k].state = "served" => ListFits(u.fetches[k].found, d)
       /\ u.list.status = "succeeded" => ListFits(u.list.shown, d)

DetailInv(u, d) ==
  /\ u.detail.status = "unmounted" <=> u.url = NoApp
  /\ u.url = NoApp => ~Pending(u, "detail")
  /\ u.detail.status = "started" => Pending(u, "detail")
  /\ u.detail.status = "succeeded" =>
       /\ DOMAIN u.detail.shown # {}
       /\ \A a \in DOMAIN u.detail.shown : u.detail.shown[a] >= Created
  /\ ~u.detail.hurried =>
       /\ \A k \in Numbers(u, "detail") :
            /\ u.fetches[k].of = u.url
            /\ u.fetches[k].state = "served" => u.fetches[k].found[u.url] >= d[u.url]
       /\ u.detail.status = "succeeded" =>
            DOMAIN u.detail.shown = {u.url} /\ u.detail.shown[u.url] >= d[u.url]

\* What came of an operation: a version that the server has had.
Results == [app : Apps \cup {NoApp}, version : 0 .. Gone]
Kinds == {"create", "edit", "delete"}
ResultFits(kind, result) ==
  /\ result.app \in Apps /\ result.version <= apps[result.app]
  /\ CASE kind = "create" -> result.version = Created
       [] kind = "edit"   -> result.version \notin {Unborn, Created, Gone}
       [] kind = "delete" -> result.version = Gone

OperationOk(o) ==
  /\ o \in [nr : 1 .. MaxOperations, kind : Kinds, app : Apps \cup {NoApp},
            step : {"delayed", "sent", "served"}, result : Results]
  /\ o.nr <= performed
  /\ o.step = "served" => ResultFits(o.kind, o.result)

OperationsOk(os) ==
  /\ \A o \in os : OperationOk(o)
  /\ \A o, p \in os : o.nr = p.nr => o = p

ModalOk(m) ==
  m # NoModal =>
    /\ m \in [page : Pages, kind : Kinds, app : Apps \cup {NoApp},
              step : {"open", "started", "succeeded", "failed"}, nr : 0 .. MaxOperations,
              result : Results]
    /\ m.page = "list" <=> m.kind = "create"
    /\ m.nr <= performed
    /\ m.step = "succeeded" => ResultFits(m.kind, m.result)

\* A modal hears of an operation of its own kind only.
Matching(m, os) == \A o \in os : o.nr = m.nr => o.kind = m.kind
Placed(m, u) == m # NoModal => u[m.page].status = "succeeded"

\* Every operation yet to be served may make one more version.
Due(os) == {o.nr : o \in {p \in os : p.step # "served"}}
VersionsOk(os) ==
  /\ apps \in [Apps -> 0 .. Gone] /\ done \in [Apps -> 0 .. Gone]
  /\ performed \in 0 .. MaxOperations
  /\ \A a \in Apps : done[a] <= apps[a]
  /\ \A a \in Apps : apps[a] # Gone => apps[a] + Cardinality(Due(os)) <= performed + 1

ConsoleIndInv ==
  /\ UiOk(ui) /\ Cardinality(DOMAIN ui.fetches) <= MaxFetches
  /\ ListInv(ui, done) /\ DetailInv(ui, done)
  /\ ModalOk(modal) /\ Matching(modal, operations) /\ Placed(modal, ui)
  /\ OperationsOk(operations)
  /\ VersionsOk(operations)

-----------------------------------------------------------------------------
(***************************************************************************)
(* What fetching does to the pages.                                        *)
(***************************************************************************)
LEMMA BlankIsFinding ==
  Finding(Blank) /\ DOMAIN Blank = {}
BY DEF Finding, Blank

LEMMA VersionsApart ==
  /\ MaxOperations \in Nat /\ MaxFetches \in Nat
  /\ Unborn = 0 /\ Created = 1 /\ Gone \in Nat /\ Gone = MaxOperations + 2
BY ConsoleAssumption DEF Unborn, Created, Gone

\* There is a number left for one request more, and for a second one.
LEMMA FreeNumberIsFree ==
  ASSUME NEW u, DOMAIN u.fetches \subseteq 1 .. MaxFetches + 2,
         Cardinality(DOMAIN u.fetches) <= MaxFetches + 1
  PROVE  FreeNumber(u) \in (1 .. MaxFetches + 2) \ DOMAIN u.fetches
<1> MaxFetches \in Nat
  BY VersionsApart
<1>1. Cardinality(1 .. MaxFetches + 2) = MaxFetches + 2
  BY FS_Interval
<1>2. DOMAIN u.fetches # 1 .. MaxFetches + 2
  BY <1>1
<1>3. \E k \in 1 .. MaxFetches + 2 : k \notin DOMAIN u.fetches
  BY <1>2
<1> QED
  BY <1>3 DEF FreeNumber

LEMMA RoomForTwo ==
  ASSUME NEW u, NEW v, NEW k \in (1 .. MaxFetches + 2) \ DOMAIN u.fetches,
         DOMAIN u.fetches \subseteq 1 .. MaxFetches + 2,
         Cardinality(DOMAIN u.fetches) <= MaxFetches,
         DOMAIN v.fetches = DOMAIN u.fetches \cup {k}
  PROVE  FreeNumber(v) \in (1 .. MaxFetches + 2) \ DOMAIN v.fetches
<1> MaxFetches \in Nat
  BY VersionsApart
<1>1. IsFiniteSet(DOMAIN u.fetches)
  <2>1. IsFiniteSet(1 .. MaxFetches + 2)
    BY FS_Interval
  <2> QED
    BY <2>1, FS_Subset
<1>2. Cardinality(DOMAIN u.fetches \cup {k}) = Cardinality(DOMAIN u.fetches) + 1
  BY <1>1, FS_AddElement
<1>3. Cardinality(DOMAIN u.fetches) \in Nat
  BY <1>1, FS_CardinalityType
<1>4. /\ Cardinality(DOMAIN v.fetches) <= MaxFetches + 1
      /\ DOMAIN v.fetches \subseteq 1 .. MaxFetches + 2
  BY <1>2, <1>3
<1> QED
  BY <1>4, FreeNumberIsFree

Room(u) == FreeNumber(u) \in (1 .. MaxFetches + 2) \ DOMAIN u.fetches

Asked(page, of) == [page |-> page, of |-> of, state |-> "sent", found |-> Blank]

\* v is u with a request more, numbered n.
Fetched(u, v, page, of, n) ==
  /\ v = [url |-> v.url, list |-> v.list, detail |-> v.detail, fetches |-> v.fetches]
  /\ v.url = u.url
  /\ v[page] = [status |-> "started", shown |-> Blank, hurried |-> Pending(u, page)]
  /\ page = "list" => v.detail = u.detail
  /\ page = "detail" => v.list = u.list
  /\ DOMAIN v.fetches = DOMAIN u.fetches \cup {n}
  /\ v.fetches = [k \in DOMAIN v.fetches |-> v.fetches[k]]
  /\ v.fetches[n] = Asked(page, of)
  /\ \A k \in DOMAIN u.fetches : v.fetches[k] = u.fetches[k]
  /\ Numbers(v, page) = Numbers(u, page) \cup {n}
  /\ \A other \in Pages \ {page} : Numbers(v, other) = Numbers(u, other)

LEMMA FetchingParts ==
  ASSUME NEW u, NEW page \in Pages, NEW of, Room(u),
         u = [url |-> u.url, list |-> u.list, detail |-> u.detail, fetches |-> u.fetches]
  PROVE  Fetched(u, Fetching(u, page, of), page, of, FreeNumber(u))
<1> DEFINE v == Fetching(u, page, of)
           n == FreeNumber(u)
           f == [k \in DOMAIN u.fetches \cup {n} |->
                   IF k = n THEN Asked(page, of) ELSE u.fetches[k]]
           view == [status |-> "started", shown |-> Blank, hurried |-> Pending(u, page)]
<1>1. v = [u EXCEPT ![page] = view, !.fetches = f]
  BY DEF Fetching, Asked
<1> HIDE DEF v
<1>2. /\ v = [url |-> v.url, list |-> v.list, detail |-> v.detail, fetches |-> v.fetches]
      /\ v.url = u.url /\ v.fetches = f /\ v[page] = view
      /\ page = "list" => v.detail = u.detail
      /\ page = "detail" => v.list = u.list
  <2> HIDE DEF f, view
  <2>1. CASE page = "list"
    BY <1>1, <2>1
  <2>2. CASE page = "detail"
    BY <1>1, <2>2
  <2> QED
    BY <2>1, <2>2 DEF Pages
<1>3. n \notin DOMAIN u.fetches
  BY DEF Room
<1>4. /\ DOMAIN v.fetches = DOMAIN u.fetches \cup {n}
      /\ v.fetches = [k \in DOMAIN v.fetches |-> v.fetches[k]]
      /\ v.fetches[n] = Asked(page, of)
      /\ \A k \in DOMAIN u.fetches : v.fetches[k] = u.fetches[k]
  BY <1>2, <1>3
<1>5. Asked(page, of).page = page
  BY DEF Asked
<1>6. Numbers(v, page) = Numbers(u, page) \cup {n}
  BY <1>3, <1>4, <1>5 DEF Numbers
<1>7. \A other \in Pages \ {page} : Numbers(v, other) = Numbers(u, other)
  BY <1>3, <1>4, <1>5 DEF Numbers
<1> QED
  BY <1>2, <1>4, <1>6, <1>7 DEF Fetched, v

LEMMA FetchingIsOk ==
  ASSUME NEW u, NEW page \in Pages, NEW of \in Apps \cup {NoApp}, Room(u),
         page = "detail" => of # NoApp, UiOk(u)
  PROVE  UiOk(Fetching(u, page, of))
<1> DEFINE v == Fetching(u, page, of)
           n == FreeNumber(u)
<1>0. u = [url |-> u.url, list |-> u.list, detail |-> u.detail, fetches |-> u.fetches]
  BY DEF UiOk
<1>1. Fetched(u, v, page, of, n)
  BY <1>0, FetchingParts
<1> HIDE DEF v, n
<1>2. RequestOk(Asked(page, of))
  BY BlankIsFinding DEF RequestOk, Asked
<1>3. ViewOk([status |-> "started", shown |-> Blank, hurried |-> Pending(u, page)])
  BY BlankIsFinding DEF ViewOk, Pending
<1>4. ViewOk(v.list) /\ ViewOk(v.detail)
  BY <1>1, <1>3 DEF UiOk, Pages, Fetched
<1>5. \A k \in DOMAIN v.fetches : RequestOk(v.fetches[k])
  BY <1>1, <1>2 DEF UiOk, Fetched
<1>6. n \in 1 .. MaxFetches + 2
  BY DEF Room, n
<1>7. UiOk(v)
  BY <1>1, <1>4, <1>5, <1>6 DEF UiOk, Fetched
<1> QED
  BY <1>7 DEF v

\* A list that is fetched again is as new as what was done, whenever that was.
LEMMA ListIsFetched ==
  ASSUME NEW u, NEW d, Room(u), UiOk(u)
  PROVE  /\ UiOk(Fetching(u, "list", NoApp))
         /\ Fetching(u, "list", NoApp).url = u.url
         /\ Fetching(u, "list", NoApp).detail = u.detail
         /\ DOMAIN Fetching(u, "list", NoApp).fetches = DOMAIN u.fetches \cup {FreeNumber(u)}
         /\ ListInv(Fetching(u, "list", NoApp), d)
         /\ DetailInv(u, d) => DetailInv(Fetching(u, "list", NoApp), d)
<1> DEFINE v == Fetching(u, "list", NoApp)
           n == FreeNumber(u)
<1>0. UiOk(v)
  BY FetchingIsOk DEF Pages
<1>1. /\ v.url = u.url
      /\ v.list.status = "started" /\ (v.list.hurried <=> Pending(u, "list"))
      /\ v.detail = u.detail
      /\ DOMAIN v.fetches = DOMAIN u.fetches \cup {n}
      /\ v.fetches[n] = Asked("list", NoApp)
      /\ \A k \in DOMAIN u.fetches : v.fetches[k] = u.fetches[k]
      /\ Numbers(v, "list") = Numbers(u, "list") \cup {n}
      /\ Numbers(v, "detail") = Numbers(u, "detail")
  <2>1. u = [url |-> u.url, list |-> u.list, detail |-> u.detail, fetches |-> u.fetches]
    BY DEF UiOk
  <2>2. "list" \in Pages /\ "detail" \in Pages \ {"list"}
    BY DEF Pages
  <2>3. Fetched(u, v, "list", NoApp, n)
    BY <2>1, <2>2, FetchingParts
  <2> HIDE DEF v, n
  <2> QED
    BY <2>2, <2>3 DEF Fetched
<1> HIDE DEF v, n
<1>2. v.list.status = "started" /\ (v.list.hurried <=> Numbers(u, "list") # {})
  BY <1>1 DEF Pending
<1>3. ~v.list.hurried => Numbers(v, "list") = {n} /\ v.fetches[n].state = "sent"
  BY <1>1, <1>2 DEF Asked
<1>4. ListInv(v, d)
  BY <1>1, <1>2, <1>3 DEF ListInv, Pending
<1>5. \A k \in Numbers(u, "detail") : v.fetches[k] = u.fetches[k]
  BY <1>1 DEF Numbers
<1>6. DetailInv(u, d) => DetailInv(v, d)
  BY <1>1, <1>5 DEF DetailInv, Pending
<1> QED
  BY <1>0, <1>1, <1>4, <1>6 DEF v, n

\* The detail of the app in the URL, likewise.
LEMMA DetailIsFetched ==
  ASSUME NEW u, NEW d, Room(u), UiOk(u), u.url # NoApp
  PROVE  /\ UiOk(Fetching(u, "detail", u.url))
         /\ Fetching(u, "detail", u.url).url = u.url
         /\ DOMAIN Fetching(u, "detail", u.url).fetches = DOMAIN u.fetches \cup {FreeNumber(u)}
         /\ DetailInv(Fetching(u, "detail", u.url), d)
         /\ ListInv(u, d) => ListInv(Fetching(u, "detail", u.url), d)
<1> DEFINE v == Fetching(u, "detail", u.url)
           n == FreeNumber(u)
<1>0. UiOk(v)
  <2>1. u.url \in Apps \cup {NoApp} /\ "detail" \in Pages
    BY DEF UiOk, Pages
  <2> QED
    BY <2>1, FetchingIsOk
<1>1. /\ v.url = u.url
      /\ v.detail.status = "started" /\ (v.detail.hurried <=> Pending(u, "detail"))
      /\ v.list = u.list
      /\ DOMAIN v.fetches = DOMAIN u.fetches \cup {n}
      /\ v.fetches[n] = Asked("detail", u.url)
      /\ \A k \in DOMAIN u.fetches : v.fetches[k] = u.fetches[k]
      /\ Numbers(v, "detail") = Numbers(u, "detail") \cup {n}
      /\ Numbers(v, "list") = Numbers(u, "list")
  <2>1. u = [url |-> u.url, list |-> u.list, detail |-> u.detail, fetches |-> u.fetches]
    BY DEF UiOk
  <2>2. "detail" \in Pages /\ "list" \in Pages \ {"detail"}
    BY DEF Pages
  <2>3. Fetched(u, v, "detail", u.url, n)
    BY <2>1, <2>2, FetchingParts
  <2> HIDE DEF v, n
  <2> QED
    BY <2>2, <2>3 DEF Fetched
<1> HIDE DEF v, n
<1>2. v.detail.status = "started" /\ (v.detail.hurried <=> Numbers(u, "detail") # {})
  BY <1>1 DEF Pending
<1>3. ~v.detail.hurried =>
        /\ Numbers(v, "detail") = {n}
        /\ v.fetches[n].state = "sent" /\ v.fetches[n].of = u.url
  BY <1>1, <1>2 DEF Asked
<1>4. DetailInv(v, d)
  BY <1>1, <1>2, <1>3 DEF DetailInv, Pending
<1>5. \A k \in Numbers(u, "list") : v.fetches[k] = u.fetches[k]
  BY <1>1 DEF Numbers
<1>6. ListInv(u, d) => ListInv(v, d)
  BY <1>1, <1>5 DEF ListInv, Pending
<1> QED
  BY <1>0, <1>1, <1>4, <1>6 DEF v, n

-----------------------------------------------------------------------------
(***************************************************************************)
(* The URL changes.                                                        *)
(***************************************************************************)

\* To another app: its detail is fetched.
LEMMA WentElsewhere ==
  ASSUME NEW u, NEW d, NEW url \in Apps, url # u.url, Room(u), UiOk(u)
  PROVE  /\ UiOk(Went(u, url))
         /\ DetailInv(Went(u, url), d)
         /\ ListInv(u, d) => ListInv(Went(u, url), d)
<1> DEFINE moved == [u EXCEPT !.url = url]
<1>1. u = [url |-> u.url, list |-> u.list, detail |-> u.detail, fetches |-> u.fetches]
  BY DEF UiOk
<1>2. moved = [url |-> url, list |-> u.list, detail |-> u.detail, fetches |-> u.fetches]
  BY <1>1
<1>3. url # NoApp
  BY ConsoleAssumption
<1>4. Went(u, url) = Fetching(moved, "detail", url)
  BY <1>3 DEF Went, ListRefetches, DetailRefetches
<1> HIDE DEF moved
<1>5. UiOk(moved) /\ moved.url = url /\ moved.url # NoApp
  BY <1>2, <1>3 DEF UiOk
<1>6. Room(moved)
  <2>1. FreeNumber(moved) = FreeNumber(u)
    BY <1>2 DEF FreeNumber
  <2> QED
    BY <1>2, <2>1 DEF Room
<1>7. ListInv(u, d) => ListInv(moved, d)
  <2>1. Numbers(moved, "list") = Numbers(u, "list")
    BY <1>2 DEF Numbers
  <2> QED
    BY <1>2, <2>1 DEF ListInv, Pending
<1> QED
  BY <1>4, <1>5, <1>6, <1>7, DetailIsFetched

\* From an app to the list, which is fetched; nothing is heard of the detail any more.
LEMMA WentHome ==
  ASSUME NEW u, NEW d, u.url # NoApp, Room(u), UiOk(u)
  PROVE  /\ UiOk(Went(u, NoApp))
         /\ DetailInv(Went(u, NoApp), d)
         /\ ListInv(Went(u, NoApp), d)
<1> DEFINE moved == [u EXCEPT !.url = NoApp]
           listed == Fetching(moved, "list", NoApp)
           w == Went(u, NoApp)
<1>1. u = [url |-> u.url, list |-> u.list, detail |-> u.detail, fetches |-> u.fetches]
  BY DEF UiOk
<1>2. moved = [url |-> NoApp, list |-> u.list, detail |-> u.detail, fetches |-> u.fetches]
  BY <1>1
<1>3. w = [listed EXCEPT !.detail = Unmounted,
                         !.fetches = Without(listed.fetches, Numbers(listed, "detail"))]
  BY DEF Went, ListRefetches
<1> HIDE DEF moved, w
<1>4. UiOk(moved) /\ moved.url = NoApp
  BY <1>2 DEF UiOk
<1>5. Room(moved)
  <2>1. FreeNumber(moved) = FreeNumber(u)
    BY <1>2 DEF FreeNumber
  <2> QED
    BY <1>2, <2>1 DEF Room
<1>6. UiOk(listed) /\ ListInv(listed, d) /\ listed.url = NoApp
  BY <1>4, <1>5, ListIsFetched
<1> HIDE DEF listed
<1>7. listed = [url |-> listed.url, list |-> listed.list, detail |-> listed.detail,
                fetches |-> listed.fetches]
  BY <1>6 DEF UiOk
<1>8. w = [url |-> NoApp, list |-> listed.list, detail |-> Unmounted,
           fetches |-> Without(listed.fetches, Numbers(listed, "detail"))]
  <2> DEFINE rest == Without(listed.fetches, Numbers(listed, "detail"))
  <2>1. w = [listed EXCEPT !.detail = Unmounted, !.fetches = rest]
    BY <1>3
  <2> HIDE DEF rest
  <2>2. /\ w = [url |-> w.url, list |-> w.list, detail |-> w.detail, fetches |-> w.fetches]
        /\ w.url = listed.url /\ w.list = listed.list
        /\ w.detail = Unmounted /\ w.fetches = rest
    BY <1>7, <2>1
  <2> QED
    BY <1>6, <2>2 DEF rest
<1>9. /\ DOMAIN w.fetches = DOMAIN listed.fetches \ Numbers(listed, "detail")
      /\ w.fetches = [k \in DOMAIN w.fetches |-> w.fetches[k]]
      /\ \A k \in DOMAIN w.fetches : w.fetches[k] = listed.fetches[k]
  BY <1>8 DEF Without, Restrict
<1>10. ViewOk(Unmounted)
  BY BlankIsFinding DEF ViewOk, Unmounted
<1>11. UiOk(w)
  <2>1. /\ w = [url |-> w.url, list |-> w.list, detail |-> w.detail, fetches |-> w.fetches]
        /\ w.url \in Apps \cup {NoApp} /\ w.list = listed.list /\ w.detail = Unmounted
    BY <1>8
  <2> QED
    BY <1>6, <1>9, <1>10, <2>1 DEF UiOk
<1>12. Numbers(w, "detail") = {}
  BY <1>9 DEF Numbers
<1>13. DetailInv(w, d)
  <2>1. w.detail.status = "unmounted" /\ w.url = NoApp
    BY <1>8 DEF Unmounted
  <2> QED
    BY <1>12, <2>1 DEF DetailInv, Pending
<1>14. Numbers(w, "list") = Numbers(listed, "list")
  BY <1>9 DEF Numbers
<1>15. ListInv(w, d)
  <2>1. w.list = listed.list
    BY <1>8
  <2>2. \A k \in Numbers(listed, "list") : w.fetches[k] = listed.fetches[k]
    BY <1>9, <1>14 DEF Numbers
  <2> QED
    BY <1>6, <1>14, <2>1, <2>2 DEF ListInv, Pending
<1> QED
  BY <1>11, <1>13, <1>15 DEF w

\* To where it is: nothing happens.
LEMMA WentNowhere ==
  ASSUME NEW u, u.url \in Apps, UiOk(u)
  PROVE  Went(u, u.url) = u
<1>1. u = [url |-> u.url, list |-> u.list, detail |-> u.detail, fetches |-> u.fetches]
  BY DEF UiOk
<1>2. [u EXCEPT !.url = u.url] = u
  BY <1>1
<1>3. u.url # NoApp
  BY ConsoleAssumption
<1>4. Went(u, u.url) = [u EXCEPT !.url = u.url]
  BY <1>3 DEF Went, ListRefetches, DetailRefetches
<1> QED
  BY <1>2, <1>4

-----------------------------------------------------------------------------
(***************************************************************************)
(* A request ends.                                                         *)
(***************************************************************************)
LEMMA WithoutOne ==
  ASSUME NEW fetches, NEW k
  PROVE  /\ DOMAIN Without(fetches, {k}) = DOMAIN fetches \ {k}
         /\ Without(fetches, {k}) =
              [j \in DOMAIN Without(fetches, {k}) |-> Without(fetches, {k})[j]]
         /\ \A j \in DOMAIN fetches \ {k} : Without(fetches, {k})[j] = fetches[j]
BY DEF Without, Restrict

\* The page shows what came, or that nothing did; the other page stays as it is.
Shown(view, status, shown) == [status |-> status, hurried |-> view.hurried, shown |-> shown]

LEMMA ShownIsOk ==
  ASSUME NEW view, ViewOk(view), NEW status \in {"failed", "succeeded"},
         NEW shown, Finding(shown)
  PROVE  /\ [view EXCEPT !.status = status, !.shown = shown] = Shown(view, status, shown)
         /\ ViewOk(Shown(view, status, shown))
         /\ Shown(view, status, shown).hurried <=> view.hurried
<1>1. view = [status |-> view.status, hurried |-> view.hurried, shown |-> view.shown]
  BY DEF ViewOk
<1>2. view.hurried \in BOOLEAN
  BY DEF ViewOk
<1>3. [view EXCEPT !.status = status, !.shown = shown] = Shown(view, status, shown)
  <2> DEFINE v == [view EXCEPT !.status = status, !.shown = shown]
  <2>1. v = [view EXCEPT !.status = status, !.shown = shown]
    OBVIOUS
  <2> HIDE DEF v
  <2>2. /\ v = [status |-> v.status, hurried |-> v.hurried, shown |-> v.shown]
        /\ v.status = status /\ v.hurried = view.hurried /\ v.shown = shown
    BY <1>1, <2>1
  <2> QED
    BY <2>1, <2>2 DEF Shown
<1>4. ViewOk(Shown(view, status, shown))
  BY <1>2 DEF ViewOk, Shown
<1> QED
  BY <1>3, <1>4 DEF Shown

Ends(status, shown, request) ==
  \/ status = "failed" /\ shown = Blank
  \/ status = "succeeded" /\ request.state = "served" /\ shown = request.found

LEMMA ListRequestEnds ==
  ASSUME NEW u, NEW d, UiOk(u), ListInv(u, d), DetailInv(u, d),
         NEW k \in Numbers(u, "list"), NEW shown, NEW status,
         Ends(status, shown, u.fetches[k]),
         NEW v, v = [url |-> u.url, list |-> Shown(u.list, status, shown), detail |-> u.detail,
                     fetches |-> Without(u.fetches, {k})]
  PROVE  UiOk(v) /\ ListInv(v, d) /\ DetailInv(v, d)
<1>1. /\ v = [url |-> v.url, list |-> v.list, detail |-> v.detail, fetches |-> v.fetches]
      /\ v.url = u.url /\ v.list = Shown(u.list, status, shown) /\ v.detail = u.detail
      /\ v.fetches = Without(u.fetches, {k})
  OBVIOUS
<1>2. /\ DOMAIN v.fetches = DOMAIN u.fetches \ {k}
      /\ v.fetches = [j \in DOMAIN v.fetches |-> v.fetches[j]]
      /\ \A j \in DOMAIN u.fetches \ {k} : v.fetches[j] = u.fetches[j]
  <2> DEFINE rest == Without(u.fetches, {k})
  <2>1. /\ DOMAIN rest = DOMAIN u.fetches \ {k}
        /\ rest = [j \in DOMAIN rest |-> rest[j]]
        /\ \A j \in DOMAIN u.fetches \ {k} : rest[j] = u.fetches[j]
    BY WithoutOne
  <2> HIDE DEF rest
  <2>2. v.fetches = rest
    BY <1>1 DEF rest
  <2> QED
    BY ONLY <2>1, <2>2
<1>3. status \in {"failed", "succeeded"} /\ Finding(shown)
  BY BlankIsFinding DEF Ends, UiOk, RequestOk, Numbers
<1>4. ViewOk(v.list) /\ (v.list.hurried <=> u.list.hurried)
  BY <1>1, <1>3, ShownIsOk DEF UiOk
<1>5. v.list.status = status /\ v.list.shown = shown
  BY <1>1 DEF Shown
<1>6. UiOk(v)
  BY <1>1, <1>2, <1>4 DEF UiOk
<1>7. Numbers(v, "list") = Numbers(u, "list") \ {k} /\ Numbers(v, "detail") = Numbers(u, "detail")
  BY <1>2 DEF Numbers
<1>8. \A j \in Numbers(v, "list") \cup Numbers(v, "detail") : v.fetches[j] = u.fetches[j]
  BY <1>2 DEF Numbers
<1>9. DetailInv(v, d)
  <2>1. v.url = u.url /\ v.detail = u.detail
    BY <1>1
  <2>2. Pending(v, "detail") <=> Pending(u, "detail")
    BY <1>7 DEF Pending
  <2>3. ASSUME NEW j \in Numbers(v, "detail"), ~v.detail.hurried
        PROVE  /\ v.fetches[j].of = v.url
               /\ v.fetches[j].state = "served" => v.fetches[j].found[v.url] >= d[v.url]
    <3>1. j \in Numbers(u, "detail") /\ v.fetches[j] = u.fetches[j]
      BY <1>7, <1>8
    <3>2. /\ u.fetches[j].of = u.url
          /\ u.fetches[j].state = "served" => u.fetches[j].found[u.url] >= d[u.url]
      BY <2>1, <2>3, <3>1 DEF DetailInv
    <3> QED
      BY ONLY <2>1, <3>1, <3>2
  <2> QED
    BY <2>1, <2>2, <2>3 DEF DetailInv
<1>10. ListInv(v, d)
  <2>1. v.list.status # "started"
    BY <1>3, <1>5
  <2>2. ASSUME NEW j \in Numbers(v, "list"), ~v.list.hurried, v.fetches[j].state = "served"
        PROVE  ListFits(v.fetches[j].found, d)
    <3>1. j \in Numbers(u, "list") /\ v.fetches[j] = u.fetches[j]
      BY <1>7, <1>8
    <3> QED
      BY <1>4, <2>2, <3>1 DEF ListInv
  <2>3. ~v.list.hurried /\ status = "succeeded" => ListFits(shown, d)
    BY <1>4 DEF ListInv, Ends
  <2> QED
    BY <1>5, <2>1, <2>2, <2>3 DEF ListInv
<1> QED
  BY <1>6, <1>9, <1>10

LEMMA DetailRequestEnds ==
  ASSUME NEW u, NEW d, UiOk(u), ListInv(u, d), DetailInv(u, d),
         NEW k \in Numbers(u, "detail"), NEW shown, NEW status,
         Ends(status, shown, u.fetches[k]),
         NEW v, v = [url |-> u.url, list |-> u.list, detail |-> Shown(u.detail, status, shown),
                     fetches |-> Without(u.fetches, {k})]
  PROVE  UiOk(v) /\ ListInv(v, d) /\ DetailInv(v, d)
<1>1. /\ v = [url |-> v.url, list |-> v.list, detail |-> v.detail, fetches |-> v.fetches]
      /\ v.url = u.url /\ v.detail = Shown(u.detail, status, shown) /\ v.list = u.list
      /\ v.fetches = Without(u.fetches, {k})
  OBVIOUS
<1>2. /\ DOMAIN v.fetches = DOMAIN u.fetches \ {k}
      /\ v.fetches = [j \in DOMAIN v.fetches |-> v.fetches[j]]
      /\ \A j \in DOMAIN u.fetches \ {k} : v.fetches[j] = u.fetches[j]
  <2> DEFINE rest == Without(u.fetches, {k})
  <2>1. /\ DOMAIN rest = DOMAIN u.fetches \ {k}
        /\ rest = [j \in DOMAIN rest |-> rest[j]]
        /\ \A j \in DOMAIN u.fetches \ {k} : rest[j] = u.fetches[j]
    BY WithoutOne
  <2> HIDE DEF rest
  <2>2. v.fetches = rest
    BY <1>1 DEF rest
  <2> QED
    BY ONLY <2>1, <2>2
<1>3. status \in {"failed", "succeeded"} /\ Finding(shown)
  BY BlankIsFinding DEF Ends, UiOk, RequestOk, Numbers
<1>4. ViewOk(v.detail) /\ (v.detail.hurried <=> u.detail.hurried)
  BY <1>1, <1>3, ShownIsOk DEF UiOk
<1>5. v.detail.status = status /\ v.detail.shown = shown
  BY <1>1 DEF Shown
<1>6. UiOk(v)
  BY <1>1, <1>2, <1>4 DEF UiOk
<1>7. Numbers(v, "list") = Numbers(u, "list") /\ Numbers(v, "detail") = Numbers(u, "detail") \ {k}
  BY <1>2 DEF Numbers
<1>8. \A j \in Numbers(v, "list") \cup Numbers(v, "detail") : v.fetches[j] = u.fetches[j]
  BY <1>2 DEF Numbers
<1>9. ListInv(v, d)
  BY <1>1, <1>7, <1>8 DEF ListInv, Pending
<1>10. u.url # NoApp
  BY DEF DetailInv, Pending
<1>11. status = "succeeded" =>
         DOMAIN shown = {u.fetches[k].of} /\ shown[u.fetches[k].of] >= Created
  BY DEF Ends, UiOk, RequestOk, Numbers
<1>12. ~u.detail.hurried =>
         /\ u.fetches[k].of = u.url
         /\ status = "succeeded" => shown[u.url] >= d[u.url]
  BY DEF DetailInv, Ends
<1>13. \A j \in Numbers(v, "detail") : j \in Numbers(u, "detail") /\ v.fetches[j] = u.fetches[j]
  BY <1>7, <1>8
<1>14. status = "succeeded" =>
         DOMAIN shown # {} /\ \A a \in DOMAIN shown : shown[a] >= Created
  BY <1>11
<1>15. DetailInv(v, d)
  <2>1. ASSUME NEW j \in Numbers(v, "detail"), ~v.detail.hurried
        PROVE  /\ v.fetches[j].of = v.url
               /\ v.fetches[j].state = "served" => v.fetches[j].found[v.url] >= d[v.url]
    <3>1. j \in Numbers(u, "detail") /\ v.fetches[j] = u.fetches[j]
      BY <1>13
    <3>2. /\ u.fetches[j].of = u.url
          /\ u.fetches[j].state = "served" => u.fetches[j].found[u.url] >= d[u.url]
      BY <1>4, <2>1, <3>1 DEF DetailInv
    <3>3. v.url = u.url
      BY <1>1
    <3> QED
      BY ONLY <3>1, <3>2, <3>3
  <2>2. ~v.detail.hurried /\ status = "succeeded" =>
          DOMAIN shown = {v.url} /\ shown[v.url] >= d[v.url]
    BY <1>1, <1>4, <1>11, <1>12
  <2> QED
    BY <1>1, <1>3, <1>5, <1>10, <1>14, <2>1, <2>2 DEF DetailInv
<1> QED
  BY <1>6, <1>9, <1>15

LEMMA RequestEnds ==
  ASSUME NEW u, NEW d, UiOk(u), ListInv(u, d), DetailInv(u, d),
         NEW k \in DOMAIN u.fetches, NEW shown, NEW status,
         Ends(status, shown, u.fetches[k]),
         NEW page, page = u.fetches[k].page,
         NEW v, v = [u EXCEPT ![page].status = status, ![page].shown = shown,
                              !.fetches = Without(@, {k})]
  PROVE  UiOk(v) /\ ListInv(v, d) /\ DetailInv(v, d)
<1>1. u = [url |-> u.url, list |-> u.list, detail |-> u.detail, fetches |-> u.fetches]
  BY DEF UiOk
<1>2. page \in Pages /\ k \in Numbers(u, page)
  BY DEF UiOk, RequestOk, Numbers
<1>3. status \in {"failed", "succeeded"} /\ Finding(shown)
  BY BlankIsFinding DEF Ends, UiOk, RequestOk
<1>4. CASE page = "list"
  <2> DEFINE view == [u.list EXCEPT !.status = status, !.shown = shown]
             rest == Without(u.fetches, {k})
  <2>1. v = [u EXCEPT !.list = view, !.fetches = rest]
    BY <1>1, <1>4
  <2>2. [u.list EXCEPT !.status = status, !.shown = shown] = Shown(u.list, status, shown)
    <3>1. ViewOk(u.list)
      BY DEF UiOk
    <3> QED
      BY ONLY <1>3, <3>1, ShownIsOk
  <2>3. v = [url |-> u.url, list |-> Shown(u.list, status, shown), detail |-> u.detail,
             fetches |-> Without(u.fetches, {k})]
    <3> HIDE DEF view, rest
    <3>1. /\ v = [url |-> v.url, list |-> v.list, detail |-> v.detail, fetches |-> v.fetches]
          /\ v.url = u.url /\ v.detail = u.detail /\ v.list = view /\ v.fetches = rest
      BY <1>1, <2>1
    <3> QED
      BY <2>2, <3>1 DEF view, rest
  <2> QED
    BY <1>2, <1>4, <2>3, ListRequestEnds
<1>5. CASE page = "detail"
  <2> DEFINE view == [u.detail EXCEPT !.status = status, !.shown = shown]
             rest == Without(u.fetches, {k})
  <2>1. v = [u EXCEPT !.detail = view, !.fetches = rest]
    BY <1>1, <1>5
  <2>2. [u.detail EXCEPT !.status = status, !.shown = shown] = Shown(u.detail, status, shown)
    <3>1. ViewOk(u.detail)
      BY DEF UiOk
    <3> QED
      BY ONLY <1>3, <3>1, ShownIsOk
  <2>3. v = [url |-> u.url, list |-> u.list, detail |-> Shown(u.detail, status, shown),
             fetches |-> Without(u.fetches, {k})]
    <3> HIDE DEF view, rest
    <3>1. /\ v = [url |-> v.url, list |-> v.list, detail |-> v.detail, fetches |-> v.fetches]
          /\ v.url = u.url /\ v.list = u.list /\ v.detail = view /\ v.fetches = rest
      BY <1>1, <2>1
    <3> QED
      BY <2>2, <3>1 DEF view, rest
  <2> QED
    BY <1>2, <1>5, <2>3, DetailRequestEnds
<1> QED
  BY <1>2, <1>4, <1>5 DEF Pages

-----------------------------------------------------------------------------
(***************************************************************************)
(* What a page shows decides about the modal in it, and that about the     *)
(* operation that it is about to send.                                     *)
(***************************************************************************)
Modals == [page : Pages, kind : Kinds, app : Apps \cup {NoApp},
           step : {"open", "started", "succeeded", "failed"}, nr : 0 .. MaxOperations,
           result : Results]

LEMMA ModalsAreModals ==
  ASSUME NEW m \in Modals
  PROVE  m # NoModal
BY DEF Modals, Pages, NoModal

LEMMA NoModalIsOk ==
  ASSUME NEW os, OperationsOk(os), NEW u
  PROVE  ModalOk(NoModal) /\ Matching(NoModal, os) /\ Placed(NoModal, u)
<1>1. NoModal.nr = 0
  BY DEF NoModal
<1>2. \A o \in os : o.nr \in 1 .. MaxOperations
  BY DEF OperationsOk, OperationOk
<1>3. Matching(NoModal, os)
  BY <1>1, <1>2, VersionsApart DEF Matching
<1> QED
  BY <1>3 DEF ModalOk, Placed

LEMMA RenderedIsOk ==
  ASSUME NEW u, NEW d, UiOk(u), DetailInv(u, d),
         NEW os, OperationsOk(os), NEW m, ModalOk(m), Matching(m, os)
  PROVE  /\ ModalOk(Rendered(u, m)) /\ Matching(Rendered(u, m), os)
         /\ Placed(Rendered(u, m), u)
<1>1. CASE m = NoModal \/ u[m.page].status # "succeeded"
  <2>1. Rendered(u, m) = NoModal
    BY <1>1 DEF Rendered
  <2> QED
    BY <2>1, NoModalIsOk
<1>2. CASE m # NoModal /\ u[m.page].status = "succeeded" /\ m.page = "list"
  <2>1. Rendered(u, m) = m
    BY <1>2 DEF Rendered
  <2> QED
    BY <1>2, <2>1 DEF Placed
<1>3. CASE m # NoModal /\ u[m.page].status = "succeeded" /\ m.page # "list"
  <2> DEFINE a == CHOOSE b \in DOMAIN u.detail.shown : TRUE
  <2>1. m \in Modals
    BY <1>3 DEF ModalOk, Modals
  <2>2. m.page = "detail"
    BY <1>3, <2>1 DEF Modals, Pages
  <2>3. DOMAIN u.detail.shown # {}
    BY <1>3, <2>2 DEF DetailInv
  <2>4. DOMAIN u.detail.shown \subseteq Apps
    BY DEF UiOk, ViewOk, Finding
  <2>5. a \in Apps
    BY <2>3, <2>4
  <2>6. Rendered(u, m) = [m EXCEPT !.app = a]
    BY <1>3 DEF Rendered
  <2> HIDE DEF a
  <2> DEFINE r == Rendered(u, m)
  <2>7. /\ r \in Modals /\ r.page = m.page /\ r.kind = m.kind /\ r.nr = m.nr
        /\ r.step = m.step /\ r.result = m.result
    <3>1. r = [m EXCEPT !.app = a]
      BY <2>6
    <3> HIDE DEF r
    <3> QED
      BY <2>1, <2>5, <3>1 DEF Modals
  <2> HIDE DEF r
  <2>8. ModalOk(r)
    BY <1>3, <2>7 DEF ModalOk, Modals
  <2>9. Matching(r, os) /\ Placed(r, u)
    BY <1>3, <2>7 DEF Matching, Placed
  <2> QED
    BY <2>8, <2>9 DEF r
<1> QED
  BY <1>1, <1>2, <1>3

LEMMA FollowedIsOk ==
  ASSUME OperationsOk(operations), NEW m, ModalOk(m), Matching(m, operations)
  PROVE  /\ OperationsOk(Followed(m)) /\ Due(Followed(m)) = Due(operations)
         /\ Matching(m, Followed(m))
<1> DEFINE f(o) == IF m # NoModal /\ o.nr = m.nr /\ o.step = "delayed"
                   THEN [o EXCEPT !.app = m.app] ELSE o
<1>1. Followed(m) = {f(o) : o \in operations}
  BY DEF Followed
<1>2. ASSUME NEW o \in operations
      PROVE  /\ OperationOk(f(o)) /\ f(o).nr = o.nr /\ f(o).step = o.step
             /\ f(o).kind = o.kind
  <2>1. OperationOk(o)
    BY DEF OperationsOk
  <2>2. CASE m # NoModal /\ o.nr = m.nr /\ o.step = "delayed"
    <3>1. m.app \in Apps \cup {NoApp}
      BY <2>2 DEF ModalOk
    <3>2. f(o) = [o EXCEPT !.app = m.app]
      BY <2>2
    <3> HIDE DEF f
    <3>3. /\ f(o) \in [nr : 1 .. MaxOperations, kind : Kinds, app : Apps \cup {NoApp},
                       step : {"delayed", "sent", "served"}, result : Results]
          /\ f(o).nr = o.nr /\ f(o).step = o.step
          /\ f(o).kind = o.kind /\ f(o).result = o.result
      BY <2>1, <3>1, <3>2 DEF OperationOk
    <3> QED
      BY <2>1, <3>3 DEF OperationOk
  <2>3. CASE ~(m # NoModal /\ o.nr = m.nr /\ o.step = "delayed")
    <3>1. f(o) = o
      BY <2>3
    <3> QED
      BY <2>1, <3>1
  <2> QED
    BY <2>2, <2>3
<1> HIDE DEF f
<1>3. \A o, p \in operations : f(o).nr = f(p).nr => f(o) = f(p)
  BY <1>2 DEF OperationsOk
<1>4. OperationsOk(Followed(m))
  BY <1>1, <1>2, <1>3 DEF OperationsOk
<1>5. Due(Followed(m)) = Due(operations)
  <2>1. ASSUME NEW n \in Due(Followed(m)) PROVE n \in Due(operations)
    <3>1. PICK p \in Followed(m) : p.step # "served" /\ n = p.nr
      BY DEF Due
    <3>2. PICK o \in operations : p = f(o)
      BY <1>1
    <3> QED
      BY <1>2, <3>1, <3>2 DEF Due
  <2>2. ASSUME NEW n \in Due(operations) PROVE n \in Due(Followed(m))
    <3>1. PICK o \in operations : o.step # "served" /\ n = o.nr
      BY DEF Due
    <3>2. f(o) \in Followed(m) /\ f(o).step # "served" /\ n = f(o).nr
      BY <1>1, <1>2, <3>1
    <3> QED
      BY <3>2 DEF Due
  <2> QED
    BY <2>1, <2>2
<1>6. Matching(m, Followed(m))
  BY <1>1, <1>2 DEF Matching
<1> QED
  BY <1>4, <1>5, <1>6

\* Whatever the console comes to, where the pages are in order.
LEMMA ShowsInOrder ==
  ASSUME NEW u, NEW m, Shows(u, m), apps' = apps, performed' = performed,
         UiOk(u), ListInv(u, done'), DetailInv(u, done'),
         ModalOk(m), Matching(m, operations), OperationsOk(operations),
         VersionsOk(operations),
         done' \in [Apps -> 0 .. Gone], \A a \in Apps : done'[a] <= apps[a]
  PROVE  ConsoleIndInv'
<1>1. /\ ui' = u /\ Cardinality(DOMAIN u.fetches) <= MaxFetches
      /\ modal' = Rendered(u, m) /\ operations' = Followed(modal')
  BY DEF Shows
<1>2. ModalOk(modal') /\ Matching(modal', operations) /\ Placed(modal', u)
  BY <1>1, RenderedIsOk
<1>3. /\ OperationsOk(operations') /\ Due(operations') = Due(operations)
      /\ Matching(modal', operations')
  BY <1>1, <1>2, FollowedIsOk
<1>4. (UiOk(ui) /\ Cardinality(DOMAIN ui.fetches) <= MaxFetches)'
  BY <1>1
<1>5. ListInv(ui, done)' /\ DetailInv(ui, done)'
  BY <1>1 DEF ListInv, ListFits, Exists, DetailInv
<1>6. ModalOk(modal)' /\ Matching(modal, operations)' /\ Placed(modal, ui)'
  BY <1>1, <1>2, <1>3 DEF ModalOk, Matching, Placed, ResultFits
<1>7. OperationsOk(operations)'
  BY <1>3 DEF OperationsOk, OperationOk, ResultFits
<1>8. VersionsOk(operations)'
  BY <1>3 DEF VersionsOk
<1> QED
  BY <1>4, <1>5, <1>6, <1>7, <1>8 DEF ConsoleIndInv

-----------------------------------------------------------------------------
(***************************************************************************)
(* Every step keeps the invariant: the URL and the pages.                  *)
(***************************************************************************)
LEMMA RoomForOne ==
  ASSUME NEW u, UiOk(u), Cardinality(DOMAIN u.fetches) <= MaxFetches
  PROVE  Room(u)
<1>1. MaxFetches \in Nat
  BY VersionsApart
<1>2. IsFiniteSet(DOMAIN u.fetches)
  <2>1. IsFiniteSet(1 .. MaxFetches + 2)
    BY <1>1, FS_Interval
  <2> QED
    BY <2>1, FS_Subset DEF UiOk
<1>3. Cardinality(DOMAIN u.fetches) <= MaxFetches + 1
  BY <1>1, <1>2, FS_CardinalityType
<1> QED
  BY <1>3, FreeNumberIsFree DEF UiOk, Room

LEMMA InitInOrder ==
  ConsoleInit => ConsoleIndInv
<1> SUFFICES ASSUME ConsoleInit PROVE ConsoleIndInv
  OBVIOUS
<1> DEFINE u == [url |-> NoApp, list |-> Unmounted, detail |-> Unmounted, fetches |-> Blank]
<1>1. /\ UiOk(u) /\ DetailInv(u, done) /\ Cardinality(DOMAIN u.fetches) = 0
  <2>1. ViewOk(Unmounted)
    BY BlankIsFinding DEF ViewOk, Unmounted
  <2>2. DOMAIN u.fetches = {} /\ u.fetches = [k \in DOMAIN u.fetches |-> u.fetches[k]]
    BY DEF Blank
  <2>3. UiOk(u)
    BY <2>1, <2>2 DEF UiOk
  <2>4. DetailInv(u, done)
    BY <2>2 DEF DetailInv, Pending, Numbers, Unmounted
  <2> QED
    BY <2>2, <2>3, <2>4, FS_EmptySet
<1>2. Room(u)
  BY <1>1, RoomForOne, VersionsApart
<1>3. ui = Fetching(u, "list", NoApp)
  BY DEF ConsoleInit
<1>4. UiOk(ui) /\ ListInv(ui, done) /\ DetailInv(ui, done)
  BY <1>1, <1>2, <1>3, ListIsFetched
<1>5. Cardinality(DOMAIN ui.fetches) <= MaxFetches
  <2>1. DOMAIN ui.fetches = {FreeNumber(u)}
    <3>1. DOMAIN ui.fetches = DOMAIN u.fetches \cup {FreeNumber(u)}
      BY <1>1, <1>2, <1>3, ListIsFetched
    <3>2. DOMAIN u.fetches = {}
      BY BlankIsFinding
    <3> QED
      BY <3>1, <3>2
  <2> DEFINE n == FreeNumber(u)
  <2>2. DOMAIN ui.fetches = {n}
    BY <2>1
  <2> HIDE DEF u, n
  <2>3. Cardinality({n}) = 1
    BY FS_Singleton, Zenon
  <2>4. MaxFetches \in Nat \ {0}
    BY ConsoleAssumption
  <2> QED
    BY ONLY <2>2, <2>3, <2>4
<1>6. OperationsOk(operations)
  BY DEF ConsoleInit, OperationsOk
<1>7. ModalOk(modal) /\ Matching(modal, operations) /\ Placed(modal, ui)
  BY <1>6, NoModalIsOk DEF ConsoleInit
<1>8. VersionsOk(operations)
  <2>1. Due(operations) = {}
    BY DEF ConsoleInit, Due
  <2>2. Cardinality(Due(operations)) = 0
    BY <2>1, FS_EmptySet
  <2> QED
    BY <2>2, VersionsApart DEF VersionsOk, ConsoleInit
<1> QED
  BY <1>4, <1>5, <1>6, <1>7, <1>8 DEF ConsoleIndInv

LEMMA GoToKeeps ==
  ASSUME ConsoleIndInv, NEW url \in Apps \cup {NoApp}, GoTo(url)
  PROVE  ConsoleIndInv'
<1>1. /\ url # ui.url /\ Shows(Went(ui, url), modal)
      /\ apps' = apps /\ done' = done /\ performed' = performed
  BY DEF GoTo
<1>2. Room(ui)
  BY RoomForOne DEF ConsoleIndInv
<1>3. UiOk(Went(ui, url)) /\ ListInv(Went(ui, url), done) /\ DetailInv(Went(ui, url), done)
  <2>1. CASE url = NoApp
    BY <1>1, <1>2, <2>1, WentHome DEF ConsoleIndInv
  <2>2. CASE url # NoApp
    <3>1. url \in Apps
      BY <2>2
    <3> QED
      BY <1>1, <1>2, <3>1, WentElsewhere DEF ConsoleIndInv
  <2> QED
    BY <2>1, <2>2
<1>4. \A a \in Apps : done'[a] <= apps[a]
  BY <1>1 DEF ConsoleIndInv, VersionsOk
<1>5. done' \in [Apps -> 0 .. Gone]
  BY <1>1 DEF ConsoleIndInv, VersionsOk
<1> QED
  BY <1>1, <1>3, <1>4, <1>5, ShowsInOrder DEF ConsoleIndInv

LEMMA RequestEndKeeps ==
  ASSUME ConsoleIndInv, NEW k \in DOMAIN ui.fetches, FetchArrives(k) \/ FetchFails(k)
  PROVE  ConsoleIndInv'
<1> DEFINE page == ui.fetches[k].page
           v(status, shown) == [ui EXCEPT ![page].status = status, ![page].shown = shown,
                                          !.fetches = Without(@, {k})]
<1>1. PICK status, shown : /\ Shows(v(status, shown), modal)
                           /\ Ends(status, shown, ui.fetches[k])
  <2>1. CASE FetchArrives(k)
    BY <2>1 DEF FetchArrives, Ends
  <2>2. CASE FetchFails(k)
    BY <2>2 DEF FetchFails, Ends
  <2> QED
    BY <2>1, <2>2
<1>2. apps' = apps /\ done' = done /\ performed' = performed
  BY DEF FetchArrives, FetchFails
<1>3. /\ UiOk(v(status, shown)) /\ ListInv(v(status, shown), done)
      /\ DetailInv(v(status, shown), done)
  BY <1>1, RequestEnds DEF ConsoleIndInv
<1> HIDE DEF v, page
<1>4. \A a \in Apps : done'[a] <= apps[a]
  BY <1>2 DEF ConsoleIndInv, VersionsOk
<1>5. done' \in [Apps -> 0 .. Gone]
  BY <1>2 DEF ConsoleIndInv, VersionsOk
<1> QED
  BY <1>1, <1>2, <1>3, <1>4, <1>5, ShowsInOrder DEF ConsoleIndInv

LEMMA RetryKeeps ==
  ASSUME ConsoleIndInv, NEW page \in Pages, RetryFetch(page)
  PROVE  ConsoleIndInv'
<1> DEFINE v == Fetching(ui, page, IF page = "list" THEN NoApp ELSE ui.url)
<1>1. /\ ui[page].status = "failed" /\ Shows(v, modal)
      /\ apps' = apps /\ done' = done /\ performed' = performed
  BY DEF RetryFetch
<1>2. Room(ui)
  BY RoomForOne DEF ConsoleIndInv
<1>3. UiOk(v) /\ ListInv(v, done) /\ DetailInv(v, done)
  <2>1. CASE page = "list"
    BY <1>2, <2>1, ListIsFetched DEF ConsoleIndInv
  <2>2. CASE page = "detail"
    <3>1. ui.url # NoApp
      BY <1>1, <2>2 DEF ConsoleIndInv, DetailInv
    <3>2. v = Fetching(ui, "detail", ui.url)
      BY <2>2
    <3> HIDE DEF v
    <3> QED
      BY <1>2, <3>1, <3>2, DetailIsFetched DEF ConsoleIndInv
  <2> QED
    BY <2>1, <2>2 DEF Pages
<1> HIDE DEF v
<1>4. \A a \in Apps : done'[a] <= apps[a]
  BY <1>1 DEF ConsoleIndInv, VersionsOk
<1>5. done' \in [Apps -> 0 .. Gone]
  BY <1>1 DEF ConsoleIndInv, VersionsOk
<1> QED
  BY <1>1, <1>3, <1>4, <1>5, ShowsInOrder DEF ConsoleIndInv

\* An answer is made from what there is: nothing older than what was done.
LEMMA ServeFetchKeeps ==
  ASSUME ConsoleIndInv, NEW k \in DOMAIN ui.fetches, ServeFetch(k)
  PROVE  ConsoleIndInv'
<1> DEFINE fetch == ui.fetches[k]
           found == {a \in Apps : Exists(a) /\ (fetch.page = "list" \/ a = fetch.of)}
           versions == Restrict(apps, found)
           reply == [fetch EXCEPT !.state = "served", !.found = versions]
           fetches == [ui.fetches EXCEPT ![k] = reply]
<1>1. /\ fetch.page = "detail" => found # {}
      /\ ui' = [ui EXCEPT !.fetches[k].state = "served", !.fetches[k].found = versions]
      /\ UNCHANGED <<apps, modal, operations, done, performed>>
  BY DEF ServeFetch
<1>2. UiOk(ui) /\ ListInv(ui, done) /\ DetailInv(ui, done)
  BY DEF ConsoleIndInv
<1>3. ui = [url |-> ui.url, list |-> ui.list, detail |-> ui.detail, fetches |-> ui.fetches]
  BY <1>2 DEF UiOk
<1>4. RequestOk(fetch)
  BY <1>2 DEF UiOk
<1>5. apps \in [Apps -> 0 .. Gone] /\ \A a \in Apps : done[a] <= apps[a] /\ done[a] \in 0 .. Gone
  BY DEF ConsoleIndInv, VersionsOk
<1>6. /\ DOMAIN versions = found /\ \A a \in found : versions[a] = apps[a] /\ Exists(a)
      /\ versions = [a \in found |-> apps[a]]
  BY DEF Restrict
<1>7. Finding(versions)
  BY <1>5, <1>6 DEF Finding
<1>8. fetch.page = "list" => ListFits(versions, done)
  <2>1. ASSUME NEW a \in Apps, done[a] = Gone PROVE ~Exists(a)
    BY <1>5, <2>1, VersionsApart DEF Exists
  <2> QED
    BY <1>6, <2>1 DEF ListFits
<1>9. fetch.page = "detail" =>
        /\ DOMAIN versions = {fetch.of} /\ versions[fetch.of] >= Created
        /\ versions[fetch.of] >= done[fetch.of]
  <2> SUFFICES ASSUME fetch.page = "detail"
               PROVE  /\ DOMAIN versions = {fetch.of} /\ versions[fetch.of] >= Created
                      /\ versions[fetch.of] >= done[fetch.of]
    OBVIOUS
  <2>1. found = {fetch.of} /\ fetch.of \in Apps
    BY <1>1
  <2>2. versions[fetch.of] = apps[fetch.of] /\ apps[fetch.of] # Unborn
    BY <1>6, <2>1 DEF Exists
  <2> HIDE DEF found, versions, fetch
  <2> QED
    BY <1>5, <1>6, <2>1, <2>2, VersionsApart
<1> HIDE DEF versions, found
<1>10. /\ reply = [page |-> fetch.page, of |-> fetch.of, state |-> "served", found |-> versions]
  <2>1. fetch = [page |-> fetch.page, of |-> fetch.of, state |-> fetch.state, found |-> fetch.found]
    BY <1>4 DEF RequestOk
  <2>3. reply = [fetch EXCEPT !.state = "served", !.found = versions]
    OBVIOUS
  <2> HIDE DEF fetch, reply
  <2>2. /\ reply = [page |-> reply.page, of |-> reply.of, state |-> reply.state,
                     found |-> reply.found]
        /\ reply.page = fetch.page /\ reply.of = fetch.of
        /\ reply.state = "served" /\ reply.found = versions
    BY <2>1, <2>3
  <2> QED
    BY <2>2
<1>11. RequestOk(reply)
  BY <1>4, <1>7, <1>9, <1>10 DEF RequestOk
<1>12. ui' = [ui EXCEPT !.fetches = fetches]
  BY <1>1
<1> HIDE DEF reply
<1>13. /\ DOMAIN fetches = DOMAIN ui.fetches /\ fetches = [j \in DOMAIN fetches |-> fetches[j]]
       /\ fetches[k] = reply /\ \A j \in DOMAIN ui.fetches \ {k} : fetches[j] = ui.fetches[j]
  BY <1>2 DEF UiOk
<1> HIDE DEF fetches
<1> DEFINE u == ui'
<1>14. /\ u = [url |-> u.url, list |-> u.list, detail |-> u.detail, fetches |-> u.fetches]
       /\ u.url = ui.url /\ u.list = ui.list /\ u.detail = ui.detail /\ u.fetches = fetches
  BY <1>3, <1>12
<1> HIDE DEF u
<1>15. UiOk(u)
  BY <1>2, <1>11, <1>13, <1>14 DEF UiOk
<1>16. \A page \in Pages : Numbers(u, page) = Numbers(ui, page)
  BY <1>10, <1>13, <1>14 DEF Numbers
<1>17. "list" \in Pages /\ "detail" \in Pages
  BY DEF Pages
<1>18. ListInv(u, done)
  <2>1. ASSUME NEW j \in Numbers(ui, "list"), ~ui.list.hurried, u.fetches[j].state = "served"
        PROVE  ListFits(u.fetches[j].found, done)
    <3>1. CASE j = k
      BY <1>8, <1>10, <1>13, <1>14, <2>1, <3>1 DEF Numbers
    <3>2. CASE j # k
      BY <1>2, <1>13, <1>14, <2>1, <3>2 DEF ListInv, Numbers
    <3> QED
      BY <3>1, <3>2
  <2> QED
    BY <1>2, <1>14, <1>16, <1>17, <2>1 DEF ListInv, Pending
<1>19. DetailInv(u, done)
  <2>1. ASSUME NEW j \in Numbers(ui, "detail"), ~ui.detail.hurried
        PROVE  /\ u.fetches[j].of = u.url
               /\ u.fetches[j].state = "served" => u.fetches[j].found[u.url] >= done[u.url]
    <3>1. ui.fetches[j].of = ui.url
      BY <1>2, <2>1 DEF DetailInv
    <3>2. CASE j = k
      BY <1>9, <1>10, <1>13, <1>14, <3>1, <3>2 DEF Numbers
    <3>3. CASE j # k
      BY <1>2, <1>13, <1>14, <2>1, <3>3 DEF DetailInv, Numbers
    <3> QED
      BY <3>2, <3>3
  <2> QED
    BY <1>2, <1>14, <1>16, <1>17, <2>1 DEF DetailInv, Pending
<1>20. (UiOk(ui) /\ ListInv(ui, done) /\ DetailInv(ui, done))'
  BY <1>1, <1>15, <1>18, <1>19 DEF u, ListInv, ListFits, Exists
<1>21. Cardinality(DOMAIN ui'.fetches) <= MaxFetches
  BY <1>13, <1>14 DEF u, ConsoleIndInv
<1>22. (ModalOk(modal) /\ Matching(modal, operations))'
  BY <1>1 DEF ConsoleIndInv, ModalOk, Matching, ResultFits
<1>23. Placed(modal, ui)'
  <2>1. modal # NoModal => modal.page \in Pages
    BY DEF ConsoleIndInv, ModalOk
  <2> QED
    BY <1>1, <1>14, <2>1 DEF u, ConsoleIndInv, Placed, Pages
<1>24. (OperationsOk(operations) /\ VersionsOk(operations))'
  BY <1>1 DEF ConsoleIndInv, OperationsOk, OperationOk, ResultFits, VersionsOk
<1> QED
  BY <1>20, <1>21, <1>22, <1>23, <1>24 DEF ConsoleIndInv

-----------------------------------------------------------------------------
(***************************************************************************)
(* The modal and its operation.                                            *)
(***************************************************************************)

\* Where the pages and the versions stay as they are.
LEMMA PagesStay ==
  ASSUME ConsoleIndInv, UNCHANGED <<apps, ui, done, performed>>,
         ModalOk(modal)', Matching(modal, operations)', Placed(modal, ui)',
         OperationsOk(operations)', Due(operations') \subseteq Due(operations)
  PROVE  ConsoleIndInv'
<1>1. (UiOk(ui) /\ Cardinality(DOMAIN ui.fetches) <= MaxFetches
         /\ ListInv(ui, done) /\ DetailInv(ui, done))'
  BY DEF ConsoleIndInv, ListInv, ListFits, Exists
<1>2. /\ IsFiniteSet(Due(operations)) /\ Cardinality(Due(operations)) \in Nat
      /\ Cardinality(Due(operations')) <= Cardinality(Due(operations))
      /\ Cardinality(Due(operations')) \in Nat
  <2>1. Due(operations) \subseteq 1 .. MaxOperations
    BY DEF ConsoleIndInv, OperationsOk, OperationOk, Due
  <2>2. IsFiniteSet(1 .. MaxOperations)
    BY VersionsApart, FS_Interval
  <2>3. IsFiniteSet(Due(operations)) /\ IsFiniteSet(Due(operations'))
    BY <2>1, <2>2, FS_Subset
  <2> QED
    BY <2>3, FS_CardinalityType, FS_Subset
<1>3. VersionsOk(operations)'
  <2>1. /\ apps' = apps /\ done' = done /\ performed' = performed
        /\ apps \in [Apps -> 0 .. Gone] /\ done \in [Apps -> 0 .. Gone]
        /\ performed \in 0 .. MaxOperations
        /\ \A a \in Apps : done[a] <= apps[a]
        /\ \A a \in Apps : apps[a] # Gone => apps[a] + Cardinality(Due(operations)) <= performed + 1
    BY DEF ConsoleIndInv, VersionsOk
  <2>2. \A a \in Apps : apps[a] \in Nat
    BY <2>1, VersionsApart
  <2>3. \A a \in Apps : apps[a] # Gone => apps[a] + Cardinality(Due(operations')) <= performed + 1
    BY <1>2, <2>1, <2>2, VersionsApart
  <2> QED
    BY <2>1, <2>3 DEF VersionsOk
<1> QED
  BY <1>1, <1>3 DEF ConsoleIndInv

LEMMA OpenModalKeeps ==
  ASSUME ConsoleIndInv, NEW page, NEW kind, OpenModal(page, kind),
         \/ page = "list" /\ kind = "create"
         \/ page = "detail" /\ kind \in {"edit", "delete"}
  PROVE  ConsoleIndInv'
<1> DEFINE m == [NoModal EXCEPT !.page = page, !.kind = kind, !.step = "open"]
<1>1. modal' = Rendered(ui, m) /\ UNCHANGED <<apps, ui, operations, done, performed>>
  BY DEF OpenModal
<1>2. m \in Modals /\ m.page = page /\ m.kind = kind /\ m.nr = 0 /\ m.step = "open"
  <2>1. NoResult \in Results
    BY VersionsApart DEF NoResult, Results
  <2>2. m = [NoModal EXCEPT !.page = page, !.kind = kind, !.step = "open"]
    OBVIOUS
  <2> HIDE DEF m
  <2>3. m = [page |-> page, kind |-> kind, app |-> NoApp, step |-> "open", nr |-> 0,
             result |-> NoResult]
    BY <2>2 DEF NoModal
  <2>4. page \in Pages /\ kind \in Kinds /\ 0 \in 0 .. MaxOperations
    BY VersionsApart DEF Pages, Kinds
  <2> QED
    BY <2>1, <2>3, <2>4 DEF Modals
<1> HIDE DEF m
<1>3. ModalOk(m)
  <2>1. performed \in Nat
    BY VersionsApart DEF ConsoleIndInv, VersionsOk
  <2> QED
    BY <1>2, <2>1 DEF ModalOk, Modals
<1>4. Matching(m, operations)
  BY <1>2, VersionsApart DEF Matching, ConsoleIndInv, OperationsOk, OperationOk
<1>5. ModalOk(modal') /\ Matching(modal', operations) /\ Placed(modal', ui)
  BY <1>1, <1>3, <1>4, RenderedIsOk DEF ConsoleIndInv
<1>6. ModalOk(modal)' /\ Matching(modal, operations)' /\ Placed(modal, ui)'
  BY <1>1, <1>5 DEF ModalOk, Matching, Placed, ResultFits
<1>7. OperationsOk(operations)'
  BY <1>1 DEF ConsoleIndInv, OperationsOk, OperationOk, ResultFits
<1> QED
  BY <1>1, <1>6, <1>7, PagesStay

LEMMA CloseModalKeeps ==
  ASSUME ConsoleIndInv, CloseModal
  PROVE  ConsoleIndInv'
<1>1. modal' = NoModal /\ UNCHANGED <<apps, ui, operations, done, performed>>
  BY DEF CloseModal
<1>2. OperationsOk(operations)'
  BY <1>1 DEF ConsoleIndInv, OperationsOk, OperationOk, ResultFits
<1>3. ModalOk(modal') /\ Matching(modal', operations) /\ Placed(modal', ui)
  BY <1>1, NoModalIsOk DEF ConsoleIndInv
<1>4. ModalOk(modal)' /\ Matching(modal, operations)' /\ Placed(modal, ui)'
  BY <1>1, <1>3 DEF ModalOk, Matching, Placed, ResultFits
<1> QED
  BY <1>1, <1>2, <1>4, PagesStay

\* Operations are numbered, each in its time.
LEMMA PerformKeeps ==
  ASSUME ConsoleIndInv, PerformOperation
  PROVE  ConsoleIndInv'
<1>0. PICK n, o : /\ n = performed + 1
                  /\ o = [nr |-> n, kind |-> modal.kind, app |-> modal.app,
                          step |-> "delayed", result |-> NoResult]
  OBVIOUS
<1>1. /\ modal.step \in {"open", "failed"} /\ performed < MaxOperations
      /\ performed' = n /\ modal' = [modal EXCEPT !.step = "started", !.nr = n]
      /\ operations' = operations \cup {o}
      /\ UNCHANGED <<apps, ui, done>>
  BY <1>0 DEF PerformOperation
<1>2. performed \in 0 .. MaxOperations /\ n \in 1 .. MaxOperations /\ performed \in Nat
  BY <1>0, <1>1, VersionsApart DEF ConsoleIndInv, VersionsOk
<1>3. modal # NoModal
  BY <1>1 DEF NoModal
<1>4. /\ modal \in Modals /\ (modal.page = "list" <=> modal.kind = "create")
  BY <1>3 DEF ConsoleIndInv, ModalOk, Modals
<1>5. OperationOk(o)'
  <2>1. NoResult \in Results
    BY VersionsApart DEF NoResult, Results
  <2> QED
    BY <1>0, <1>1, <1>2, <1>4, <2>1 DEF OperationOk, Modals
<1>6. \A p \in operations : p.nr <= performed /\ p.nr \in Nat /\ OperationOk(p)
  BY DEF ConsoleIndInv, OperationsOk, OperationOk
<1>7. ASSUME NEW p \in operations PROVE OperationOk(p)'
  <2>1. p.nr <= performed'
    BY <1>0, <1>1, <1>2, <1>6
  <2>2. ResultFits(p.kind, p.result)' <=> ResultFits(p.kind, p.result)
    BY <1>1 DEF ResultFits
  <2> QED
    BY <1>6, <2>1, <2>2 DEF OperationOk
<1>8. \A p \in operations : p.nr # n
  BY <1>0, <1>2, <1>6
<1>9. o.nr = n /\ o.kind = modal.kind /\ o.step = "delayed"
  BY <1>0
<1>10. OperationsOk(operations)'
  <2>1. \A p, q \in operations' : p.nr = q.nr => p = q
    BY <1>1, <1>8, <1>9 DEF ConsoleIndInv, OperationsOk
  <2> QED
    BY <1>1, <1>5, <1>7, <2>1 DEF OperationsOk
<1>11. /\ modal' \in Modals /\ modal'.page = modal.page /\ modal'.kind = modal.kind
       /\ modal'.step = "started" /\ modal'.nr = n
  <2>1. n \in 0 .. MaxOperations
    BY <1>2, VersionsApart
  <2> QED
    BY <1>1, <1>4, <2>1 DEF Modals
<1>12. ModalOk(modal)'
  BY <1>1, <1>2, <1>4, <1>11 DEF ModalOk, Modals
<1>13. Matching(modal, operations)'
  BY <1>1, <1>8, <1>9, <1>11 DEF Matching
<1>14. Placed(modal, ui)'
  BY <1>1, <1>3, <1>11 DEF ConsoleIndInv, Placed
<1>15. Due(operations') = Due(operations) \cup {n}
  BY <1>1, <1>9 DEF Due
<1>16. Cardinality(Due(operations')) = Cardinality(Due(operations)) + 1
       /\ Cardinality(Due(operations)) \in Nat
  <2>1. Due(operations) \subseteq 1 .. MaxOperations
    BY DEF ConsoleIndInv, OperationsOk, OperationOk, Due
  <2>2. IsFiniteSet(1 .. MaxOperations)
    BY VersionsApart, FS_Interval
  <2>3. IsFiniteSet(Due(operations))
    BY <2>1, <2>2, FS_Subset
  <2>4. n \notin Due(operations)
    BY <1>8 DEF Due
  <2> QED
    BY <1>15, <2>3, <2>4, FS_AddElement, FS_CardinalityType
<1>17. VersionsOk(operations)'
  <2>1. /\ apps \in [Apps -> 0 .. Gone] /\ done \in [Apps -> 0 .. Gone]
        /\ \A a \in Apps : done[a] <= apps[a]
        /\ \A a \in Apps : apps[a] # Gone => apps[a] + Cardinality(Due(operations)) <= performed + 1
    BY DEF ConsoleIndInv, VersionsOk
  <2>2. \A a \in Apps : apps[a] \in Nat
    BY <2>1, VersionsApart
  <2>3. performed' = performed + 1 /\ performed' \in 0 .. MaxOperations
    BY <1>0, <1>1, <1>2, VersionsApart
  <2>4. \A a \in Apps : apps[a] # Gone => apps[a] + Cardinality(Due(operations')) <= performed' + 1
    BY <1>2, <1>16, <2>1, <2>2, <2>3
  <2> QED
    BY <1>1, <2>1, <2>3, <2>4 DEF VersionsOk
<1>18. (UiOk(ui) /\ Cardinality(DOMAIN ui.fetches) <= MaxFetches
          /\ ListInv(ui, done) /\ DetailInv(ui, done))'
  BY <1>1 DEF ConsoleIndInv, ListInv, ListFits, Exists
<1> QED
  BY <1>10, <1>12, <1>13, <1>14, <1>17, <1>18 DEF ConsoleIndInv

LEMMA SendKeeps ==
  ASSUME ConsoleIndInv, NEW o \in operations, SendOperation(o)
  PROVE  ConsoleIndInv'
<1> DEFINE sent == [o EXCEPT !.step = "sent"]
<1>1. /\ o.step = "delayed" /\ operations' = (operations \ {o}) \cup {sent}
      /\ UNCHANGED <<apps, ui, modal, done, performed>>
  BY DEF SendOperation, Goes
<1>2. OperationOk(o)
  BY DEF ConsoleIndInv, OperationsOk
<1>3. OperationOk(sent) /\ sent.nr = o.nr /\ sent.kind = o.kind /\ sent.step = "sent"
  BY <1>2 DEF OperationOk
<1> HIDE DEF sent
<1>4. OperationsOk(operations')
  BY <1>1, <1>3 DEF ConsoleIndInv, OperationsOk
<1>5. OperationsOk(operations)'
  BY <1>1, <1>4 DEF OperationsOk, OperationOk, ResultFits
<1>6. Due(operations') \subseteq Due(operations)
  BY <1>1, <1>3 DEF Due
<1>7. ModalOk(modal)' /\ Matching(modal, operations)' /\ Placed(modal, ui)'
  BY <1>1, <1>3 DEF ConsoleIndInv, ModalOk, Matching, Placed, ResultFits
<1> QED
  BY <1>1, <1>5, <1>6, <1>7, PagesStay

\* An operation ends: a modal that is still its own shows how.
LEMMA EndKeeps ==
  ASSUME ConsoleIndInv, NEW o \in operations, OperationSucceeds(o) \/ OperationFails(o)
  PROVE  ConsoleIndInv'
<1>1. PICK step \in {"succeeded", "failed"} :
        Ended(o, step) /\ (step = "succeeded" => o.step = "served")
  BY DEF OperationSucceeds, OperationFails
<1> DEFINE m == IF modal.nr # o.nr THEN modal ELSE [modal EXCEPT !.step = step, !.result = o.result]
<1>2. /\ operations' = operations \ {o} /\ modal' = m
      /\ UNCHANGED <<apps, ui, done, performed>>
  BY <1>1 DEF Ended
<1>3. OperationOk(o) /\ OperationsOk(operations) /\ ModalOk(modal) /\ Matching(modal, operations)
      /\ Placed(modal, ui)
  BY DEF ConsoleIndInv, OperationsOk
<1>4. OperationsOk(operations)'
  BY <1>2, <1>3 DEF OperationsOk, OperationOk, ResultFits
<1>5. Due(operations') \subseteq Due(operations)
  BY <1>2 DEF Due
<1>6. ModalOk(m) /\ m.nr = modal.nr /\ m.kind = modal.kind /\ Placed(m, ui)
  <2>1. CASE modal.nr # o.nr
    <3>1. m = modal
      BY <2>1
    <3> QED
      BY <1>3, <3>1
  <2>2. CASE modal.nr = o.nr
    <3>1. modal # NoModal
      BY <1>3, <2>2, VersionsApart DEF NoModal, OperationOk
    <3>2. modal \in Modals /\ o.result \in Results /\ modal.kind = o.kind
      BY <1>3, <2>2, <3>1 DEF ModalOk, Modals, OperationOk, Matching
    <3>3. m = [modal EXCEPT !.step = step, !.result = o.result]
      BY <2>2
    <3> HIDE DEF m
    <3>4. /\ m \in Modals /\ m.page = modal.page /\ m.kind = modal.kind /\ m.nr = modal.nr
          /\ m.step = step /\ m.result = o.result
      BY <3>2, <3>3 DEF Modals
    <3>5. step = "succeeded" => ResultFits(m.kind, m.result)
      BY <1>1, <1>3, <3>2, <3>4 DEF OperationOk
    <3> QED
      BY <1>3, <3>1, <3>4, <3>5 DEF ModalOk, Modals, Placed
  <2> QED
    BY <2>1, <2>2
<1> HIDE DEF m
<1>7. Matching(m, operations')
  BY <1>2, <1>3, <1>6 DEF Matching
<1>8. ModalOk(modal)' /\ Matching(modal, operations)' /\ Placed(modal, ui)'
  BY <1>2, <1>6, <1>7 DEF ModalOk, Matching, Placed, ResultFits
<1> QED
  BY <1>2, <1>4, <1>5, <1>8, PagesStay

\* The server makes one version more: the last but for a deletion.
LEMMA ServeOperationKeeps ==
  ASSUME ConsoleIndInv, NEW o \in operations, ServeOperation(o)
  PROVE  ConsoleIndInv'
<1>0. PICK a \in Apps :
        \E version :
          /\ o.step = "sent"
          /\ version = (IF o.kind = "delete" THEN Gone ELSE apps[a] + 1)
          /\ IF o.kind = "create" THEN apps[a] = Unborn ELSE a = o.app /\ Exists(a)
          /\ apps' = [apps EXCEPT ![a] = version]
          /\ Goes(o, [o EXCEPT !.step = "served", !.result = [app |-> a, version |-> version]])
  BY DEF ServeOperation
<1>1. PICK version :
        /\ o.step = "sent"
        /\ version = (IF o.kind = "delete" THEN Gone ELSE apps[a] + 1)
        /\ IF o.kind = "create" THEN apps[a] = Unborn ELSE a = o.app /\ Exists(a)
        /\ apps' = [apps EXCEPT ![a] = version]
        /\ Goes(o, [o EXCEPT !.step = "served", !.result = [app |-> a, version |-> version]])
  BY <1>0
<1>2. UNCHANGED <<ui, modal, done, performed>>
  BY DEF ServeOperation
<1>3. /\ apps \in [Apps -> 0 .. Gone] /\ done \in [Apps -> 0 .. Gone]
      /\ performed \in 0 .. MaxOperations
      /\ \A b \in Apps : done[b] <= apps[b]
      /\ \A b \in Apps : apps[b] # Gone => apps[b] + Cardinality(Due(operations)) <= performed + 1
  BY DEF ConsoleIndInv, VersionsOk
<1>4. OperationOk(o) /\ \A p \in operations : OperationOk(p) /\ (p.nr = o.nr => p = o)
  BY DEF ConsoleIndInv, OperationsOk
<1>5. apps[a] # Gone /\ apps[a] \in Nat
  BY <1>1, <1>3, VersionsApart DEF Exists
<1> DEFINE ended == [o EXCEPT !.step = "served", !.result = [app |-> a, version |-> version]]
           rest == Due(operations) \ {o.nr}
<1>6. operations' = (operations \ {o}) \cup {ended}
  BY <1>1 DEF Goes
<1>7. /\ IsFiniteSet(Due(operations)) /\ Cardinality(Due(operations)) \in Nat
      /\ Cardinality(rest) = Cardinality(Due(operations)) - 1 /\ Cardinality(rest) \in Nat
  <2>1. Due(operations) \subseteq 1 .. MaxOperations
    BY <1>4 DEF OperationOk, Due
  <2>2. IsFiniteSet(1 .. MaxOperations)
    BY VersionsApart, FS_Interval
  <2>3. IsFiniteSet(Due(operations))
    BY <2>1, <2>2, FS_Subset
  <2>4. o.nr \in Due(operations)
    BY <1>1 DEF Due
  <2>5. IsFiniteSet(rest)
    BY <2>3, FS_Subset
  <2> QED
    BY <2>3, <2>4, <2>5, FS_RemoveElement, FS_CardinalityType
<1>8. apps[a] + 1 < Gone /\ apps[a] + 1 + Cardinality(rest) <= performed + 1
  BY <1>3, <1>5, <1>7, VersionsApart
<1>9. version \in 0 .. Gone /\ version > apps[a]
  BY <1>1, <1>5, <1>8, VersionsApart
<1>10. /\ apps' \in [Apps -> 0 .. Gone] /\ apps'[a] = version
       /\ \A b \in Apps \ {a} : apps'[b] = apps[b]
  BY <1>1, <1>3, <1>9
<1>11. \A b \in Apps : apps[b] <= apps'[b] /\ apps[b] \in Nat /\ apps'[b] \in Nat
  BY <1>3, <1>9, <1>10, VersionsApart
<1>12. /\ ended \in [nr : 1 .. MaxOperations, kind : Kinds, app : Apps \cup {NoApp},
                      step : {"delayed", "sent", "served"}, result : Results]
       /\ ended.nr = o.nr /\ ended.kind = o.kind /\ ended.step = "served"
       /\ ended.result.app = a /\ ended.result.version = version
  <2>1. [app |-> a, version |-> version] \in Results
    BY <1>9 DEF Results
  <2>2. ended = [o EXCEPT !.step = "served", !.result = [app |-> a, version |-> version]]
    OBVIOUS
  <2> HIDE DEF ended
  <2>3. /\ ended \in [nr : 1 .. MaxOperations, kind : Kinds, app : Apps \cup {NoApp},
                       step : {"delayed", "sent", "served"}, result : Results]
        /\ ended.nr = o.nr /\ ended.kind = o.kind /\ ended.step = "served"
        /\ ended.result = [app |-> a, version |-> version]
    BY <1>4, <2>1, <2>2 DEF OperationOk
  <2> QED
    BY <2>3
<1> HIDE DEF ended
<1>13. ResultFits(o.kind, ended.result)'
  <2>1. CASE o.kind = "delete"
    BY <1>1, <1>10, <1>12, <2>1, VersionsApart DEF ResultFits
  <2>2. CASE o.kind = "create"
    <3>1. version = Created
      BY <1>1, <2>2, VersionsApart
    <3> QED
      BY <1>10, <1>12, <2>2, <3>1, VersionsApart DEF ResultFits
  <2>3. CASE o.kind = "edit"
    <3>1. version = apps[a] + 1 /\ apps[a] # Unborn
      BY <1>1, <2>3 DEF Exists
    <3>2. version \notin {Unborn, Created, Gone}
      BY <1>5, <1>8, <3>1, VersionsApart
    <3> QED
      BY <1>9, <1>10, <1>12, <2>3, <3>2, VersionsApart DEF ResultFits
  <2> QED
    BY <1>4, <2>1, <2>2, <2>3 DEF OperationOk, Kinds
\* What was a result is one still, the versions only growing.
<1>14. ASSUME NEW kind, NEW result \in Results, ResultFits(kind, result)
       PROVE  ResultFits(kind, result)'
  <2>1. result.version \in Nat
    BY VersionsApart DEF Results
  <2>2. result.version <= apps'[result.app]
    BY <1>11, <1>14, <2>1 DEF ResultFits
  <2> QED
    BY <1>14, <2>2 DEF ResultFits
<1>15. OperationsOk(operations)'
  <2>1. OperationOk(ended)'
    BY <1>2, <1>4, <1>12, <1>13 DEF OperationOk
  <2>2. ASSUME NEW p \in operations PROVE OperationOk(p)'
    BY <1>2, <1>4, <1>14 DEF OperationOk
  <2>3. \A p, q \in operations' : p.nr = q.nr => p = q
    BY <1>4, <1>6, <1>12 DEF ConsoleIndInv, OperationsOk
  <2> QED
    BY <1>6, <2>1, <2>2, <2>3 DEF OperationsOk
<1>16. Due(operations') = rest
  BY <1>4, <1>6, <1>12 DEF Due
<1> HIDE DEF rest
<1>17. VersionsOk(operations)'
  <2>1. \A b \in Apps : done[b] <= apps'[b]
    BY <1>3, <1>11, VersionsApart
  <2>2. ASSUME NEW b \in Apps, apps'[b] # Gone
        PROVE  apps'[b] + Cardinality(rest) <= performed + 1
    <3>1. CASE b = a
      BY <1>1, <1>8, <1>10, <2>2, <3>1
    <3>2. CASE b # a
      BY <1>3, <1>7, <1>10, <1>11, <2>2, <3>2
    <3> QED
      BY <3>1, <3>2
  <2> QED
    BY <1>2, <1>3, <1>10, <1>16, <2>1, <2>2 DEF VersionsOk
<1>18. (UiOk(ui) /\ Cardinality(DOMAIN ui.fetches) <= MaxFetches /\ DetailInv(ui, done))'
  BY <1>2 DEF ConsoleIndInv, DetailInv
<1>19. ListInv(ui, done)'
  <2>1. ASSUME NEW b \in Apps, done[b] = Created, Exists(b)' PROVE Exists(b)
    <3>1. apps[b] # Unborn
      BY <1>3, <1>11, <2>1, VersionsApart
    <3>2. apps[b] # Gone
      BY <1>5, <1>10, <2>1 DEF Exists
    <3> QED
      BY <3>1, <3>2 DEF Exists
  <2>2. \A found : ListFits(found, done) => ListFits(found, done)'
    BY <1>2, <2>1 DEF ListFits
  <2> QED
    BY <1>2, <2>2 DEF ConsoleIndInv, ListInv
<1>20. ModalOk(modal)'
  <2>1. ModalOk(modal)
    BY DEF ConsoleIndInv
  <2> QED
    BY <1>2, <1>14, <2>1 DEF ModalOk
<1>21. Matching(modal, operations)' /\ Placed(modal, ui)'
  BY <1>2, <1>6, <1>12 DEF ConsoleIndInv, Matching, Placed
<1> QED
  BY <1>15, <1>17, <1>18, <1>19, <1>20, <1>21 DEF ConsoleIndInv

\* What the user saw succeed is fetched by the page that may show it.
LEMMA UpdatedIsOk ==
  ASSUME ConsoleIndInv, modal.step = "succeeded",
         NEW d, d = [done EXCEPT ![modal.result.app] = modal.result.version]
  PROVE  /\ UiOk(Updated) /\ ListInv(Updated, d) /\ DetailInv(Updated, d)
         /\ d \in [Apps -> 0 .. Gone] /\ \A a \in Apps : d[a] <= apps[a]
<1> DEFINE app == modal.result.app
           version == modal.result.version
<1>1. modal # NoModal
  BY DEF NoModal
<1>2. /\ modal \in Modals /\ (modal.page = "list" <=> modal.kind = "create")
      /\ ResultFits(modal.kind, modal.result)
  BY <1>1 DEF ConsoleIndInv, ModalOk, Modals
<1>3. app \in Apps /\ version \in 0 .. Gone /\ version <= apps[app]
  BY <1>2 DEF Modals, Results, ResultFits
<1>4. /\ done \in [Apps -> 0 .. Gone] /\ \A a \in Apps : done[a] <= apps[a]
      /\ UiOk(ui) /\ ListInv(ui, done) /\ DetailInv(ui, done)
      /\ Cardinality(DOMAIN ui.fetches) <= MaxFetches /\ Placed(modal, ui)
  BY DEF ConsoleIndInv, VersionsOk
<1>5. /\ d \in [Apps -> 0 .. Gone] /\ d[app] = version
      /\ \A a \in Apps \ {app} : d[a] = done[a]
  BY <1>3, <1>4
<1>6. \A a \in Apps : d[a] <= apps[a]
  BY <1>3, <1>4, <1>5
<1>7. Room(ui)
  BY <1>4, RoomForOne
<1>8. app # NoApp
  BY <1>3, ConsoleAssumption
<1> HIDE DEF app, version
<1>9. CASE modal.kind = "create"
  <2> DEFINE v == Fetching(ui, "list", NoApp)
  <2>1. Updated = Went(v, app)
    BY <1>9 DEF Updated, app
  <2>2. version = Created
    BY <1>2, <1>9 DEF ResultFits, version
  <2>3. DetailInv(ui, d)
    <3>1. ui.url \in Apps \cup {NoApp} /\ (ui.detail.status = "unmounted" <=> ui.url = NoApp)
      BY <1>4 DEF UiOk, DetailInv
    <3>2. ASSUME NEW k \in Numbers(ui, "detail"), ~ui.detail.hurried,
                 ui.fetches[k].state = "served"
          PROVE  ui.fetches[k].found[ui.url] >= d[ui.url]
      <4>1. /\ ui.fetches[k].of = ui.url /\ ui.url # NoApp
            /\ ui.fetches[k].found[ui.url] >= done[ui.url]
        BY <1>4, <3>2 DEF DetailInv, Pending
      <4>2. ui.fetches[k].found[ui.url] >= Created
        BY <1>4, <3>2, <4>1 DEF UiOk, RequestOk, Numbers
      <4> QED
        BY <1>5, <2>2, <3>1, <4>1, <4>2
    <3>3. ASSUME ui.detail.status = "succeeded", ~ui.detail.hurried
          PROVE  ui.detail.shown[ui.url] >= d[ui.url]
      <4>1. /\ DOMAIN ui.detail.shown = {ui.url} /\ ui.url # NoApp
            /\ ui.detail.shown[ui.url] >= done[ui.url] /\ ui.detail.shown[ui.url] >= Created
        BY <1>4, <3>3 DEF DetailInv
      <4> QED
        BY <1>5, <2>2, <3>1, <4>1
    <3> QED
      BY <1>4, <3>2, <3>3 DEF DetailInv
  <2>4. /\ UiOk(v) /\ ListInv(v, d) /\ DetailInv(v, d) /\ v.url = ui.url
        /\ DOMAIN v.fetches = DOMAIN ui.fetches \cup {FreeNumber(ui)}
    BY <1>4, <1>7, <2>3, ListIsFetched
  <2>5. Room(v)
    BY <1>4, <1>7, <2>4, RoomForTwo DEF Room, UiOk
  <2> HIDE DEF v
  <2>6. UiOk(Updated) /\ ListInv(Updated, d) /\ DetailInv(Updated, d)
    <3>1. CASE v.url = app
      BY <1>3, <2>1, <2>4, <3>1, WentNowhere DEF app
    <3>2. CASE v.url # app
      BY <1>3, <2>1, <2>4, <2>5, <3>2, WentElsewhere DEF app
    <3> QED
      BY <3>1, <3>2
  <2> QED
    BY <1>5, <1>6, <2>6
<1>10. CASE modal.kind = "edit"
  <2> DEFINE v == Fetching(ui, "detail", ui.url)
  <2>1. Updated = Went(v, app)
    BY <1>10 DEF Updated, app
  <2>2. version \notin {Unborn, Created, Gone}
    BY <1>2, <1>10 DEF ResultFits, version
  <2>3. ListInv(ui, d)
    <3>1. \A found : ListFits(found, done) => ListFits(found, d)
      BY <1>5, <2>2 DEF ListFits
    <3> QED
      BY <1>4, <3>1 DEF ListInv
  <2>4. ui.url # NoApp
    <3>1. modal.page = "detail"
      BY <1>2, <1>10 DEF Modals, Pages
    <3>2. ui.detail.status = "succeeded"
      BY <1>1, <1>4, <3>1 DEF Placed
    <3> QED
      BY <1>4, <3>2 DEF DetailInv
  <2>5. /\ UiOk(v) /\ ListInv(v, d) /\ DetailInv(v, d) /\ v.url = ui.url
        /\ DOMAIN v.fetches = DOMAIN ui.fetches \cup {FreeNumber(ui)}
    BY <1>4, <1>7, <2>3, <2>4, DetailIsFetched
  <2>6. Room(v)
    BY <1>4, <1>7, <2>5, RoomForTwo DEF Room, UiOk
  <2> HIDE DEF v
  <2>7. UiOk(Updated) /\ ListInv(Updated, d) /\ DetailInv(Updated, d)
    <3>1. CASE v.url = app
      BY <1>3, <2>1, <2>5, <3>1, WentNowhere DEF app
    <3>2. CASE v.url # app
      BY <1>3, <2>1, <2>5, <2>6, <3>2, WentElsewhere DEF app
    <3> QED
      BY <3>1, <3>2
  <2> QED
    BY <1>5, <1>6, <2>7
<1>11. CASE modal.kind = "delete"
  <2>1. Updated = Went(ui, NoApp)
    BY <1>11 DEF Updated
  <2>2. ui.url # NoApp
    <3>1. modal.page = "detail"
      BY <1>2, <1>11 DEF Modals, Pages
    <3>2. ui.detail.status = "succeeded"
      BY <1>1, <1>4, <3>1 DEF Placed
    <3> QED
      BY <1>4, <3>2 DEF DetailInv
  <2>3. UiOk(Updated) /\ ListInv(Updated, d) /\ DetailInv(Updated, d)
    BY <1>4, <1>7, <2>1, <2>2, WentHome
  <2> QED
    BY <1>5, <1>6, <2>3
<1> QED
  BY <1>2, <1>9, <1>10, <1>11 DEF Modals, Kinds

LEMMA CloseAfterSuccessKeeps ==
  ASSUME ConsoleIndInv, CloseAfterSuccess
  PROVE  ConsoleIndInv'
<1>1. /\ modal.step = "succeeded" /\ Shows(Updated, NoModal)
      /\ done' = [done EXCEPT ![modal.result.app] = modal.result.version]
      /\ apps' = apps /\ performed' = performed
  BY DEF CloseAfterSuccess
<1>2. /\ UiOk(Updated) /\ ListInv(Updated, done') /\ DetailInv(Updated, done')
      /\ done' \in [Apps -> 0 .. Gone] /\ \A a \in Apps : done'[a] <= apps[a]
  BY <1>1, UpdatedIsOk
<1>3. OperationsOk(operations) /\ VersionsOk(operations)
  BY DEF ConsoleIndInv
<1>4. ModalOk(NoModal) /\ Matching(NoModal, operations)
  BY <1>3, NoModalIsOk
<1> DEFINE u == Updated
<1>5. /\ Shows(u, NoModal) /\ UiOk(u) /\ ListInv(u, done') /\ DetailInv(u, done')
  BY <1>1, <1>2
<1> HIDE DEF u
<1> QED
  BY <1>1, <1>2, <1>3, <1>4, <1>5, ShowsInOrder

-----------------------------------------------------------------------------
(***************************************************************************)
(* The theorems.                                                           *)
(***************************************************************************)
LEMMA ConsoleStepInOrder ==
  ConsoleIndInv /\ [ConsoleNext]_consoleVars => ConsoleIndInv'
<1> SUFFICES ASSUME ConsoleIndInv, [ConsoleNext]_consoleVars
             PROVE  ConsoleIndInv'
  OBVIOUS
<1>1. CASE UNCHANGED consoleVars
  <2>1. UNCHANGED <<apps, ui, modal, operations, done, performed>>
    BY <1>1 DEF consoleVars
  <2>2. ModalOk(modal)' /\ Matching(modal, operations)' /\ Placed(modal, ui)'
    BY <2>1 DEF ConsoleIndInv, ModalOk, Matching, Placed, ResultFits
  <2>3. OperationsOk(operations)'
    BY <2>1 DEF ConsoleIndInv, OperationsOk, OperationOk, ResultFits
  <2> QED
    BY <2>1, <2>2, <2>3, PagesStay
<1>2. ASSUME NEW url \in Apps \cup {NoApp}, GoTo(url) PROVE ConsoleIndInv'
  BY <1>2, GoToKeeps
<1>3. ASSUME NEW k \in DOMAIN ui.fetches, ServeFetch(k) \/ FetchArrives(k) \/ FetchFails(k)
      PROVE  ConsoleIndInv'
  BY <1>3, ServeFetchKeeps, RequestEndKeeps
<1>4. ASSUME NEW page \in Pages, RetryFetch(page) PROVE ConsoleIndInv'
  BY <1>4, RetryKeeps
<1>5. ASSUME OpenModal("list", "create") PROVE ConsoleIndInv'
  BY <1>5, OpenModalKeeps
<1>6. ASSUME NEW kind \in {"edit", "delete"}, OpenModal("detail", kind) PROVE ConsoleIndInv'
  BY <1>6, OpenModalKeeps
<1>7. ASSUME CloseModal PROVE ConsoleIndInv'
  BY <1>7, CloseModalKeeps
<1>8. ASSUME PerformOperation PROVE ConsoleIndInv'
  BY <1>8, PerformKeeps
<1>9. ASSUME CloseAfterSuccess PROVE ConsoleIndInv'
  BY <1>9, CloseAfterSuccessKeeps
<1>10. ASSUME NEW o \in operations,
              \/ SendOperation(o) \/ ServeOperation(o)
              \/ OperationSucceeds(o) \/ OperationFails(o)
       PROVE  ConsoleIndInv'
  BY <1>10, SendKeeps, ServeOperationKeeps, EndKeeps
<1> QED
  BY <1>1, <1>2, <1>3, <1>4, <1>5, <1>6, <1>7, <1>8, <1>9, <1>10 DEF ConsoleNext

\* The pages, the requests, the modal, the operations and what the user saw succeed go
\* together as ConsoleIndInv says, for any number of apps, requests, moves and operations.
THEOREM ConsoleIndInvHolds == ConsoleSpec => []ConsoleIndInv
BY InitInOrder, ConsoleStepInOrder, PTL DEF ConsoleSpec

LEMMA FindingsAreFunctions ==
  ASSUME NEW f, Finding(f)
  PROVE  f \in UNION {[S -> 0 .. Gone] : S \in SUBSET Apps}
BY DEF Finding

LEMMA ConsoleIndInvImplies ==
  ConsoleIndInv => ConsoleInv
<1> SUFFICES ASSUME ConsoleIndInv PROVE ConsoleInv
  OBVIOUS
<1>1. UiOk(ui) /\ ListInv(ui, done) /\ DetailInv(ui, done) /\ Placed(modal, ui) /\ ModalOk(modal)
      /\ apps \in [Apps -> 0 .. Gone] /\ done \in [Apps -> 0 .. Gone]
  BY DEF ConsoleIndInv, VersionsOk
<1>2. ASSUME NEW v, ViewOk(v) PROVE v \in Views
  <2>1. v.shown \in UNION {[S -> 0 .. Gone] : S \in SUBSET Apps}
    BY <1>2, FindingsAreFunctions DEF ViewOk
  <2> DEFINE findings == UNION {[S -> 0 .. Gone] : S \in SUBSET Apps}
  <2>2. v.shown \in findings
    BY <2>1
  <2> HIDE DEF findings
  <2>3. v \in [status : {"unmounted", "started", "succeeded", "failed"},
               hurried : BOOLEAN, shown : findings]
    BY <1>2, <2>2 DEF ViewOk
  <2> QED
    BY <2>3 DEF findings, Views
<1>3. ConsoleTypeOK
  <2>1. \A page \in Pages : ui[page] \in Views /\ (ui[page].status = "started" => Pending(ui, page))
    BY <1>1, <1>2 DEF UiOk, ListInv, DetailInv, Pages
  <2> QED
    BY <1>1, <2>1 DEF ConsoleTypeOK, UiOk, DetailInv, Placed
<1>4. ShownIsAsked
  BY <1>1 DEF ShownIsAsked, DetailInv
<1>5. OwnChangesShow
  <2>1. ui.detail.status = "succeeded" /\ ~ui.detail.hurried =>
          \A a \in DOMAIN ui.detail.shown : ui.detail.shown[a] >= done[a]
    BY <1>1 DEF DetailInv
  <2>2. ui.list.status = "succeeded" /\ ~ui.list.hurried => ListFits(ui.list.shown, done)
    BY <1>1 DEF ListInv
  <2> QED
    BY <2>1, <2>2 DEF OwnChangesShow, ListFits
<1> QED
  BY <1>3, <1>4, <1>5 DEF ConsoleInv

\* What the pages of the console show is what was asked for and never older than what the
\* user changed, however answers overtake each other, for any number of apps, requests,
\* moves and operations.
THEOREM ConsoleShowsWhatIs == ConsoleSpec => []ConsoleInv
BY ConsoleIndInvHolds, ConsoleIndInvImplies, PTL

==============================================================================
