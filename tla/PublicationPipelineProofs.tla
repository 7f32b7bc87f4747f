---------------------- MODULE PublicationPipelineProofs ----------------------
(***************************************************************************)
(* Theorems of PublicationOutbox and of PublicationPipeline, for every     *)
(* number of workers, requests, attempts, releases, keys, records and PUTs *)
(* under way: the functions of the database keep its tables consistent     *)
(* whatever calls them, the pointer of the bucket leads and the database   *)
(* follows, a live lease is exclusive, and the whole implements the        *)
(* publication register.                                                   *)
(***************************************************************************)
EXTENDS PublicationPipeline, FiniteSetTheorems, TLAPS

-----------------------------------------------------------------------------
(* The outbox. *)

(***************************************************************************)
(* Type correctness.  That lease_version stays below the bound of its type *)
(* needs that it counts the same claims as attempt_count.                  *)
(***************************************************************************)
VersionCountsAttempts ==
  \A g \in Generations : outbox[g].version = outbox[g].attempts

TypeInv == TypeOK /\ VersionCountsAttempts

\* A row is numbered anew.
Counted(row, m, n) == [row EXCEPT !.attempts = m, !.version = n]

LEMMA CountedIsRow ==
  ASSUME NEW row \in Rows, NEW m \in 0 .. MaxAttempts, NEW n \in 0 .. MaxAttempts
  PROVE  /\ Counted(row, m, n) \in Rows
         /\ Counted(row, m, n).attempts = m
         /\ Counted(row, m, n).version = n
BY DEF Rows, Counted

\* A claimed row with an attempt left is a well-formed row.
LEMMA LeasedIsRow ==
  ASSUME NEW row \in Rows, NEW owner \in Owners,
         row.attempts < MaxAttempts, row.version = row.attempts
  PROVE  /\ Leased(row, owner) \in Rows
         /\ Leased(row, owner).version = Leased(row, owner).attempts
<1> DEFINE m == row.attempts + 1
           n == row.version + 1
           held == [row EXCEPT !.state = "LEASED", !.owner = owner,
                               !.live = TRUE, !.due = FALSE]
<1>1. m \in 0 .. MaxAttempts /\ n \in 0 .. MaxAttempts /\ m = n
  BY BoundsAssumption DEF Rows
<1>2. held \in Rows
  BY DEF Rows
<1>3. Leased(row, owner) = Counted(held, m, n)
  BY DEF Leased, Counted
<1> HIDE DEF held, m, n
<1> QED
  BY <1>1, <1>2, <1>3, CountedIsRow

\* So is a row handed back, acknowledged or failed.
LEMMA ReleasedIsRow ==
  ASSUME NEW row \in Rows, NEW state \in {"PENDING", "ACKNOWLEDGED", "FAILED"},
         row.version = row.attempts
  PROVE  /\ Released(row, state) \in Rows
         /\ Released(row, state).version = Released(row, state).attempts
BY DEF Released, Rows

\* Completing the records of any rows keeps them records.
LEMMA CompletedIsTyped ==
  ASSUME TypeOK, NEW rows \in SUBSET Generations, NEW result \in {"SUCCEEDED", "FAILED"}
  PROVE  Completed(rows, result) \in [IdempotencyIds -> IdempotencyRecords]
<1> SUFFICES ASSUME NEW i \in IdempotencyIds
             PROVE  Completed(rows, result)[i] \in IdempotencyRecords
  BY DEF Completed
<1>1. CASE \E g \in rows : outbox[g].idempotency = i
  <2> DEFINE row == CHOOSE g \in rows : outbox[g].idempotency = i
  <2>1. row \in Generations
    BY <1>1
  <2>2. Completed(rows, result)[i] =
          [idempotency[i] EXCEPT !.state = "COMPLETED", !.result = result, !.row = row]
    BY <1>1 DEF Completed
  <2>3. idempotency[i] \in IdempotencyRecords
    BY DEF TypeOK
  <2> QED
    BY <2>1, <2>2, <2>3 DEF IdempotencyRecords
<1>2. CASE ~ \E g \in rows : outbox[g].idempotency = i
  BY <1>2 DEF Completed, TypeOK
<1> QED
  BY <1>1, <1>2

\* Recording events keeps the counters counters.
LEMMA AuditedIsTyped ==
  ASSUME TypeOK, NEW rows \in SUBSET Generations, NEW action \in AuditActions
  PROVE  Audited(rows, action) \in [Generations -> [AuditActions -> Nat]]
BY DEF Audited, TypeOK

\* The empty outbox is well typed.
LEMMA InitTypeInv == Init => TypeInv
<1> SUFFICES ASSUME Init PROVE TypeInv
  OBVIOUS
<1>1. desired \in Pointers /\ served \in Pointers
  BY DEF Init, Pointers
<1>2. published \in [Releases -> BOOLEAN]
  BY DEF Init
<1>3. outbox \in [Generations -> Rows] /\ VersionCountsAttempts
  BY BoundsAssumption DEF Init, Rows, Operations, VersionCountsAttempts
<1>4. idempotency \in [IdempotencyIds -> IdempotencyRecords]
  BY DEF Init
<1>5. audit \in [Generations -> [AuditActions -> Nat]]
  BY DEF Init
<1> QED
  BY <1>1, <1>2, <1>3, <1>4, <1>5 DEF TypeInv, TypeOK

\* A claim increments attempt_count only below max_attempts.
LEMMA ClaimTypeInv ==
  ASSUME TypeInv, NEW owner \in Owners, NEW locked \in SUBSET Generations,
         Claim(owner, locked)
  PROVE  TypeInv'
<1> USE DEF TypeInv, TypeOK, VersionCountsAttempts
<1> DEFINE open == Generations \ locked
           leased == {g \in open : Claimable(g)}
           overtaken == {g \in open : Superseded(g)}
           spent == {g \in open : Exhausted(g)}
<1>1. PICK exhausted \in SUBSET spent, superseded \in SUBSET overtaken :
        /\ outbox' = [g \in Generations |->
                        IF g \in leased THEN Leased(outbox[g], owner)
                        ELSE IF g \in exhausted THEN Released(outbox[g], "FAILED")
                        ELSE IF g \in superseded
                             THEN Released(Leased(outbox[g], owner), "FAILED")
                        ELSE outbox[g]]
        /\ idempotency' = Completed(exhausted \cup superseded, "FAILED")
        /\ audit' = Audited(exhausted \cup superseded, "FAILED")
  BY DEF Claim
<1>2. \A g \in Generations : /\ outbox'[g] \in Rows
                             /\ outbox'[g].version = outbox'[g].attempts
  <2> SUFFICES ASSUME NEW g \in Generations
               PROVE  outbox'[g] \in Rows /\ outbox'[g].version = outbox'[g].attempts
    OBVIOUS
  <2>1. outbox[g] \in Rows /\ outbox[g].version = outbox[g].attempts
    OBVIOUS
  <2>2. CASE g \in leased
    <3>1. outbox'[g] = Leased(outbox[g], owner) /\ outbox[g].attempts < MaxAttempts
      BY <1>1, <2>2 DEF Claimable
    <3> QED
      BY <2>1, <3>1, LeasedIsRow
  <2>3. CASE g \notin leased /\ g \in exhausted
    BY <1>1, <2>1, <2>3, ReleasedIsRow
  <2>4. CASE g \notin leased /\ g \notin exhausted /\ g \in superseded
    <3>1. outbox'[g] = Released(Leased(outbox[g], owner), "FAILED")
      BY <1>1, <2>4
    <3>2. outbox[g].attempts < MaxAttempts
      BY <2>4 DEF Superseded
    <3>3. /\ Leased(outbox[g], owner) \in Rows
          /\ Leased(outbox[g], owner).version = Leased(outbox[g], owner).attempts
      BY <2>1, <3>2, LeasedIsRow
    <3> QED
      BY <3>1, <3>3, ReleasedIsRow
  <2>5. CASE g \notin leased /\ g \notin exhausted /\ g \notin superseded
    BY <1>1, <2>1, <2>5
  <2> QED
    BY <2>2, <2>3, <2>4, <2>5
<1>3. outbox' \in [Generations -> Rows]
  BY <1>1, <1>2
<1>4. idempotency' \in [IdempotencyIds -> IdempotencyRecords]
  BY <1>1, CompletedIsTyped
<1>5. audit' \in [Generations -> [AuditActions -> Nat]]
  BY <1>1, AuditedIsTyped DEF AuditActions
<1> QED
  BY <1>2, <1>3, <1>4, <1>5 DEF Claim

\* The row of one generation is replaced by a well-formed one.
LEMMA RowReplaced ==
  ASSUME TypeInv, NEW g \in Generations, NEW row \in Rows,
         row.version = row.attempts, outbox' = [outbox EXCEPT ![g] = row]
  PROVE  outbox' \in [Generations -> Rows] /\ VersionCountsAttempts'
BY DEF TypeInv, TypeOK, VersionCountsAttempts

\* A request stays within the generations.
LEMMA RequestTypeInv ==
  ASSUME TypeInv, NEW i \in IdempotencyIds, NEW operation \in Operations,
         NEW release \in Releases \cup {NoRelease}, Request(i, operation, release)
  PROVE  TypeInv'
<1> DEFINE g == desired.generation + 1
           row == [outbox[g] EXCEPT !.state = "PENDING", !.release = release,
                                    !.operation = operation, !.idempotency = i,
                                    !.due = TRUE]
<1>1. /\ g \in Generations
      /\ outbox' = [outbox EXCEPT ![g] = row]
  BY DEF Request
<1>2. outbox[g] \in Rows /\ outbox[g].version = outbox[g].attempts
  BY <1>1 DEF TypeInv, TypeOK, VersionCountsAttempts
<1>3. row \in Rows /\ row.version = row.attempts
  BY <1>2 DEF Rows
<1>4. outbox' \in [Generations -> Rows] /\ VersionCountsAttempts'
  BY <1>1, <1>3, RowReplaced
<1>5. desired' \in Pointers
  BY <1>1 DEF Request, Pointers, Generations
<1>6. audit' \in [Generations -> [AuditActions -> Nat]]
  BY <1>1, AuditedIsTyped DEF Request, AuditActions, TypeInv
<1> QED
  BY <1>4, <1>5, <1>6 DEF Request, TypeInv, TypeOK

\* An acknowledgement writes a served pointer, a row and its record.
LEMMA AcknowledgeTypeInv ==
  ASSUME TypeInv, NEW g \in Generations, NEW owner \in Owners,
         NEW version \in 1 .. MaxAttempts, NEW document \in Documents,
         Acknowledge(g, owner, version, document)
  PROVE  TypeInv'
<1>1. outbox[g] \in Rows /\ outbox[g].version = outbox[g].attempts
  BY DEF TypeInv, TypeOK, VersionCountsAttempts
<1> DEFINE row == [Released(outbox[g], "ACKNOWLEDGED") EXCEPT !.projection = document]
<1>2. /\ Released(outbox[g], "ACKNOWLEDGED") \in Rows
      /\ Released(outbox[g], "ACKNOWLEDGED").version
           = Released(outbox[g], "ACKNOWLEDGED").attempts
  BY <1>1, ReleasedIsRow
<1>3. row \in Rows /\ row.version = row.attempts
  BY <1>2 DEF Rows
<1>4. outbox' \in [Generations -> Rows] /\ VersionCountsAttempts'
  BY <1>3, RowReplaced DEF Acknowledge
<1>5. served' \in Pointers
  BY <1>1 DEF Acknowledge, Pointers, Generations, Rows
<1>6. published' \in [Releases -> BOOLEAN]
  BY DEF Acknowledge
<1>7. idempotency' \in [IdempotencyIds -> IdempotencyRecords]
  BY CompletedIsTyped DEF Acknowledge, TypeInv
<1>8. audit' \in [Generations -> [AuditActions -> Nat]]
  BY AuditedIsTyped DEF Acknowledge, AuditActions, TypeInv
<1> QED
  BY <1>4, <1>5, <1>6, <1>7, <1>8 DEF Acknowledge, TypeInv, TypeOK

\* The other calls of a worker touch one row.
LEMMA WorkerCallTypeInv ==
  ASSUME TypeInv, NEW g \in Generations, NEW owner \in Owners,
         NEW version \in 1 .. MaxAttempts,
         \/ \E kid \in Kids : BindKey(g, owner, version, kid)
         \/ Retry(g, owner, version)
         \/ Fail(g, owner, version)
  PROVE  TypeInv'
<1>1. outbox[g] \in Rows /\ outbox[g].version = outbox[g].attempts
  BY DEF TypeInv, TypeOK, VersionCountsAttempts
<1>2. CASE \E kid \in Kids : BindKey(g, owner, version, kid)
  <2>1. PICK kid \in Kids : outbox' = [outbox EXCEPT ![g] = [@ EXCEPT !.kid = kid]]
    BY <1>2 DEF BindKey
  <2> DEFINE row == [outbox[g] EXCEPT !.kid = kid]
  <2>2. row \in Rows /\ row.version = row.attempts
    BY <1>1 DEF Rows
  <2>3. outbox' \in [Generations -> Rows] /\ VersionCountsAttempts'
    BY <2>1, <2>2, RowReplaced
  <2> QED
    BY <1>2, <2>3 DEF BindKey, TypeInv, TypeOK
<1>3. CASE Retry(g, owner, version)
  <2>1. outbox' \in [Generations -> Rows] /\ VersionCountsAttempts'
    BY <1>1, <1>3, ReleasedIsRow, RowReplaced DEF Retry
  <2> QED
    BY <1>3, <2>1 DEF Retry, TypeInv, TypeOK
<1>4. CASE Fail(g, owner, version)
  <2>1. outbox' \in [Generations -> Rows] /\ VersionCountsAttempts'
    BY <1>1, <1>4, ReleasedIsRow, RowReplaced DEF Fail
  <2>2. idempotency' \in [IdempotencyIds -> IdempotencyRecords]
    BY <1>4, CompletedIsTyped DEF Fail, TypeInv
  <2>3. audit' \in [Generations -> [AuditActions -> Nat]]
    BY <1>4, AuditedIsTyped DEF Fail, AuditActions, TypeInv
  <2> QED
    BY <1>4, <2>1, <2>2, <2>3 DEF Fail, TypeInv, TypeOK
<1> QED
  BY <1>2, <1>3, <1>4

\* The clock touches one flag of one row.
LEMMA ClockTypeInv ==
  ASSUME TypeInv, NEW g \in Generations, LeaseExpires(g) \/ RetryFallsDue(g)
  PROVE  TypeInv'
<1> DEFINE expired == [outbox[g] EXCEPT !.live = FALSE]
           due == [outbox[g] EXCEPT !.due = TRUE]
<1>1. /\ expired \in Rows /\ expired.version = expired.attempts
      /\ due \in Rows /\ due.version = due.attempts
  <2>1. outbox[g] \in Rows /\ outbox[g].version = outbox[g].attempts
    BY DEF TypeInv, TypeOK, VersionCountsAttempts
  <2>2. expired \in Rows /\ expired.version = expired.attempts
    BY <2>1 DEF Rows
  <2>3. due \in Rows /\ due.version = due.attempts
    BY <2>1 DEF Rows
  <2> QED
    BY <2>2, <2>3
<1>2. outbox' = [outbox EXCEPT ![g] = expired] \/ outbox' = [outbox EXCEPT ![g] = due]
  BY DEF LeaseExpires, RetryFallsDue
<1>3. outbox' \in [Generations -> Rows] /\ VersionCountsAttempts'
  BY <1>1, <1>2, RowReplaced
<1> QED
  BY <1>3 DEF LeaseExpires, RetryFallsDue, TypeInv, TypeOK

\* Housekeeping touches one record.
LEMMA HousekeepingTypeInv ==
  ASSUME TypeInv, NEW i \in IdempotencyIds,
         IdempotencyExpires(i) \/ DeleteIdempotency(i)
  PROVE  TypeInv'
<1>1. idempotency[i] \in IdempotencyRecords
  BY DEF TypeInv, TypeOK
<1>2. /\ [idempotency[i] EXCEPT !.expired = TRUE] \in IdempotencyRecords
      /\ [idempotency[i] EXCEPT !.state = "DELETED"] \in IdempotencyRecords
  BY <1>1 DEF IdempotencyRecords
<1>3. idempotency' \in [IdempotencyIds -> IdempotencyRecords]
  BY <1>2 DEF IdempotencyExpires, DeleteIdempotency, TypeInv, TypeOK
<1> QED
  BY <1>3 DEF IdempotencyExpires, DeleteIdempotency, TypeInv, TypeOK, VersionCountsAttempts

\* Every step keeps the types.
LEMMA StepTypeInv == TypeInv /\ [Next]_outboxVars => TypeInv'
<1> SUFFICES ASSUME TypeInv, [Next]_outboxVars PROVE TypeInv'
  OBVIOUS
<1>1. CASE Control
  BY <1>1, RequestTypeInv DEF Control
<1>2. ASSUME NEW owner \in Owners, NEW locked \in SUBSET Generations,
             Claim(owner, locked)
      PROVE  TypeInv'
  BY <1>2, ClaimTypeInv
<1>3. ASSUME NEW owner \in Owners, NEW g \in Generations,
             NEW version \in 1 .. MaxAttempts,
             \/ \E kid \in Kids : BindKey(g, owner, version, kid)
             \/ Retry(g, owner, version)
             \/ Fail(g, owner, version)
      PROVE  TypeInv'
  BY <1>3, WorkerCallTypeInv
<1>4. ASSUME NEW owner \in Owners, NEW g \in Generations,
             NEW version \in 1 .. MaxAttempts, NEW kid \in Kids,
             Acknowledge(g, owner, version, [generation |-> g, kid |-> kid])
      PROVE  TypeInv'
  <2>1. [generation |-> g, kid |-> kid] \in Documents
    BY DEF Documents
  <2> QED
    BY <1>4, <2>1, AcknowledgeTypeInv
<1>5. CASE Environment
  BY <1>5, ClockTypeInv, HousekeepingTypeInv DEF Environment
<1>6. CASE UNCHANGED outboxVars
  BY <1>6 DEF outboxVars, TypeInv, TypeOK, VersionCountsAttempts
<1> QED
  BY <1>1, <1>2, <1>3, <1>4, <1>5, <1>6 DEF Next, Worker

\* attempt_count, lease_version and every other column keep their types.
THEOREM TypeCorrect == Spec => []TypeOK
<1>1. Init => TypeInv
  BY InitTypeInv
<1>2. TypeInv /\ [Next]_outboxVars => TypeInv'
  BY StepTypeInv
<1>3. TypeInv => TypeOK
  BY DEF TypeInv
<1> QED
  BY <1>1, <1>2, <1>3, PTL DEF Spec

-----------------------------------------------------------------------------
(***************************************************************************)
(* The shapes of a step.  Apart from Request and the housekeeping of the   *)
(* idempotency records, every step ends a set of rows in one final state   *)
(* (mostly no row at all) and moves no other row out of its class: absent, *)
(* in progress, acknowledged or failed.  What identifies a request never   *)
(* changes.                                                                *)
(***************************************************************************)
SameRequest(g) ==
  /\ outbox'[g].release = outbox[g].release
  /\ outbox'[g].operation = outbox[g].operation
  /\ outbox'[g].idempotency = outbox[g].idempotency

SameClass(g) ==
  /\ SameRequest(g)
  /\ (Active(g) /\ Active(g)') \/ outbox'[g].state = outbox[g].state

Ends(rows, newState, result, action) ==
  /\ \A g \in rows : Active(g) /\ outbox'[g].state = newState /\ SameRequest(g)
  /\ \A g \in Generations \ rows : SameClass(g)
  /\ idempotency' = Completed(rows, result)
  /\ audit' = Audited(rows, action)
  /\ UNCHANGED desired

EndsFailed(rows) ==
  Ends(rows, "FAILED", "FAILED", "FAILED") /\ UNCHANGED <<served, published>>

\* Leasing a row keeps what identifies its request.
LEMMA LeasedKeepsRequest ==
  ASSUME NEW row \in Rows, NEW owner
  PROVE  LET new == Leased(row, owner)
         IN /\ new.state = "LEASED" /\ new.release = row.release
            /\ new.operation = row.operation /\ new.idempotency = row.idempotency
BY DEF Leased, Rows

\* So does releasing it, into whatever state.
LEMMA ReleasedKeepsRequest ==
  ASSUME NEW row, NEW state, row \in Rows
  PROVE  LET new == Released(row, state)
         IN /\ new.state = state /\ new.release = row.release
            /\ new.operation = row.operation /\ new.idempotency = row.idempotency
BY DEF Released, Rows

\* A call that ends no row completes no record and records no event.
LEMMA NothingEnds ==
  ASSUME TypeOK
  PROVE  Completed({}, "FAILED") = idempotency /\ Audited({}, "FAILED") = audit
BY DEF Completed, Audited, TypeOK

\* A claim ends exactly the rows of its passes 3 and 4, all of them failed.
LEMMA ClaimEnds ==
  ASSUME TypeInv, NEW owner \in Owners, NEW locked \in SUBSET Generations,
         Claim(owner, locked)
  PROVE  \E rows \in SUBSET Generations : EndsFailed(rows)
<1> DEFINE open == Generations \ locked
           leased == {g \in open : Claimable(g)}
           overtaken == {g \in open : Superseded(g)}
           spent == {g \in open : Exhausted(g)}
<1>1. PICK exhausted \in SUBSET spent, superseded \in SUBSET overtaken :
        /\ outbox' = [g \in Generations |->
                        IF g \in leased THEN Leased(outbox[g], owner)
                        ELSE IF g \in exhausted THEN Released(outbox[g], "FAILED")
                        ELSE IF g \in superseded
                             THEN Released(Leased(outbox[g], owner), "FAILED")
                        ELSE outbox[g]]
        /\ idempotency' = Completed(exhausted \cup superseded, "FAILED")
        /\ audit' = Audited(exhausted \cup superseded, "FAILED")
  BY DEF Claim
<1> DEFINE rows == exhausted \cup superseded
<1>2. rows \in SUBSET Generations
  OBVIOUS
<1>3. ASSUME NEW g \in rows
      PROVE  Active(g) /\ outbox'[g].state = "FAILED" /\ SameRequest(g)
  <2>1. g \in Generations /\ outbox[g] \in Rows
    BY DEF TypeInv, TypeOK
  <2>2. g \notin leased
    <3>1. g \in exhausted => Exhausted(g)
      OBVIOUS
    <3>2. g \in superseded => Superseded(g)
      OBVIOUS
    <3> QED
      BY <2>1, <3>1, <3>2, BoundsAssumption DEF Exhausted, Superseded, Claimable, Rows
  <2>3. Active(g)
    BY DEF Exhausted, Superseded, Active
  <2>4. CASE g \in exhausted
    <3>1. outbox'[g] = Released(outbox[g], "FAILED")
      BY <1>1, <2>1, <2>2, <2>4
    <3> QED
      BY <2>1, <2>3, <3>1, ReleasedKeepsRequest DEF SameRequest
  <2>5. CASE g \notin exhausted
    <3>1. outbox'[g] = Released(Leased(outbox[g], owner), "FAILED")
      BY <1>1, <2>1, <2>2, <2>5
    <3>2. Leased(outbox[g], owner) \in Rows
      <4>1. outbox[g].attempts < MaxAttempts
        BY <2>5 DEF Superseded
      <4> QED
        BY <2>1, <4>1, LeasedIsRow DEF TypeInv, VersionCountsAttempts
    <3> QED
      BY <2>1, <2>3, <3>1, <3>2, LeasedKeepsRequest, ReleasedKeepsRequest DEF SameRequest
  <2> QED
    BY <2>4, <2>5
<1>4. ASSUME NEW g \in Generations \ rows
      PROVE  SameClass(g)
  <2>1. outbox[g] \in Rows
    BY DEF TypeInv, TypeOK
  <2>2. CASE g \in leased
    <3>1. outbox'[g] = Leased(outbox[g], owner)
      BY <1>1, <2>2
    <3>2. Active(g)
      BY <2>2 DEF Claimable, Active
    <3> QED
      BY <2>1, <3>1, <3>2, LeasedKeepsRequest DEF SameClass, SameRequest, Active
  <2>3. CASE g \notin leased
    BY <1>1, <2>3 DEF SameClass, SameRequest
  <2> QED
    BY <2>2, <2>3
<1>5. Ends(rows, "FAILED", "FAILED", "FAILED")
  BY <1>1, <1>3, <1>4 DEF Ends, Claim
<1> QED
  BY <1>2, <1>5 DEF EndsFailed, Claim

\* The clock ends no row.
LEMMA ClockEnds ==
  ASSUME TypeInv, NEW g \in Generations, LeaseExpires(g) \/ RetryFallsDue(g)
  PROVE  \E rows \in SUBSET Generations : EndsFailed(rows)
<1>1. outbox[g] \in Rows /\ TypeOK
  BY DEF TypeInv, TypeOK
<1>2. /\ \A h \in Generations \ {g} : outbox'[h] = outbox[h]
      /\ UNCHANGED <<desired, served, published, idempotency, audit>>
  BY <1>1 DEF LeaseExpires, RetryFallsDue, TypeOK
<1>3. SameClass(g)
  BY <1>1 DEF LeaseExpires, RetryFallsDue, SameClass, SameRequest, TypeOK, Rows
<1>4. EndsFailed({})
  BY <1>1, <1>2, <1>3, NothingEnds DEF EndsFailed, Ends, SameClass, SameRequest
<1> QED
  BY <1>4

\* A call of one worker ends at most the row it is about.
LEMMA CallEnds ==
  ASSUME TypeInv, NEW g \in Generations, NEW owner \in Owners,
         NEW version \in 1 .. MaxAttempts,
         \/ \E kid \in Kids : BindKey(g, owner, version, kid)
         \/ Retry(g, owner, version)
         \/ Fail(g, owner, version)
  PROVE  \E rows \in SUBSET Generations : EndsFailed(rows)
<1>1. outbox[g] \in Rows /\ TypeOK
  BY DEF TypeInv, TypeOK
<1>2. CASE Fail(g, owner, version)
  <2>1. outbox'[g] = Released(outbox[g], "FAILED")
        /\ \A h \in Generations \ {g} : outbox'[h] = outbox[h]
    BY <1>1, <1>2 DEF Fail, TypeOK
  <2>2. Active(g)
    BY <1>2 DEF Fail, Fenced, Active
  <2>3. EndsFailed({g})
    BY <1>1, <1>2, <2>1, <2>2, ReleasedKeepsRequest
    DEF Fail, EndsFailed, Ends, SameClass, SameRequest
  <2> QED
    BY <2>3
<1>3. CASE ~ Fail(g, owner, version)
  <2>1. \A h \in Generations \ {g} : outbox'[h] = outbox[h]
    BY <1>1, <1>3 DEF BindKey, Retry, TypeOK
  <2>2. SameClass(g)
    <3>1. CASE \E kid \in Kids : BindKey(g, owner, version, kid)
      BY <1>1, <3>1 DEF BindKey, SameClass, SameRequest, TypeOK, Rows
    <3>2. CASE Retry(g, owner, version)
      <4>1. outbox'[g] = Released(outbox[g], "PENDING")
        BY <1>1, <3>2 DEF Retry, TypeOK
      <4> QED
        BY <1>1, <3>2, <4>1, ReleasedKeepsRequest
        DEF Retry, Fenced, SameClass, SameRequest, Active
    <3> QED
      BY <1>3, <3>1, <3>2
  <2>3. UNCHANGED <<desired, served, published, idempotency, audit>>
    BY <1>3 DEF BindKey, Retry
  <2>4. EndsFailed({})
    BY <1>1, <2>1, <2>2, <2>3, NothingEnds DEF EndsFailed, Ends, SameClass, SameRequest
  <2> QED
    BY <2>4
<1> QED
  BY <1>2, <1>3

\* An acknowledgement ends its own row, and that row is the desired one.
LEMMA AcknowledgeEnds ==
  ASSUME TypeInv, NEW g \in Generations, NEW owner \in Owners,
         NEW version \in 1 .. MaxAttempts, NEW document \in Documents,
         Acknowledge(g, owner, version, document)
  PROVE  /\ Ends({g}, "ACKNOWLEDGED", "SUCCEEDED", "APPLIED")
         /\ desired.generation = g
<1>1. outbox[g] \in Rows
  BY DEF TypeInv, TypeOK
<1> DEFINE released == Released(outbox[g], "ACKNOWLEDGED")
<1>2. released \in Rows
  BY <1>1, ReleasedIsRow DEF TypeInv, VersionCountsAttempts
<1>3. /\ outbox'[g] = [released EXCEPT !.projection = document]
      /\ \A h \in Generations \ {g} : outbox'[h] = outbox[h]
  BY DEF Acknowledge, TypeInv, TypeOK
<1>4. /\ outbox'[g].state = "ACKNOWLEDGED"
      /\ SameRequest(g)
  BY <1>1, <1>2, <1>3, ReleasedKeepsRequest DEF SameRequest, Rows
<1>5. Active(g) /\ desired.generation = g
  BY DEF Acknowledge, HoldsDesiredLease, Fenced, IsDesired, Active
<1> QED
  BY <1>3, <1>4, <1>5 DEF Ends, Acknowledge, SameClass, SameRequest

-----------------------------------------------------------------------------
(***************************************************************************)
(* The inductive invariant.  The safety properties of PublicationOutbox are*)
(* four of its conjuncts; the others say what they silently rely on:       *)
(* generations are handed out without gaps, a RESTORE or an UNPUBLISH names*)
(* the release it may name, the first publication of a release is still    *)
(* ahead while its row is the desired one, and a pending row has an attempt*)
(* left.                                                                   *)
(***************************************************************************)
RowsUpToDesired ==
  \A g \in Generations : outbox[g].state = "ABSENT" <=> desired.generation < g

AttemptsLeft ==
  \A g \in Generations :
    /\ outbox[g].state = "ABSENT" => outbox[g].attempts = 0
    /\ outbox[g].state = "PENDING" => outbox[g].attempts < MaxAttempts

DesiredPublishIsFirst ==
  \A g \in Generations :
    /\ outbox[g].state # "ABSENT" =>
         (outbox[g].operation = "UNPUBLISH" <=> outbox[g].release = NoRelease)
    /\ desired.generation = g /\ Active(g) /\ outbox[g].operation = "PUBLISH"
         => ~published[outbox[g].release]

OutboxInv ==
  /\ TypeInv
  /\ RowsUpToDesired
  /\ AttemptsLeft
  /\ ServedIsNewestAcknowledged
  /\ IdempotencyFollowsRow
  /\ AuditTellsEveryOutcomeOnce
  /\ DesiredPublishIsFirst
  /\ PublishedOnce

\* What the end of a row leaves of the first conjunct.
LEMMA EndsRowsUpToDesired ==
  ASSUME OutboxInv, NEW rows \in SUBSET Generations,
         NEW newState \in {"ACKNOWLEDGED", "FAILED"}, NEW result, NEW action,
         Ends(rows, newState, result, action)
  PROVE  RowsUpToDesired'
<1> SUFFICES ASSUME NEW g \in Generations
             PROVE  outbox'[g].state = "ABSENT" <=> desired.generation < g
  BY DEF Ends, RowsUpToDesired
<1>1. outbox'[g].state = "ABSENT" <=> outbox[g].state = "ABSENT"
  BY DEF Ends, SameClass, Active
<1> QED
  BY <1>1 DEF OutboxInv, RowsUpToDesired

\* The records of the ended rows tell how they ended, the others are untouched;
\* that no two rows share a record makes the two sets disjoint.
LEMMA EndsIdempotencyFollowsRow ==
  ASSUME OutboxInv, NEW rows \in SUBSET Generations, NEW newState, NEW result, NEW action,
         Ends(rows, newState, result, action),
         \/ newState = "FAILED" /\ result = "FAILED"
         \/ newState = "ACKNOWLEDGED" /\ result = "SUCCEEDED"
  PROVE  IdempotencyFollowsRow'
<1> DEFINE Follows(g) ==
      LET record == idempotency[outbox[g].idempotency]
      IN /\ Active(g) => record.state = "IN_PROGRESS"
         /\ Terminal(g) =>
              /\ record.state # "IN_PROGRESS"
              /\ record.row = g
              /\ record.result =
                   IF outbox[g].state = "FAILED" THEN "FAILED" ELSE "SUCCEEDED"
<1>1. /\ \A g \in Generations : outbox[g].state # "ABSENT" => Follows(g)
      /\ \A g, h \in Generations :
           /\ g # h
           /\ outbox[g].state # "ABSENT"
           /\ outbox[h].state # "ABSENT"
           => outbox[h].idempotency # outbox[g].idempotency
  BY DEF OutboxInv, IdempotencyFollowsRow
<1>2. \A g \in Generations : /\ outbox'[g].idempotency = outbox[g].idempotency
                             /\ outbox'[g].state = "ABSENT" <=> outbox[g].state = "ABSENT"
  BY DEF Ends, SameClass, SameRequest, Active
<1>3. ASSUME NEW g \in Generations, outbox'[g].state # "ABSENT"
      PROVE  Follows(g)'
  <2> DEFINE i == outbox[g].idempotency
  <2>1. i \in IdempotencyIds /\ idempotency[i] \in IdempotencyRecords
    BY DEF OutboxInv, TypeInv, TypeOK, Rows
  <2>2. CASE g \in rows
    <3>1. \A h \in rows : outbox[h].idempotency = i => h = g
      BY <1>1, <2>2 DEF Ends, Active
    <3>2. (CHOOSE h \in rows : outbox[h].idempotency = i) = g
      BY <2>2, <3>1
    <3>3. idempotency'[i] = [idempotency[i] EXCEPT !.state = "COMPLETED",
                                                   !.result = result, !.row = g]
      BY <2>1, <2>2, <3>2 DEF Ends, Completed
    <3>4. /\ idempotency'[i].state = "COMPLETED"
          /\ idempotency'[i].result = result
          /\ idempotency'[i].row = g
      BY <2>1, <3>3 DEF IdempotencyRecords
    <3>5. outbox'[g].state = newState
      BY <2>2 DEF Ends
    <3> QED
      BY <1>2, <3>4, <3>5 DEF Active, Terminal
  <2>3. CASE g \notin rows
    <3>1. \A h \in rows : outbox[h].idempotency # i
      BY <1>1, <1>2, <1>3, <2>3 DEF Ends, Active
    <3>2. idempotency'[i] = idempotency[i]
      BY <2>1, <3>1 DEF Ends, Completed
    <3>3. (Active(g)' /\ Active(g)) \/ outbox'[g].state = outbox[g].state
      BY <2>3 DEF Ends, SameClass
    <3> QED
      BY <1>1, <1>2, <1>3, <3>2, <3>3 DEF Active, Terminal
  <2> QED
    BY <2>2, <2>3
<1> QED
  BY <1>1, <1>2, <1>3 DEF IdempotencyFollowsRow

\* One final event for every ended row, none for any other.
LEMMA EndsAuditTellsEveryOutcomeOnce ==
  ASSUME OutboxInv, NEW rows \in SUBSET Generations, NEW newState, NEW result, NEW action,
         Ends(rows, newState, result, action),
         \/ newState = "FAILED" /\ action = "FAILED"
         \/ newState = "ACKNOWLEDGED" /\ action = "APPLIED"
  PROVE  AuditTellsEveryOutcomeOnce'
<1> SUFFICES ASSUME NEW g \in Generations
             PROVE  /\ audit'[g]["REQUESTED"] =
                         IF outbox'[g].state = "ABSENT" THEN 0 ELSE 1
                    /\ audit'[g]["APPLIED"] =
                         IF outbox'[g].state = "ACKNOWLEDGED" THEN 1 ELSE 0
                    /\ audit'[g]["FAILED"] = IF outbox'[g].state = "FAILED" THEN 1 ELSE 0
  BY DEF AuditTellsEveryOutcomeOnce
<1>1. /\ audit[g]["REQUESTED"] = IF outbox[g].state = "ABSENT" THEN 0 ELSE 1
      /\ audit[g]["APPLIED"] = IF outbox[g].state = "ACKNOWLEDGED" THEN 1 ELSE 0
      /\ audit[g]["FAILED"] = IF outbox[g].state = "FAILED" THEN 1 ELSE 0
      /\ audit[g] \in [AuditActions -> Nat]
  BY DEF OutboxInv, AuditTellsEveryOutcomeOnce, TypeInv, TypeOK
<1>2. CASE g \in rows
  <2>1. audit'[g] = [audit[g] EXCEPT ![action] = @ + 1]
    BY <1>2 DEF Ends, Audited
  <2>2. Active(g) /\ outbox'[g].state = newState
    BY <1>2 DEF Ends
  <2> QED
    BY <1>1, <2>1, <2>2 DEF Active, AuditActions
<1>3. CASE g \notin rows
  <2>1. audit'[g] = audit[g]
    BY <1>3 DEF Ends, Audited
  <2>2. (Active(g)' /\ Active(g)) \/ outbox'[g].state = outbox[g].state
    BY <1>3 DEF Ends, SameClass
  <2> QED
    BY <1>1, <2>1, <2>2 DEF Active
<1> QED
  BY <1>2, <1>3

\* Failures leave the acknowledged rows, and with them the served pointer and the
\* publication of releases, as they are.
LEMMA EndsFailedInv ==
  ASSUME OutboxInv, NEW rows \in SUBSET Generations, EndsFailed(rows)
  PROVE  /\ RowsUpToDesired'
         /\ ServedIsNewestAcknowledged'
         /\ IdempotencyFollowsRow'
         /\ AuditTellsEveryOutcomeOnce'
         /\ DesiredPublishIsFirst'
         /\ PublishedOnce'
<1>1. Ends(rows, "FAILED", "FAILED", "FAILED")
  BY DEF EndsFailed
<1>2. \A g \in Generations :
        /\ SameRequest(g)
        /\ outbox'[g].state = "ACKNOWLEDGED" <=> outbox[g].state = "ACKNOWLEDGED"
        /\ outbox'[g].state = "ABSENT" <=> outbox[g].state = "ABSENT"
        /\ Active(g)' => Active(g)
  BY DEF EndsFailed, Ends, SameClass, Active
<1>3. UNCHANGED <<desired, served, published>>
  BY DEF EndsFailed, Ends
<1>4. RowsUpToDesired'
  BY <1>1, EndsRowsUpToDesired
<1>5. IdempotencyFollowsRow' /\ AuditTellsEveryOutcomeOnce'
  BY <1>1, EndsIdempotencyFollowsRow, EndsAuditTellsEveryOutcomeOnce
<1>6. ServedIsNewestAcknowledged'
  BY <1>2, <1>3 DEF OutboxInv, ServedIsNewestAcknowledged, SameRequest
<1>7. DesiredPublishIsFirst'
  BY <1>2, <1>3 DEF OutboxInv, DesiredPublishIsFirst, SameRequest
<1>8. PublishedOnce'
  BY <1>2, <1>3 DEF OutboxInv, PublishedOnce, SameRequest
<1> QED
  BY <1>4, <1>5, <1>6, <1>7, <1>8

\* An acknowledgement ends the newest row there is, so the served pointer can only
\* advance; if it publishes, the release was not published before.
LEMMA AcknowledgeInv ==
  ASSUME OutboxInv, NEW g \in Generations, NEW owner \in Owners,
         NEW version \in 1 .. MaxAttempts, NEW document \in Documents,
         Acknowledge(g, owner, version, document)
  PROVE  /\ RowsUpToDesired'
         /\ ServedIsNewestAcknowledged'
         /\ IdempotencyFollowsRow'
         /\ AuditTellsEveryOutcomeOnce'
         /\ DesiredPublishIsFirst'
         /\ PublishedOnce'
<1>1. /\ Ends({g}, "ACKNOWLEDGED", "SUCCEEDED", "APPLIED")
      /\ desired.generation = g /\ desired' = desired
  BY AcknowledgeEnds DEF OutboxInv, Acknowledge
<1>2. /\ Active(g) /\ outbox'[g].state = "ACKNOWLEDGED" /\ SameRequest(g)
      /\ \A h \in Generations \ {g} : SameClass(h)
  BY <1>1 DEF Ends
<1>3. \A h \in Generations : outbox'[h].state # "ABSENT" => h <= g
  <2>1. ASSUME NEW h \in Generations, outbox'[h].state # "ABSENT" PROVE h <= g
    <3>1. outbox[h].state # "ABSENT"
      BY <1>2, <2>1 DEF Active, SameClass
    <3> QED
      BY <1>1, <3>1, BoundsAssumption DEF OutboxInv, RowsUpToDesired, Generations
  <2> QED
    BY <2>1
<1>4. served' = [generation |-> g, release |-> outbox[g].release]
      /\ published' = [r \in Releases |-> published[r] \/ r = outbox[g].release]
  BY DEF Acknowledge
<1>5. RowsUpToDesired'
  BY <1>1, EndsRowsUpToDesired
<1>6. IdempotencyFollowsRow' /\ AuditTellsEveryOutcomeOnce'
  BY <1>1, EndsIdempotencyFollowsRow, EndsAuditTellsEveryOutcomeOnce
<1>7. ServedIsNewestAcknowledged'
  BY <1>2, <1>3, <1>4, BoundsAssumption DEF ServedIsNewestAcknowledged, SameRequest, Generations
<1>8. DesiredPublishIsFirst'
  <2>1. ~Active(g)'
    BY <1>2 DEF Active
  <2>2. \A h \in Generations :
          /\ SameRequest(h)
          /\ outbox'[h].state # "ABSENT" => outbox[h].state # "ABSENT"
    BY <1>2 DEF SameClass, Active
  <2> QED
    BY <1>1, <2>1, <2>2 DEF OutboxInv, DesiredPublishIsFirst, SameRequest
<1>9. PublishedOnce'
  <2> DEFINE first(h, r) == /\ outbox[h].state = "ACKNOWLEDGED"
                            /\ outbox[h].operation = "PUBLISH"
                            /\ outbox[h].release = r
  <2>1. SUFFICES ASSUME NEW r \in Releases
                 PROVE  /\ published'[r] <=> \E h \in Generations : first(h, r)'
                        /\ \A h, k \in Generations : first(h, r)' /\ first(k, r)' => h = k
                        /\ \A h \in Generations :
                             /\ outbox'[h].state # "ABSENT"
                             /\ outbox'[h].operation = "RESTORE"
                             /\ outbox'[h].release = r
                             => \E k \in Generations : first(k, r)' /\ k < h
    BY DEF PublishedOnce
  <2>2. /\ published[r] <=> \E h \in Generations : first(h, r)
        /\ \A h, k \in Generations : first(h, r) /\ first(k, r) => h = k
        /\ \A h \in Generations :
             /\ outbox[h].state # "ABSENT"
             /\ outbox[h].operation = "RESTORE"
             /\ outbox[h].release = r
             => \E k \in Generations : first(k, r) /\ k < h
    BY DEF OutboxInv, PublishedOnce
  <2>3. \A h \in Generations \ {g} : first(h, r)' <=> first(h, r)
    BY <1>2 DEF SameClass, SameRequest, Active
  <2>4. ~first(g, r)
    BY <1>2 DEF Active
  <2>5. first(g, r)' <=> outbox[g].operation = "PUBLISH" /\ outbox[g].release = r
    BY <1>2 DEF SameRequest
  <2>6. published'[r] <=> published[r] \/ outbox[g].release = r
    BY <1>4
  <2>7. first(g, r)' => ~ \E h \in Generations : first(h, r)
    BY <1>1, <1>2, <2>2, <2>5 DEF OutboxInv, DesiredPublishIsFirst
  <2>8. outbox[g].release = r /\ outbox[g].operation # "PUBLISH"
        => \E h \in Generations : first(h, r)
    <3>1. outbox[g].operation \in Operations /\ outbox[g].state # "ABSENT"
      BY <1>2 DEF OutboxInv, TypeInv, TypeOK, Rows, Active
    <3>2. outbox[g].release = r => outbox[g].operation # "UNPUBLISH"
      BY <3>1, NullAssumption DEF OutboxInv, DesiredPublishIsFirst
    <3> QED
      BY <2>2, <3>1, <3>2 DEF Operations
  <2>9. \A h \in Generations :
          /\ SameRequest(h)
          /\ outbox'[h].state # "ABSENT" => outbox[h].state # "ABSENT"
    BY <1>2 DEF SameClass, Active
  <2>10. \A k \in Generations : first(k, r) => first(k, r)'
    BY <2>3, <2>4
  <2>11. published'[r] <=> \E h \in Generations : first(h, r)'
    BY <2>2, <2>3, <2>4, <2>5, <2>6, <2>8
  <2>12. \A h, k \in Generations : first(h, r)' /\ first(k, r)' => h = k
    BY <2>2, <2>3, <2>7
  <2>13. \A h \in Generations :
             /\ outbox'[h].state # "ABSENT"
             /\ outbox'[h].operation = "RESTORE"
             /\ outbox'[h].release = r
             => \E k \in Generations : first(k, r)' /\ k < h
    BY <2>2, <2>9, <2>10 DEF SameRequest
  <2> QED
    BY <2>11, <2>12, <2>13
<1> QED
  BY <1>5, <1>6, <1>7, <1>8, <1>9

\* A request appends one row under a record no row uses; whatever it supersedes
\* stays as it is.
LEMMA RequestInv ==
  ASSUME OutboxInv, NEW i \in IdempotencyIds, NEW operation \in Operations,
         NEW release \in Releases \cup {NoRelease}, Request(i, operation, release)
  PROVE  /\ RowsUpToDesired'
         /\ ServedIsNewestAcknowledged'
         /\ IdempotencyFollowsRow'
         /\ AuditTellsEveryOutcomeOnce'
         /\ DesiredPublishIsFirst'
         /\ PublishedOnce'
<1> DEFINE g == desired.generation + 1
<1>1. /\ g \in Generations
      /\ idempotency[i].state = "IN_PROGRESS"
      /\ Unused(i)
      /\ Requestable(operation, release)
      /\ desired' = [generation |-> g, release |-> release]
      /\ outbox' = [outbox EXCEPT ![g] =
                      [@ EXCEPT !.state = "PENDING", !.release = release,
                                !.operation = operation, !.idempotency = i,
                                !.due = TRUE]]
      /\ audit' = Audited({g}, "REQUESTED")
      /\ UNCHANGED <<served, published, idempotency>>
  BY DEF Request
<1>2. desired.generation \in Nat /\ outbox[g].state = "ABSENT"
  BY <1>1 DEF OutboxInv, RowsUpToDesired, TypeInv, TypeOK, Pointers
<1>3. /\ outbox'[g].state = "PENDING" /\ outbox'[g].release = release
      /\ outbox'[g].operation = operation /\ outbox'[g].idempotency = i
      /\ \A h \in Generations \ {g} : outbox'[h] = outbox[h]
  BY <1>1 DEF OutboxInv, TypeInv, TypeOK, Rows
<1>4. desired'.generation = g
  BY <1>1
<1> HIDE DEF g
<1>5. RowsUpToDesired'
  <2>1. ASSUME NEW h \in Generations
        PROVE  outbox'[h].state = "ABSENT" <=> g < h
    <3>1. CASE h = g
      BY <1>1, <1>3, <3>1 DEF Generations
    <3>2. CASE h # g
      BY <1>1, <1>2, <1>3, <3>2 DEF OutboxInv, RowsUpToDesired, Generations, g
    <3> QED
      BY <3>1, <3>2
  <2> QED
    BY <1>4, <2>1 DEF RowsUpToDesired
<1>6. ServedIsNewestAcknowledged'
  BY <1>1, <1>2, <1>3 DEF OutboxInv, ServedIsNewestAcknowledged
<1>7. IdempotencyFollowsRow'
  BY <1>1, <1>2, <1>3 DEF OutboxInv, IdempotencyFollowsRow, Unused, Active, Terminal
<1>8. AuditTellsEveryOutcomeOnce'
  <2>1. audit[g]["REQUESTED"] = 0 /\ audit[g]["APPLIED"] = 0 /\ audit[g]["FAILED"] = 0
        /\ audit[g] \in [AuditActions -> Nat]
    BY <1>1, <1>2 DEF OutboxInv, AuditTellsEveryOutcomeOnce, TypeInv, TypeOK
  <2>2. /\ audit'[g] = [audit[g] EXCEPT !["REQUESTED"] = @ + 1]
        /\ \A h \in Generations \ {g} : audit'[h] = audit[h]
    BY <1>1 DEF Audited
  <2> QED
    BY <1>3, <2>1, <2>2 DEF OutboxInv, AuditTellsEveryOutcomeOnce, AuditActions
<1>9. DesiredPublishIsFirst'
  <2>1. operation = "UNPUBLISH" <=> release = NoRelease
    BY <1>1, NullAssumption DEF Requestable, Operations
  <2>2. operation = "PUBLISH" => ~published[release]
    BY <1>1 DEF Requestable
  <2>3. \A h \in Generations : outbox'[h].state # "ABSENT" /\ h # g =>
          (outbox'[h].operation = "UNPUBLISH" <=> outbox'[h].release = NoRelease)
    BY <1>3 DEF OutboxInv, DesiredPublishIsFirst
  <2> QED
    BY <1>1, <1>3, <1>4, <2>1, <2>2, <2>3 DEF DesiredPublishIsFirst
<1>10. PublishedOnce'
  <2>1. \A h \in Generations : outbox'[h].state = "ACKNOWLEDGED" =>
          h # g /\ outbox'[h] = outbox[h]
    BY <1>3
  <2>2. \A h \in Generations : outbox[h].state = "ACKNOWLEDGED" =>
          /\ outbox'[h] = outbox[h]
          /\ h < g
    BY <1>2, <1>3 DEF OutboxInv, RowsUpToDesired, Generations, g
  <2>3. operation = "RESTORE" => published[release] /\ release \in Releases
    BY <1>1 DEF Requestable
  <2>4. ASSUME NEW h \in Generations, outbox'[h].state # "ABSENT",
               outbox'[h].operation = "RESTORE", outbox'[h].release \in Releases
        PROVE  \E k \in Generations : /\ outbox'[k].state = "ACKNOWLEDGED"
                                      /\ outbox'[k].operation = "PUBLISH"
                                      /\ outbox'[k].release = outbox'[h].release
                                      /\ k < h
    <3>1. CASE h = g
      BY <1>3, <2>2, <2>3, <2>4, <3>1 DEF OutboxInv, PublishedOnce
    <3>2. CASE h # g
      BY <1>3, <2>2, <2>4, <3>2 DEF OutboxInv, PublishedOnce
    <3> QED
      BY <3>1, <3>2
  <2>5. ASSUME NEW r \in Releases
        PROVE  {h \in Generations : /\ outbox'[h].state = "ACKNOWLEDGED"
                                    /\ outbox'[h].operation = "PUBLISH"
                                    /\ outbox'[h].release = r}
                 = {h \in Generations : /\ outbox[h].state = "ACKNOWLEDGED"
                                        /\ outbox[h].operation = "PUBLISH"
                                        /\ outbox[h].release = r}
    BY <2>1, <2>2
  <2> QED
    BY <1>1, <2>4, <2>5 DEF OutboxInv, PublishedOnce
<1> QED
  BY <1>5, <1>6, <1>7, <1>8, <1>9, <1>10

\* Expiry touches no outcome, and a record is deleted only after its row ended.
LEMMA HousekeepingInv ==
  ASSUME OutboxInv, NEW i \in IdempotencyIds,
         IdempotencyExpires(i) \/ DeleteIdempotency(i)
  PROVE  /\ RowsUpToDesired'
         /\ ServedIsNewestAcknowledged'
         /\ IdempotencyFollowsRow'
         /\ AuditTellsEveryOutcomeOnce'
         /\ DesiredPublishIsFirst'
         /\ PublishedOnce'
<1>1. UNCHANGED <<desired, served, published, outbox, audit>>
  BY DEF IdempotencyExpires, DeleteIdempotency
<1>2. \A j \in IdempotencyIds :
        /\ idempotency'[j].row = idempotency[j].row
        /\ idempotency'[j].result = idempotency[j].result
        /\ \/ idempotency'[j].state = idempotency[j].state
           \/ /\ idempotency'[j].state = "DELETED"
              /\ \A g \in Generations : Active(g) => outbox[g].idempotency # j
  BY DEF IdempotencyExpires, DeleteIdempotency, OutboxInv, TypeInv, TypeOK,
         IdempotencyRecords
<1>3. \A g \in Generations : outbox[g].idempotency \in IdempotencyIds
  BY DEF OutboxInv, TypeInv, TypeOK, Rows
<1>4. IdempotencyFollowsRow'
  BY <1>1, <1>2, <1>3 DEF OutboxInv, IdempotencyFollowsRow, Active, Terminal
<1> QED
  BY <1>1, <1>4 DEF OutboxInv, RowsUpToDesired, ServedIsNewestAcknowledged,
     AuditTellsEveryOutcomeOnce, DesiredPublishIsFirst, Active, PublishedOnce

\* A row enters the PENDING state with an attempt left: a new one has all of them,
\* and the final attempt is never handed back.
LEMMA StepAttemptsLeft == OutboxInv /\ [Next]_outboxVars => AttemptsLeft'
<1> SUFFICES ASSUME OutboxInv, [Next]_outboxVars, NEW g \in Generations
             PROVE  /\ outbox'[g].state = "ABSENT" => outbox'[g].attempts = 0
                    /\ outbox'[g].state = "PENDING" => outbox'[g].attempts < MaxAttempts
  BY DEF AttemptsLeft
<1>1. /\ outbox[g] \in Rows /\ outbox \in [Generations -> Rows]
      /\ outbox[g].version = outbox[g].attempts
      /\ outbox[g].state = "ABSENT" => outbox[g].attempts = 0
      /\ outbox[g].state = "PENDING" => outbox[g].attempts < MaxAttempts
  BY DEF OutboxInv, TypeInv, TypeOK, VersionCountsAttempts, AttemptsLeft
<1>2. ASSUME NEW i \in IdempotencyIds, NEW operation \in Operations,
             NEW release \in Releases \cup {NoRelease}, Request(i, operation, release)
      PROVE  outbox'[g].state = "PENDING" => outbox'[g].attempts < MaxAttempts
  <2>1. outbox[desired.generation + 1].state = "ABSENT"
    BY <1>2 DEF Request, OutboxInv, RowsUpToDesired, TypeInv, TypeOK, Pointers
  <2> QED
    BY <1>1, <1>2, <2>1, BoundsAssumption DEF Request, Rows
<1>3. ASSUME NEW i \in IdempotencyIds, NEW operation \in Operations,
             NEW release \in Releases \cup {NoRelease}, Request(i, operation, release)
      PROVE  outbox'[g].state = "ABSENT" => outbox'[g].attempts = 0
  BY <1>1, <1>3 DEF Request, Rows
<1>4. ASSUME NEW owner \in Owners, NEW locked \in SUBSET Generations,
             Claim(owner, locked)
      PROVE  \/ outbox'[g].state \in {"LEASED", "FAILED"}
             \/ outbox'[g] = outbox[g]
  <2> DEFINE leased == Leased(outbox[g], owner)
  <2>1. /\ leased.state = "LEASED"
        /\ Released(outbox[g], "FAILED").state = "FAILED"
    BY <1>1, LeasedKeepsRequest, ReleasedKeepsRequest
  <2>2. outbox[g].attempts < MaxAttempts => Released(leased, "FAILED").state = "FAILED"
    BY <1>1, LeasedIsRow, ReleasedKeepsRequest
  <2>3. Superseded(g) => outbox[g].attempts < MaxAttempts
    BY DEF Superseded
  <2>4. \/ outbox'[g] = leased
        \/ outbox'[g] = Released(outbox[g], "FAILED")
        \/ Superseded(g) /\ outbox'[g] = Released(leased, "FAILED")
        \/ outbox'[g] = outbox[g]
    BY <1>4 DEF Claim
  <2> QED
    BY <2>1, <2>2, <2>3, <2>4
<1>5. ASSUME NEW h \in Generations, NEW owner \in Owners, NEW version \in 1 .. MaxAttempts,
             \/ \E kid \in Kids : BindKey(h, owner, version, kid)
             \/ Retry(h, owner, version)
             \/ Fail(h, owner, version)
             \/ \E kid \in Kids :
                  Acknowledge(h, owner, version, [generation |-> h, kid |-> kid])
      PROVE  /\ outbox'[g].state = "ABSENT" => outbox'[g].attempts = 0
             /\ outbox'[g].state = "PENDING" => outbox'[g].attempts < MaxAttempts
  <2>1. CASE \E kid \in Kids : BindKey(h, owner, version, kid)
    BY <1>1, <2>1 DEF BindKey, Rows
  <2>2. CASE Retry(h, owner, version)
    BY <1>1, <2>2 DEF Retry, Released, Rows
  <2>3. CASE Fail(h, owner, version)
    BY <1>1, <2>3 DEF Fail, Released, Rows
  <2>4. CASE \E kid \in Kids :
               Acknowledge(h, owner, version, [generation |-> h, kid |-> kid])
    <3>1. PICK document :
            outbox' = [outbox EXCEPT ![h] =
                         [Released(@, "ACKNOWLEDGED") EXCEPT !.projection = document]]
      BY <2>4 DEF Acknowledge
    <3> QED
      BY <1>1, <3>1 DEF Released, Rows
  <2> QED
    BY <1>5, <2>1, <2>2, <2>3, <2>4
<1>6. CASE Environment
  BY <1>1, <1>6 DEF Environment, LeaseExpires, RetryFallsDue, IdempotencyExpires,
     DeleteIdempotency, Rows
<1>7. CASE UNCHANGED outboxVars
  BY <1>1, <1>7 DEF outboxVars
<1> QED
  BY <1>1, <1>2, <1>3, <1>4, <1>5, <1>6, <1>7 DEF Next, Control, Worker

\* Before the first request there is no row, no record has ended, nothing is served.
LEMMA InitOutboxInv == Init => OutboxInv
<1> SUFFICES ASSUME Init PROVE OutboxInv
  OBVIOUS
<1>1. \A g \in Generations : outbox[g].state = "ABSENT" /\ outbox[g].attempts = 0
  BY DEF Init
<1>2. desired.generation = 0 /\ served.generation = 0 /\ served.release = NoRelease
  BY DEF Init
<1>3. TypeInv
  BY InitTypeInv
<1>4. RowsUpToDesired /\ ServedIsNewestAcknowledged
  BY <1>1, <1>2 DEF RowsUpToDesired, ServedIsNewestAcknowledged, Generations
<1>5. AttemptsLeft
  BY <1>1 DEF AttemptsLeft
<1>6. IdempotencyFollowsRow
  BY <1>1 DEF IdempotencyFollowsRow
<1>7. AuditTellsEveryOutcomeOnce
  BY <1>1 DEF Init, AuditTellsEveryOutcomeOnce, AuditActions
<1>8. DesiredPublishIsFirst
  BY <1>1 DEF DesiredPublishIsFirst, Active
<1>9. PublishedOnce
  BY <1>1 DEF Init, PublishedOnce
<1> QED
  BY <1>3, <1>4, <1>5, <1>6, <1>7, <1>8, <1>9 DEF OutboxInv

\* Every step keeps the invariant.
LEMMA StepOutboxInv == OutboxInv /\ [Next]_outboxVars => OutboxInv'
<1> SUFFICES ASSUME OutboxInv, [Next]_outboxVars PROVE OutboxInv'
  OBVIOUS
<1> DEFINE Rest == /\ RowsUpToDesired
                   /\ ServedIsNewestAcknowledged
                   /\ IdempotencyFollowsRow
                   /\ AuditTellsEveryOutcomeOnce
                   /\ DesiredPublishIsFirst
                   /\ PublishedOnce
<1>1. TypeInv' /\ AttemptsLeft'
  BY StepTypeInv, StepAttemptsLeft DEF OutboxInv
<1>2. ASSUME Control PROVE Rest'
  BY <1>2, RequestInv DEF Control
<1>3. ASSUME NEW owner \in Owners, NEW locked \in SUBSET Generations,
             Claim(owner, locked)
      PROVE  Rest'
  BY <1>3, ClaimEnds, EndsFailedInv DEF OutboxInv
<1>4. ASSUME NEW owner \in Owners, NEW g \in Generations,
             NEW version \in 1 .. MaxAttempts,
             \/ \E kid \in Kids : BindKey(g, owner, version, kid)
             \/ Retry(g, owner, version)
             \/ Fail(g, owner, version)
      PROVE  Rest'
  BY <1>4, CallEnds, EndsFailedInv DEF OutboxInv
<1>5. ASSUME NEW owner \in Owners, NEW g \in Generations,
             NEW version \in 1 .. MaxAttempts, NEW kid \in Kids,
             Acknowledge(g, owner, version, [generation |-> g, kid |-> kid])
      PROVE  Rest'
  <2>1. [generation |-> g, kid |-> kid] \in Documents
    BY DEF Documents
  <2> QED
    BY <1>5, <2>1, AcknowledgeInv
<1>6. ASSUME NEW g \in Generations, LeaseExpires(g) \/ RetryFallsDue(g)
      PROVE  Rest'
  <2>1. \E rows \in SUBSET Generations : EndsFailed(rows)
    BY <1>6, ClockEnds DEF OutboxInv
  <2> QED
    BY <2>1, EndsFailedInv
<1>7. ASSUME NEW i \in IdempotencyIds, IdempotencyExpires(i) \/ DeleteIdempotency(i)
      PROVE  Rest'
  BY <1>7, HousekeepingInv
<1>8. ASSUME UNCHANGED outboxVars PROVE Rest'
  BY <1>8 DEF outboxVars, OutboxInv, RowsUpToDesired, ServedIsNewestAcknowledged,
     IdempotencyFollowsRow, AuditTellsEveryOutcomeOnce, DesiredPublishIsFirst,
     PublishedOnce, Active, Terminal
<1>9. Rest'
  BY <1>2, <1>3, <1>4, <1>5, <1>6, <1>7, <1>8 DEF Next, Worker, Environment
<1> QED
  BY <1>1, <1>9 DEF OutboxInv

\* The invariant holds in every reachable state.
THEOREM OutboxInvariant == Spec => []OutboxInv
BY InitOutboxInv, StepOutboxInv, PTL DEF Spec

\* A row whose lease or delay ran out is within reach of some pass of the claim.
LEMMA InvNoStrandedRow == OutboxInv => NoStrandedRow
<1> SUFFICES ASSUME OutboxInv, NEW g \in Generations,
                    \/ outbox[g].state = "PENDING" /\ outbox[g].due
                    \/ outbox[g].state = "LEASED" /\ ~outbox[g].live
             PROVE  (Claimable(g) \/ Exhausted(g) \/ Superseded(g)) /\ Completable({g})
  BY DEF NoStrandedRow
<1>1. outbox[g].attempts \in Nat /\ MaxAttempts \in Nat
  BY BoundsAssumption DEF OutboxInv, TypeInv, TypeOK, Rows
<1>2. outbox[g].state = "PENDING" => outbox[g].attempts < MaxAttempts
  BY DEF OutboxInv, AttemptsLeft
<1>3. Claimable(g) \/ Exhausted(g) \/ Superseded(g)
  BY <1>1, <1>2 DEF Claimable, Exhausted, Superseded
<1>4. Completable({g})
  BY DEF OutboxInv, IdempotencyFollowsRow, Completable, Active
<1> QED
  BY <1>3, <1>4

\* For every number of requests, workers and attempts, the served pointer is the
\* newest acknowledged row.
THEOREM ServedPointerIsRight == Spec => []ServedIsNewestAcknowledged
BY OutboxInvariant, PTL DEF OutboxInv

\* A row and its idempotency record end together and tell the same outcome.
THEOREM RecordsFollowRows == Spec => []IdempotencyFollowsRow
BY OutboxInvariant, PTL DEF OutboxInv

\* Every outcome is audited exactly once.
THEOREM AuditIsExact == Spec => []AuditTellsEveryOutcomeOnce
BY OutboxInvariant, PTL DEF OutboxInv

\* A release is published for the first time at most once.
THEOREM FirstPublicationIsUnique == Spec => []PublishedOnce
BY OutboxInvariant, PTL DEF OutboxInv

\* No row is left where no pass of the claim, and no completion, can reach it.
THEOREM NoRowIsStranded == Spec => []NoStrandedRow
BY OutboxInvariant, InvNoStrandedRow, PTL

\* Rows, pointers, records, events and releases of the outbox tell one story, for
\* every set of workers and every bound on requests, time and attempts.
THEOREM OutboxIsConsistent == Spec => []OutboxConsistent
<1>1. OutboxInv => OutboxConsistent
  BY DEF OutboxInv, OutboxConsistent
<1> QED
  BY <1>1, OutboxInvariant, PTL

-----------------------------------------------------------------------------
(* The pipeline. *)

(***************************************************************************)
(* The inductive invariant.  A routing key is bound once, so that every    *)
(* document of a generation, be it in a PUT under way, in a worker's hands *)
(* or in the bucket, is the same document.  What a worker has seen of the  *)
(* bucket stays true: generation objects are written once and the pointer  *)
(* only advances.                                                          *)
(***************************************************************************)

\* A document signed with the key that its row is bound to.
Bound(document) ==
  /\ document.generation <= desired.generation
  /\ outbox[document.generation].kid = document.kid

GenerationObjectsBound ==
  \A g \in Generations :
    generationObject[g] # NoDocument =>
      generationObject[g].generation = g /\ Bound(generationObject[g])

\* A PUT of the pointer replaces an older document by one that is stored.
PutInOrder(put) ==
  /\ Bound(put.body)
  /\ put.key = "generation" => put.ifMatch = NoDocument
  /\ put.key = "current" =>
       /\ generationObject[put.body.generation] = put.body
       /\ GenerationOf(put.ifMatch) < put.body.generation

PutsInOrder == \A put \in inflight : PutInOrder(put)

Signing == Steps \ {"idle", "bindKey", "failed"}
Pointing == {"getCurrent", "putCurrent", "awaitCurrent", "readBack", "acknowledge"}

\* What a worker may rely on at each of its steps.
WorkerInOrder(w) ==
  worker[w].step # "idle" =>
    /\ worker[w].generation \in Generations
    /\ worker[w].generation <= desired.generation
    /\ worker[w].version \in 1 .. MaxAttempts
    /\ worker[w].step \in Signing => Document(w) \in Documents /\ Bound(Document(w))
    /\ worker[w].step \in Pointing => generationObject[worker[w].generation] = Document(w)
    /\ worker[w].step \in {"putCurrent", "awaitCurrent"} =>
         GenerationOf(worker[w].seen) < worker[w].generation
    /\ worker[w].step = "acknowledge" =>
         worker[w].generation <= GenerationOf(currentObject)

WorkersInOrder == \A w \in Workers : WorkerInOrder(w)

PipelineIndInv ==
  /\ OutboxInv
  /\ PipelineTypeOK
  /\ GenerationObjectsBound
  /\ PutsInOrder
  /\ WorkersInOrder
  /\ ServedBehindPointer
  /\ PointerMatchesGeneration

-----------------------------------------------------------------------------
(***************************************************************************)
(* What a step of the outbox leaves alone.                                 *)
(***************************************************************************)
KeysStay == \A g \in Generations : outbox[g].kid # NoKid => outbox'[g].kid = outbox[g].kid

\* A claim binds no key: it leases rows as they are, and ends others.
LEMMA ClaimKeepsKeys ==
  ASSUME TypeInv, NEW owner \in Owners, NEW locked \in SUBSET Generations,
         Claim(owner, locked)
  PROVE  /\ \A g \in Generations : outbox'[g].kid = outbox[g].kid
         /\ \A g \in Generations :
              outbox'[g].state = "LEASED" /\ outbox'[g].version # outbox[g].version =>
                /\ outbox[g].state # "ABSENT"
                /\ outbox'[g].version \in 1 .. MaxAttempts
         /\ \A g \in Generations :
              outbox[g].state = "LEASED" /\ outbox[g].live => outbox'[g] = outbox[g]
<1> DEFINE open == Generations \ locked
           leased == {g \in open : Claimable(g)}
           overtaken == {g \in open : Superseded(g)}
           spent == {g \in open : Exhausted(g)}
<1>1. PICK exhausted \in SUBSET spent, superseded \in SUBSET overtaken :
        outbox' = [g \in Generations |->
                     IF g \in leased THEN Leased(outbox[g], owner)
                     ELSE IF g \in exhausted THEN Released(outbox[g], "FAILED")
                     ELSE IF g \in superseded
                          THEN Released(Leased(outbox[g], owner), "FAILED")
                     ELSE outbox[g]]
  BY DEF Claim
<1> SUFFICES ASSUME NEW g \in Generations
             PROVE  /\ outbox'[g].kid = outbox[g].kid
                    /\ outbox'[g].state = "LEASED" /\ outbox'[g].version # outbox[g].version =>
                         /\ outbox[g].state # "ABSENT"
                         /\ outbox'[g].version \in 1 .. MaxAttempts
                    /\ outbox[g].state = "LEASED" /\ outbox[g].live => outbox'[g] = outbox[g]
  OBVIOUS
<1>2. outbox[g] \in Rows /\ outbox[g].version = outbox[g].attempts
  BY DEF TypeInv, TypeOK, VersionCountsAttempts
<1>3. CASE g \in leased
  <2>1. outbox'[g] = Leased(outbox[g], owner) /\ outbox[g].attempts < MaxAttempts
    BY <1>1, <1>3 DEF Claimable
  <2>2. outbox[g].state # "ABSENT" /\ ~(outbox[g].state = "LEASED" /\ outbox[g].live)
    BY <1>3 DEF Claimable
  <2>3. outbox'[g].kid = outbox[g].kid /\ outbox'[g].version = outbox[g].version + 1
    BY <1>2, <2>1 DEF Leased, Rows
  <2> QED
    BY <1>2, <2>1, <2>2, <2>3, BoundsAssumption DEF Rows
<1>4. CASE g \notin leased /\ g \in exhausted
  <2>1. outbox'[g] = Released(outbox[g], "FAILED") /\ ~outbox[g].live
    BY <1>1, <1>4 DEF Exhausted
  <2> QED
    BY <1>2, <2>1 DEF Released, Rows
<1>5. CASE g \notin leased /\ g \notin exhausted /\ g \in superseded
  <2>1. /\ outbox'[g] = Released(Leased(outbox[g], owner), "FAILED")
        /\ ~(outbox[g].state = "LEASED" /\ outbox[g].live)
        /\ outbox[g].attempts < MaxAttempts
    BY <1>1, <1>5 DEF Superseded
  <2>2. Leased(outbox[g], owner) \in Rows /\ Leased(outbox[g], owner).kid = outbox[g].kid
    BY <1>2, <2>1, LeasedIsRow DEF Leased, Rows
  <2>3. outbox'[g].kid = outbox[g].kid /\ outbox'[g].state = "FAILED"
    BY <2>1, <2>2 DEF Released, Rows
  <2> QED
    BY <2>1, <2>3
<1>6. CASE g \notin leased /\ g \notin exhausted /\ g \notin superseded
  BY <1>1, <1>6
<1> QED
  BY <1>3, <1>4, <1>5, <1>6

\* Whatever ends, or hands back, a row leaves its key.
LEMMA ReleasedKeepsKey ==
  ASSUME NEW row \in Rows, NEW state, NEW document
  PROVE  /\ Released(row, state).kid = row.kid
         /\ [Released(row, state) EXCEPT !.projection = document].kid = row.kid
         /\ [Released(row, state) EXCEPT !.projection = document].projection = document
BY DEF Released, Rows

\* A bound key stays, and no request is taken back.
LEMMA StepKeepsKeys ==
  ASSUME TypeInv, [Next]_outboxVars
  PROVE  KeysStay /\ desired.generation <= desired'.generation
<1>0. /\ desired.generation \in Nat
      /\ outbox \in [Generations -> Rows]
  BY DEF TypeInv, TypeOK, Pointers
<1>1. ASSUME NEW i \in IdempotencyIds, NEW operation \in Operations,
             NEW release \in Releases \cup {NoRelease}, Request(i, operation, release)
      PROVE  KeysStay /\ desired.generation <= desired'.generation
  BY <1>0, <1>1 DEF Request, KeysStay, Rows
<1>2. ASSUME NEW owner \in Owners, NEW locked \in SUBSET Generations, Claim(owner, locked)
      PROVE  KeysStay /\ desired.generation <= desired'.generation
  <2>1. \A g \in Generations : outbox'[g].kid = outbox[g].kid
    BY <1>2, ClaimKeepsKeys
  <2>2. desired' = desired
    BY <1>2 DEF Claim
  <2> QED
    BY <1>0, <2>1, <2>2 DEF KeysStay
<1>3. ASSUME NEW owner \in Owners, NEW g \in Generations, NEW version \in 1 .. MaxAttempts,
             NEW kid \in Kids, BindKey(g, owner, version, kid)
      PROVE  KeysStay /\ desired.generation <= desired'.generation
  BY <1>0, <1>3 DEF BindKey, KeysStay, Rows
<1>4. ASSUME NEW owner \in Owners, NEW g \in Generations, NEW version \in 1 .. MaxAttempts,
             Retry(g, owner, version) \/ Fail(g, owner, version)
      PROVE  KeysStay /\ desired.generation <= desired'.generation
  BY <1>0, <1>4, ReleasedKeepsKey DEF Retry, Fail, KeysStay
<1>5. ASSUME NEW owner \in Owners, NEW g \in Generations, NEW version \in 1 .. MaxAttempts,
             NEW kid \in Kids, Acknowledge(g, owner, version, [generation |-> g, kid |-> kid])
      PROVE  KeysStay /\ desired.generation <= desired'.generation
  BY <1>0, <1>5, ReleasedKeepsKey DEF Acknowledge, KeysStay
<1>6. CASE Environment
  BY <1>0, <1>6 DEF Environment, LeaseExpires, RetryFallsDue, IdempotencyExpires,
                    DeleteIdempotency, KeysStay, Rows
<1>7. CASE UNCHANGED outboxVars
  BY <1>0, <1>7 DEF outboxVars, KeysStay
<1> QED
  BY <1>1, <1>2, <1>3, <1>4, <1>5, <1>6, <1>7 DEF Next, Control, Worker

-----------------------------------------------------------------------------
(***************************************************************************)
(* What a step of the pipeline leaves alone: keys are bound once, objects  *)
(* written once, and desired and shown generations only grow.  Whoever     *)
(* does nothing in such a step keeps what the invariant says of him.       *)
(***************************************************************************)
Grows ==
  /\ KeysStay
  /\ desired.generation <= desired'.generation
  /\ \A g \in Generations :
       generationObject[g] # NoDocument => generationObject'[g] = generationObject[g]
  /\ GenerationOf(currentObject) <= GenerationOf(currentObject')

\* The types that the lemmas below need.
Typed ==
  /\ desired.generation \in Nat /\ desired'.generation \in Nat
  /\ generationObject \in [Generations -> Documents \cup {NoDocument}]
  /\ currentObject \in Documents \cup {NoDocument}
  /\ currentObject' \in Documents \cup {NoDocument}

LEMMA GenerationOfIsNat ==
  ASSUME NEW document \in Documents \cup {NoDocument}
  PROVE  GenerationOf(document) \in Nat
BY DEF GenerationOf, Documents, Generations

LEMMA DocumentIsReal ==
  ASSUME NEW document \in Documents
  PROVE  /\ document # NoDocument
         /\ document.generation \in Generations /\ document.kid # NoKid
         /\ GenerationOf(document) = document.generation
BY DocumentAssumption, NullAssumption DEF Documents, GenerationOf

LEMMA BoundStays ==
  ASSUME Typed, Grows, NEW document \in Documents, Bound(document)
  PROVE  Bound(document)'
<1>1. document.generation \in Generations /\ document.generation \in Nat /\ document.kid # NoKid
  BY DocumentIsReal DEF Generations
<1>2. outbox'[document.generation].kid = outbox[document.generation].kid
  BY <1>1 DEF Grows, KeysStay, Bound
<1> QED
  BY <1>1, <1>2 DEF Typed, Grows, Bound

LEMMA PutStays ==
  ASSUME Typed, Grows, NEW put \in PutRequests, PutInOrder(put)
  PROVE  PutInOrder(put)'
<1>1. put.body \in Documents
  BY DEF PutRequests
<1>2. Bound(put.body)'
  BY <1>1, BoundStays DEF PutInOrder
<1>3. generationObject[put.body.generation] = put.body =>
        generationObject'[put.body.generation] = put.body
  BY <1>1, DocumentIsReal DEF Grows
<1> QED
  BY <1>2, <1>3 DEF PutInOrder, GenerationOf

LEMMA WorkerStays ==
  ASSUME Typed, Grows, NEW w \in Workers, WorkerInOrder(w), worker'[w] = worker[w]
  PROVE  WorkerInOrder(w)'
<1> SUFFICES ASSUME worker[w].step # "idle"
             PROVE  WorkerInOrder(w)'
  BY DEF WorkerInOrder
<1> DEFINE g == worker[w].generation
<1>1. PICK document : document = Document(w) /\ document = Document(w)'
  BY DEF Document
<1>2. g \in Generations /\ g \in Nat /\ g <= desired.generation
  BY DEF WorkerInOrder, Generations
<1>3. g <= desired'.generation
  BY <1>2 DEF Typed, Grows
<1>4. worker[w].step \in Signing => document \in Documents /\ Bound(document)'
  BY <1>1, BoundStays DEF WorkerInOrder
<1>5. worker[w].step \in Pointing => generationObject'[g] = document
  <2> SUFFICES ASSUME worker[w].step \in Pointing
               PROVE  generationObject'[g] = document
    OBVIOUS
  <2>1. worker[w].step \in Signing
    BY DEF Pointing, Signing, Steps
  <2>2. document \in Documents /\ generationObject[g] = document
    BY <1>1, <2>1 DEF WorkerInOrder
  <2> QED
    BY <1>2, <2>2, DocumentIsReal DEF Grows
<1>6. worker[w].step = "acknowledge" => g <= GenerationOf(currentObject')
  BY <1>2, GenerationOfIsNat DEF WorkerInOrder, Typed, Grows
<1>7. GenerationOf(worker'[w].seen) = GenerationOf(worker[w].seen)
  BY DEF GenerationOf
<1> QED
  BY <1>1, <1>2, <1>3, <1>4, <1>5, <1>6, <1>7 DEF WorkerInOrder, GenerationOf, Bound

-----------------------------------------------------------------------------
(***************************************************************************)
(* The bucket.                                                             *)
(***************************************************************************)
BucketInOrder ==
  /\ generationObject \in [Generations -> Documents \cup {NoDocument}]
  /\ currentObject \in Documents \cup {NoDocument}
  /\ GenerationObjectsBound
  /\ ServedBehindPointer
  /\ PointerMatchesGeneration

\* A PUT in order moves the pointer forward or writes an object that was not
\* there, whenever and however often it is served.
LEMMA ServeKeepsBucket ==
  ASSUME TypeInv, BucketInOrder, NEW put \in PutRequests, PutInOrder(put), Serve(put),
         UNCHANGED outboxVars
  PROVE  /\ BucketInOrder' /\ Typed /\ Grows
         /\ currentObject' # currentObject =>
              GenerationOf(currentObject) < GenerationOf(currentObject')
<1> DEFINE body == put.body
           g == put.body.generation
<1>1. /\ put.key \in {"generation", "current"} /\ body \in Documents
      /\ put.ifMatch \in Documents \cup {NoDocument}
  BY DEF PutRequests
<1>2. /\ g \in Generations /\ body # NoDocument /\ GenerationOf(body) = g
      /\ g \in Nat /\ body.kid # NoKid
  BY <1>1, DocumentIsReal DEF Generations
<1>3. /\ desired.generation \in Nat /\ served.generation \in Nat
      /\ GenerationOf(currentObject) \in Nat /\ GenerationOf(put.ifMatch) \in Nat
  BY <1>1, GenerationOfIsNat DEF TypeInv, TypeOK, Pointers, BucketInOrder
<1>4. /\ desired' = desired /\ served' = served /\ outbox' = outbox
  BY DEF outboxVars
<1>5. g <= desired.generation /\ outbox[g].kid = body.kid
  BY DEF PutInOrder, Bound
<1>6. CASE ~Accepts(put)
  <2>1. currentObject' = currentObject /\ generationObject' = generationObject
    BY <1>6 DEF Serve
  <2> QED
    BY <1>3, <1>4, <2>1 DEF BucketInOrder, Typed, Grows, KeysStay, GenerationObjectsBound,
         Bound, ServedBehindPointer, PointerMatchesGeneration, GenerationOf
<1>7. CASE Accepts(put) /\ put.key = "current"
  <2>1. currentObject' = body /\ generationObject' = generationObject
    BY <1>7 DEF Serve
  <2>2. currentObject = put.ifMatch /\ generationObject[g] = body
    BY <1>7 DEF Accepts, Stored, PutInOrder
  <2>3. GenerationOf(currentObject) < g /\ GenerationOf(currentObject') = g
    BY <1>2, <1>7, <2>1, <2>2 DEF PutInOrder
  <2>4. Typed /\ Grows
    BY <1>1, <1>2, <1>3, <1>4, <2>1, <2>3 DEF BucketInOrder, Typed, Grows, KeysStay
  <2>5. ServedBehindPointer'
    BY <1>2, <1>3, <1>4, <1>5, <2>3 DEF BucketInOrder, ServedBehindPointer
  <2>6. PointerMatchesGeneration'
    BY <1>4, <1>5, <2>1, <2>2 DEF PointerMatchesGeneration
  <2>7. GenerationObjectsBound'
    BY <1>4, <2>1 DEF BucketInOrder, GenerationObjectsBound, Bound
  <2> QED
    BY <1>1, <2>1, <2>3, <2>4, <2>5, <2>6, <2>7 DEF BucketInOrder
<1>8. CASE Accepts(put) /\ put.key = "generation"
  <2>1. /\ currentObject' = currentObject
        /\ generationObject' = [generationObject EXCEPT ![g] = body]
    BY <1>8 DEF Serve
  <2>2. generationObject[g] = NoDocument
    BY <1>8 DEF Accepts, Stored, PutInOrder
  <2>3. /\ generationObject'[g] = body
        /\ \A h \in Generations \ {g} : generationObject'[h] = generationObject[h]
    BY <1>2, <2>1 DEF BucketInOrder
  <2>4. GenerationOf(currentObject') = GenerationOf(currentObject)
    BY <2>1 DEF GenerationOf
  <2>5. Typed /\ Grows
    BY <1>3, <1>4, <2>1, <2>2, <2>3, <2>4 DEF BucketInOrder, Typed, Grows, KeysStay
  <2>6. ServedBehindPointer'
    BY <1>3, <1>4, <2>4 DEF BucketInOrder, ServedBehindPointer
  <2>7. PointerMatchesGeneration'
    <3> SUFFICES ASSUME currentObject # NoDocument
                 PROVE  /\ generationObject'[currentObject.generation] = currentObject
                        /\ outbox[currentObject.generation].kid = currentObject.kid
      BY <1>4, <2>1 DEF PointerMatchesGeneration
    <3>1. currentObject.generation \in Generations
      BY DocumentIsReal DEF BucketInOrder
    <3>2. currentObject.generation # g
      BY <2>2 DEF BucketInOrder, PointerMatchesGeneration
    <3> QED
      BY <2>3, <3>1, <3>2 DEF BucketInOrder, PointerMatchesGeneration
  <2>8. GenerationObjectsBound'
    BY <1>4, <1>5, <2>3 DEF BucketInOrder, GenerationObjectsBound, Bound
  <2>9. generationObject' \in [Generations -> Documents \cup {NoDocument}]
    BY <1>1, <1>2, <2>1 DEF BucketInOrder
  <2> QED
    BY <2>1, <2>5, <2>6, <2>7, <2>8, <2>9 DEF BucketInOrder
<1> QED
  BY <1>1, <1>6, <1>7, <1>8

\* A step of the outbox leaves the bucket in order, unless it serves too much.
LEMMA OutboxKeepsBucket ==
  ASSUME TypeInv, TypeInv', BucketInOrder, [Next]_outboxVars, UNCHANGED storeVars,
         served'.generation <= GenerationOf(currentObject)
  PROVE  BucketInOrder' /\ Typed /\ Grows
<1>1. /\ KeysStay /\ desired.generation <= desired'.generation
  BY StepKeepsKeys
<1>2. /\ currentObject' = currentObject /\ generationObject' = generationObject
      /\ GenerationOf(currentObject') = GenerationOf(currentObject)
  BY DEF storeVars, GenerationOf
<1>3. /\ desired.generation \in Nat /\ desired'.generation \in Nat
      /\ GenerationOf(currentObject) \in Nat
  BY GenerationOfIsNat DEF TypeInv, TypeOK, Pointers, BucketInOrder
<1>4. Typed /\ Grows
  BY <1>1, <1>2, <1>3 DEF BucketInOrder, Typed, Grows
<1>5. ServedBehindPointer'
  BY <1>1, <1>2, <1>3 DEF BucketInOrder, ServedBehindPointer
<1>6. PointerMatchesGeneration'
  BY <1>1, <1>2, DocumentIsReal
     DEF BucketInOrder, PointerMatchesGeneration, KeysStay
<1>7. GenerationObjectsBound'
  <2> SUFFICES ASSUME NEW g \in Generations, generationObject[g] # NoDocument
               PROVE  generationObject[g].generation = g /\ Bound(generationObject[g])'
    BY <1>2 DEF GenerationObjectsBound, Bound
  <2>1. generationObject[g] \in Documents /\ generationObject[g].generation = g
    BY DEF BucketInOrder, GenerationObjectsBound
  <2>2. PICK document : document = generationObject[g] /\ document = generationObject'[g]
    BY <1>2
  <2>3. Bound(document)'
    BY <1>4, <2>1, <2>2, BoundStays DEF BucketInOrder, GenerationObjectsBound
  <2> QED
    BY <2>1, <2>2, <2>3 DEF Bound
<1> QED
  BY <1>2, <1>4, <1>5, <1>6, <1>7 DEF BucketInOrder

-----------------------------------------------------------------------------
(***************************************************************************)
(* The steps.  Each is shown to be a step of the outbox (or none), to keep *)
(* the bucket in order and to leave the worker that takes it in order.     *)
(***************************************************************************)
LEMMA IndInvTypes ==
  ASSUME PipelineIndInv
  PROVE  /\ TypeInv /\ BucketInOrder
         /\ worker \in [Workers -> WorkerStates] /\ inflight \subseteq PutRequests
BY DEF PipelineIndInv, OutboxInv, PipelineTypeOK, BucketInOrder

\* What remains to be shown of a step: whatever it changes is in order again.
LEMMA StepInOrder ==
  ASSUME PipelineIndInv, OutboxInv', Typed, Grows, BucketInOrder',
         inflight' \subseteq PutRequests,
         \A put \in inflight' \ inflight : PutInOrder(put)',
         worker' \in [Workers -> WorkerStates],
         \A w \in Workers : worker'[w] # worker[w] => WorkerInOrder(w)'
  PROVE  PipelineIndInv'
<1>1. PutsInOrder'
  <2> SUFFICES ASSUME NEW put \in inflight'
               PROVE  PutInOrder(put)'
    BY DEF PutsInOrder
  <2>1. CASE put \in inflight
    BY <2>1, PutStays DEF PipelineIndInv, PutsInOrder
  <2> QED
    BY <2>1
<1>2. WorkersInOrder'
  <2> SUFFICES ASSUME NEW w \in Workers
               PROVE  WorkerInOrder(w)'
    BY DEF WorkersInOrder
  <2>1. CASE worker'[w] = worker[w]
    BY <2>1, WorkerStays DEF PipelineIndInv, WorkersInOrder
  <2> QED
    BY <2>1
<1> QED
  BY <1>1, <1>2 DEF PipelineIndInv, BucketInOrder, PipelineTypeOK, OutboxInv, TypeInv

\* A step that leaves the outbox alone, or the outbox and the bucket.
LEMMA OutboxRests ==
  ASSUME PipelineIndInv, UNCHANGED outboxVars
  PROVE  /\ OutboxInv'
         /\ UNCHANGED storeVars => BucketInOrder' /\ Typed /\ Grows
         /\ UNCHANGED <<generationObject, currentObject>> => BucketInOrder' /\ Typed /\ Grows
<1>1. OutboxInv'
  BY StepOutboxInv DEF PipelineIndInv
<1>2. /\ desired' = desired /\ served' = served /\ outbox' = outbox
      /\ desired.generation \in Nat /\ GenerationOf(currentObject) \in Nat
  BY IndInvTypes, GenerationOfIsNat
     DEF outboxVars, TypeInv, TypeOK, Pointers, BucketInOrder
<1>3. ASSUME UNCHANGED <<generationObject, currentObject>>
      PROVE  BucketInOrder' /\ Typed /\ Grows
  BY <1>2, <1>3, IndInvTypes
     DEF BucketInOrder, Typed, Grows, KeysStay, GenerationObjectsBound, Bound,
         ServedBehindPointer, PointerMatchesGeneration, GenerationOf
<1> QED
  BY <1>1, <1>3 DEF storeVars

\* Where Goto leads.
LEMMA GotoLeads ==
  ASSUME PipelineIndInv, NEW w \in Workers, NEW step \in Steps, Goto(w, step)
  PROVE  /\ worker' \in [Workers -> WorkerStates]
         /\ \A v \in Workers \ {w} : worker'[v] = worker[v]
         /\ worker'[w].step = step
         /\ worker'[w].generation = worker[w].generation
         /\ worker'[w].version = worker[w].version
         /\ step # "failed" => Document(w)' = Document(w)
         /\ step = "awaitCurrent" => worker'[w].seen = worker[w].seen
<1> DEFINE kid == IF step = "failed" THEN NoKid ELSE worker[w].kid
           attempt == IF step \in {"getCurrent", "putCurrent", "awaitCurrent"}
                      THEN worker[w].attempt ELSE 0
           seen == IF step = "awaitCurrent" THEN worker[w].seen ELSE NoDocument
           new == [worker[w] EXCEPT !.step = step, !.armed = FALSE, !.kid = kid,
                                    !.attempt = attempt, !.seen = seen]
<1>1. worker[w] \in WorkerStates /\ worker \in [Workers -> WorkerStates]
  BY IndInvTypes
<1>2. worker' = [worker EXCEPT ![w] = new]
  BY <1>1 DEF Goto
<1>3. /\ kid \in Kids \cup {NoKid} /\ attempt \in 0 .. ProjectAttempts - 1
      /\ seen \in Documents \cup {NoDocument}
  BY <1>1 DEF WorkerStates, ProjectAttempts
<1>4. /\ step # "failed" => kid = worker[w].kid
      /\ step = "awaitCurrent" => seen = worker[w].seen
  OBVIOUS
<1> HIDE DEF kid, attempt, seen
<1>5. /\ new \in WorkerStates /\ new.step = step /\ new.kid = kid /\ new.seen = seen
      /\ new.generation = worker[w].generation /\ new.version = worker[w].version
  BY <1>1, <1>3 DEF WorkerStates
<1> HIDE DEF new
<1>6. worker'[w] = new
  BY <1>1, <1>2
<1>7. worker' \in [Workers -> WorkerStates] /\ \A v \in Workers \ {w} : worker'[v] = worker[v]
  BY <1>1, <1>2, <1>5
<1>8. step # "failed" => Document(w)' = Document(w)
  BY <1>4, <1>5, <1>6 DEF Document
<1> QED
  BY <1>4, <1>5, <1>6, <1>7, <1>8

\* A worker that gives up keeps nothing but the name of its lease.
LEMMA FailedInOrder ==
  ASSUME PipelineIndInv, Grows, Typed, NEW w \in Workers, worker[w].step # "idle",
         Goto(w, "failed")
  PROVE  WorkerInOrder(w)'
<1>1. /\ worker'[w].step = "failed" /\ worker'[w].generation = worker[w].generation
      /\ worker'[w].version = worker[w].version
  BY GotoLeads DEF Steps
<1>2. /\ worker[w].generation \in Generations /\ worker[w].generation <= desired.generation
      /\ worker[w].version \in 1 .. MaxAttempts
  BY DEF PipelineIndInv, WorkersInOrder, WorkerInOrder
<1>3. worker[w].generation <= desired'.generation
  BY <1>2 DEF Grows, Typed, Generations
<1> QED
  BY <1>1, <1>2, <1>3 DEF WorkerInOrder, Signing, Pointing

\* A worker that goes on with the document it signed.
LEMMA SignerInOrder ==
  ASSUME PipelineIndInv, Typed, Grows, NEW w \in Workers, worker[w].step \in Signing,
         worker'[w].step # "idle",
         worker'[w].generation = worker[w].generation,
         worker'[w].version = worker[w].version,
         Document(w)' = Document(w),
         \/ worker'[w].step \notin Pointing
         \/ worker[w].step \in Pointing
         \/ generationObject'[worker[w].generation] = Document(w),
         worker'[w].step \in {"putCurrent", "awaitCurrent"} =>
           GenerationOf(worker'[w].seen) < worker[w].generation,
         worker'[w].step = "acknowledge" =>
           worker[w].generation <= GenerationOf(currentObject')
  PROVE  WorkerInOrder(w)'
<1> DEFINE g == worker[w].generation
<1>1. PICK document : document = Document(w) /\ document = Document(w)'
  OBVIOUS
<1>2. worker[w].step # "idle" /\ WorkerInOrder(w)
  BY DEF Signing, PipelineIndInv, WorkersInOrder
<1>3. /\ g \in Generations /\ g <= desired.generation /\ worker[w].version \in 1 .. MaxAttempts
      /\ document \in Documents /\ Bound(document)
  BY <1>1, <1>2 DEF WorkerInOrder
<1>4. g <= desired'.generation
  BY <1>3 DEF Typed, Grows, Generations
<1>5. document \in Documents /\ Bound(document)'
  BY <1>3, BoundStays
<1>6. worker'[w].step \in Pointing => generationObject'[g] = document
  BY <1>1, <1>2, <1>3, DocumentIsReal DEF WorkerInOrder, Grows
<1> QED
  BY <1>1, <1>3, <1>4, <1>5, <1>6 DEF WorkerInOrder, GenerationOf, Bound

\* A step that changes nothing but where one worker is.
LEMMA LocalStep ==
  ASSUME PipelineIndInv, UNCHANGED <<outboxVars, storeVars>>, NEW w \in Workers,
         worker' \in [Workers -> WorkerStates],
         \A v \in Workers \ {w} : worker'[v] = worker[v],
         WorkerInOrder(w)'
  PROVE  PipelineIndInv'
<1>1. OutboxInv' /\ BucketInOrder' /\ Typed /\ Grows
  BY OutboxRests
<1>2. inflight' = inflight /\ inflight' \subseteq PutRequests
  BY IndInvTypes DEF storeVars
<1> QED
  BY <1>1, <1>2, StepInOrder

\* A step of one worker and the bucket, with no PUT added but one in order.
LEMMA BucketStep ==
  ASSUME PipelineIndInv, UNCHANGED outboxVars, BucketInOrder', Typed, Grows,
         inflight' \subseteq PutRequests,
         \A put \in inflight' \ inflight : PutInOrder(put)',
         NEW w \in Workers,
         worker' \in [Workers -> WorkerStates],
         \A v \in Workers \ {w} : worker'[v] = worker[v],
         WorkerInOrder(w)'
  PROVE  PipelineIndInv'
<1>1. OutboxInv'
  BY OutboxRests
<1>2. \A v \in Workers : worker'[v] # worker[v] => WorkerInOrder(v)'
  OBVIOUS
<1> QED
  BY <1>1, <1>2, StepInOrder

\* What a worker claims with is the name of an owner.
LEMMA NameOfWorker == \A w \in Workers : OwnerOf[w] \in Owners
BY OwnersAssumption

\* A worker that has nothing is in order.
LEMMA IdleIsState == Idle \in WorkerStates /\ Idle.step = "idle"
BY BoundsAssumption DEF Idle, WorkerStates, Steps, ProjectAttempts

-----------------------------------------------------------------------------
(***************************************************************************)
(* One lemma per action: it is a step of the outbox (or none), and keeps   *)
(* the inductive invariant.                                                *)
(***************************************************************************)
LEMMA CheckpointStep ==
  ASSUME PipelineIndInv, NEW w \in Workers, Checkpoint(w)
  PROVE  UNCHANGED outboxVars /\ PipelineIndInv'
<1>1. worker \in [Workers -> WorkerStates] /\ worker[w] \in WorkerStates
  BY IndInvTypes
<1>2. worker' = [worker EXCEPT ![w] = [worker[w] EXCEPT !.armed = TRUE]]
  BY <1>1 DEF Checkpoint
<1>3. UNCHANGED <<outboxVars, storeVars>> /\ worker[w].step \in Checkpointed
  BY DEF Checkpoint
<1> DEFINE new == [worker[w] EXCEPT !.armed = TRUE]
<1>4. /\ new \in WorkerStates /\ new.step = worker[w].step
      /\ new.generation = worker[w].generation /\ new.version = worker[w].version
      /\ new.kid = worker[w].kid /\ new.seen = worker[w].seen
  BY <1>1 DEF WorkerStates
<1> HIDE DEF new
<1>5. /\ worker' \in [Workers -> WorkerStates] /\ worker'[w] = new
      /\ \A v \in Workers \ {w} : worker'[v] = worker[v]
  BY <1>1, <1>2, <1>4 DEF new
<1>6. Typed /\ Grows /\ currentObject' = currentObject
  BY <1>3, OutboxRests DEF storeVars
<1>7. worker[w].step \in Signing /\ worker[w].step # "idle" /\ WorkerInOrder(w)
  BY <1>3 DEF Checkpointed, Signing, Steps, PipelineIndInv, WorkersInOrder
<1>8. Document(w)' = Document(w)
  BY <1>4, <1>5 DEF Document
<1>9. /\ GenerationOf(worker'[w].seen) = GenerationOf(worker[w].seen)
      /\ GenerationOf(currentObject') = GenerationOf(currentObject)
  BY <1>4, <1>5, <1>6 DEF GenerationOf
<1>10. WorkerInOrder(w)'
  BY <1>4, <1>5, <1>6, <1>7, <1>8, <1>9, SignerInOrder DEF WorkerInOrder
<1> QED
  BY <1>3, <1>5, <1>10, LocalStep

LEMMA ThrowStep ==
  ASSUME PipelineIndInv, NEW w \in Workers, Throw(w)
  PROVE  UNCHANGED outboxVars /\ PipelineIndInv'
<1>1. UNCHANGED <<outboxVars, storeVars>> /\ worker[w].step # "idle" /\ Goto(w, "failed")
  BY DEF Throw
<1>2. /\ worker' \in [Workers -> WorkerStates]
      /\ \A v \in Workers \ {w} : worker'[v] = worker[v]
  BY <1>1, GotoLeads DEF Steps
<1>3. WorkerInOrder(w)'
  BY <1>1, OutboxRests, FailedInOrder
<1> QED
  BY <1>1, <1>2, <1>3, LocalStep

LEMMA GoIdle ==
  ASSUME PipelineIndInv, NEW w \in Workers, worker' = [worker EXCEPT ![w] = Idle]
  PROVE  /\ worker' \in [Workers -> WorkerStates]
         /\ \A v \in Workers \ {w} : worker'[v] = worker[v]
         /\ WorkerInOrder(w)'
<1>1. worker'[w] = Idle
  BY IndInvTypes
<1>2. WorkerInOrder(w)'
  BY <1>1, IdleIsState DEF WorkerInOrder
<1> QED
  BY <1>2, IndInvTypes, IdleIsState

LEMMA CrashStep ==
  ASSUME PipelineIndInv, NEW w \in Workers, Crash(w)
  PROVE  UNCHANGED outboxVars /\ PipelineIndInv'
BY GoIdle, LocalStep DEF Crash

\* A PUT of the document of the lease, replacing what is older.
LEMMA PutOfInOrder ==
  ASSUME PipelineIndInv, NEW w \in Workers, NEW key \in {"generation", "current"},
         worker[w].step \in Signing,
         key = "current" => worker[w].step \in {"putCurrent", "awaitCurrent"}
  PROVE  PutOf(w, key) \in PutRequests /\ PutInOrder(PutOf(w, key))
<1>1. /\ worker[w] \in WorkerStates /\ WorkerInOrder(w) /\ worker[w].step # "idle"
  BY IndInvTypes DEF PipelineIndInv, WorkersInOrder, Signing
<1>2. Document(w) \in Documents /\ Bound(Document(w))
      /\ Document(w).generation = worker[w].generation
  BY <1>1 DEF WorkerInOrder, Document
<1>3. key = "current" =>
        /\ generationObject[worker[w].generation] = Document(w)
        /\ GenerationOf(worker[w].seen) < worker[w].generation
  BY <1>1 DEF WorkerInOrder, Pointing
<1>4. PutOf(w, key) \in PutRequests
  BY <1>1, <1>2 DEF PutOf, PutRequests, WorkerStates
<1>5. /\ PutOf(w, key).body = Document(w) /\ PutOf(w, key).key = key
      /\ PutOf(w, key).ifMatch = IF key = "current" THEN worker[w].seen ELSE NoDocument
  BY DEF PutOf
<1> QED
  BY <1>2, <1>3, <1>4, <1>5 DEF PutInOrder, GenerationOf

LEMMA PutGenerationStep ==
  ASSUME PipelineIndInv, NEW w \in Workers, PutGeneration(w)
  PROVE  UNCHANGED outboxVars /\ PipelineIndInv'
<1> DEFINE put == PutOf(w, "generation")
<1>1. /\ worker[w].step = "putGeneration" /\ worker[w].step \in Signing
      /\ UNCHANGED outboxVars /\ UNCHANGED <<generationObject, currentObject>>
      /\ inflight' = inflight \cup {put} /\ Goto(w, "awaitGeneration")
  BY DEF PutGeneration, SendPut, Signing, Steps
<1>2. put \in PutRequests /\ PutInOrder(put)
  BY <1>1, PutOfInOrder
<1>3. OutboxInv' /\ BucketInOrder' /\ Typed /\ Grows
  BY <1>1, OutboxRests
<1>4. PICK sent : sent = put /\ sent \in PutRequests /\ PutInOrder(sent)
  BY <1>2
<1>5. PutInOrder(sent)'
  BY <1>3, <1>4, PutStays
<1>6. /\ inflight' \subseteq PutRequests
      /\ \A new \in inflight' \ inflight : PutInOrder(new)'
  BY <1>1, <1>4, <1>5, IndInvTypes
<1>7. /\ worker' \in [Workers -> WorkerStates]
      /\ \A v \in Workers \ {w} : worker'[v] = worker[v]
      /\ worker'[w].step = "awaitGeneration"
      /\ worker'[w].generation = worker[w].generation
      /\ worker'[w].version = worker[w].version
      /\ Document(w)' = Document(w)
  BY <1>1, GotoLeads DEF Steps
<1>8. WorkerInOrder(w)'
  BY <1>1, <1>3, <1>7, SignerInOrder DEF Pointing
<1> QED
  BY <1>1, <1>3, <1>6, <1>7, <1>8, BucketStep

LEMMA PutCurrentStep ==
  ASSUME PipelineIndInv, NEW w \in Workers, PutCurrent(w)
  PROVE  UNCHANGED outboxVars /\ PipelineIndInv'
<1> DEFINE put == PutOf(w, "current")
<1>1. /\ worker[w].step = "putCurrent" /\ worker[w].step \in Signing \cap Pointing
      /\ UNCHANGED outboxVars /\ UNCHANGED <<generationObject, currentObject>>
      /\ inflight' = inflight \cup {put} /\ Goto(w, "awaitCurrent")
  BY DEF PutCurrent, SendPut, Signing, Steps, Pointing
<1>2. put \in PutRequests /\ PutInOrder(put)
  BY <1>1, PutOfInOrder
<1>3. OutboxInv' /\ BucketInOrder' /\ Typed /\ Grows
  BY <1>1, OutboxRests
<1>4. PICK sent : sent = put /\ sent \in PutRequests /\ PutInOrder(sent)
  BY <1>2
<1>5. PutInOrder(sent)'
  BY <1>3, <1>4, PutStays
<1>6. /\ inflight' \subseteq PutRequests
      /\ \A new \in inflight' \ inflight : PutInOrder(new)'
  BY <1>1, <1>4, <1>5, IndInvTypes
<1>7. /\ worker' \in [Workers -> WorkerStates]
      /\ \A v \in Workers \ {w} : worker'[v] = worker[v]
      /\ worker'[w].step = "awaitCurrent"
      /\ worker'[w].generation = worker[w].generation
      /\ worker'[w].version = worker[w].version
      /\ Document(w)' = Document(w)
      /\ worker'[w].seen = worker[w].seen
  BY <1>1, GotoLeads DEF Steps
<1>8. GenerationOf(worker'[w].seen) < worker[w].generation
  BY <1>1, <1>7 DEF PipelineIndInv, WorkersInOrder, WorkerInOrder, GenerationOf
<1>9. WorkerInOrder(w)'
  BY <1>1, <1>3, <1>7, <1>8, SignerInOrder
<1> QED
  BY <1>1, <1>3, <1>6, <1>7, <1>9, BucketStep

LEMMA GenerationPutAnsweredStep ==
  ASSUME PipelineIndInv, NEW w \in Workers, GenerationPutAnswered(w)
  PROVE  /\ UNCHANGED outboxVars /\ PipelineIndInv'
         /\ currentObject' # currentObject =>
              GenerationOf(currentObject) < GenerationOf(currentObject')
<1> DEFINE put == PutOf(w, "generation")
<1>1. /\ worker[w].step = "awaitGeneration" /\ worker[w].step \in Signing
      /\ UNCHANGED outboxVars /\ Serve(put)
      /\ inflight' = inflight \ {put} /\ Goto(w, "getGeneration")
  BY DEF GenerationPutAnswered, Signing, Steps
<1>2. put \in PutRequests /\ PutInOrder(put)
  BY <1>1, PutOfInOrder
<1>3. /\ BucketInOrder' /\ Typed /\ Grows
      /\ currentObject' # currentObject =>
           GenerationOf(currentObject) < GenerationOf(currentObject')
  BY <1>1, <1>2, ServeKeepsBucket, IndInvTypes
<1>4. inflight' \subseteq PutRequests /\ inflight' \ inflight = {}
  BY <1>1, IndInvTypes
<1>5. /\ worker' \in [Workers -> WorkerStates]
      /\ \A v \in Workers \ {w} : worker'[v] = worker[v]
      /\ worker'[w].step = "getGeneration"
      /\ worker'[w].generation = worker[w].generation
      /\ worker'[w].version = worker[w].version
      /\ Document(w)' = Document(w)
  BY <1>1, GotoLeads DEF Steps
<1>6. WorkerInOrder(w)'
  BY <1>1, <1>3, <1>5, SignerInOrder DEF Pointing
<1> QED
  BY <1>1, <1>3, <1>4, <1>5, <1>6, BucketStep

\* The pointer shows what the worker signed.
LEMMA ShownIsReached ==
  ASSUME PipelineIndInv, UNCHANGED storeVars, NEW w \in Workers, worker[w].step \in Signing,
         currentObject = Document(w)
  PROVE  worker[w].generation <= GenerationOf(currentObject')
<1>1. worker[w].generation \in Nat /\ Document(w) \in Documents
  BY DEF PipelineIndInv, WorkersInOrder, WorkerInOrder, Signing, Generations
<1>2. Document(w).generation = worker[w].generation /\ Document(w) # NoDocument
  BY <1>1, DocumentIsReal DEF Document
<1>3. currentObject' = Document(w)
  BY DEF storeVars
<1>4. GenerationOf(currentObject') = worker[w].generation
  BY <1>2, <1>3 DEF GenerationOf
<1> QED
  BY <1>1, <1>4

\* The checks of the bytes at a generation, and of the pointer.
LEMMA GetGenerationStep ==
  ASSUME PipelineIndInv, NEW w \in Workers, GetGeneration(w)
  PROVE  UNCHANGED outboxVars /\ PipelineIndInv'
<1>1. /\ worker[w].step = "getGeneration" /\ worker[w].step \in Signing
      /\ worker[w].step # "idle" /\ UNCHANGED <<outboxVars, storeVars>>
  BY DEF GetGeneration, Signing, Steps
<1>2. BucketInOrder' /\ Typed /\ Grows
  BY <1>1, OutboxRests
<1>3. CASE Goto(w, "failed")
  <2>1. WorkerInOrder(w)'
    BY <1>1, <1>2, <1>3, FailedInOrder
  <2> QED
    BY <1>1, <1>3, <2>1, GotoLeads, LocalStep DEF Steps
<1>4. CASE generationObject[worker[w].generation] = Document(w) /\ Goto(w, "getCurrent")
  <2>1. /\ worker' \in [Workers -> WorkerStates]
        /\ \A v \in Workers \ {w} : worker'[v] = worker[v]
        /\ worker'[w].step = "getCurrent"
        /\ worker'[w].generation = worker[w].generation
        /\ worker'[w].version = worker[w].version
        /\ Document(w)' = Document(w)
    BY <1>4, GotoLeads DEF Steps
  <2>2. generationObject'[worker[w].generation] = Document(w)
    BY <1>1, <1>4 DEF storeVars
  <2>3. WorkerInOrder(w)'
    BY <1>1, <1>2, <2>1, <2>2, SignerInOrder
  <2> QED
    BY <1>1, <2>1, <2>3, LocalStep
<1> QED
  BY <1>3, <1>4 DEF GetGeneration

LEMMA ReadBackStep ==
  ASSUME PipelineIndInv, NEW w \in Workers, ReadBack(w)
  PROVE  UNCHANGED outboxVars /\ PipelineIndInv'
<1>1. /\ worker[w].step = "readBack" /\ worker[w].step \in Signing \cap Pointing
      /\ worker[w].step # "idle" /\ UNCHANGED <<outboxVars, storeVars>>
  BY DEF ReadBack, Signing, Steps, Pointing
<1>2. BucketInOrder' /\ Typed /\ Grows
  BY <1>1, OutboxRests
<1>3. CASE Goto(w, "failed")
  <2>1. WorkerInOrder(w)'
    BY <1>1, <1>2, <1>3, FailedInOrder
  <2> QED
    BY <1>1, <1>3, <2>1, GotoLeads, LocalStep DEF Steps
<1>4. CASE currentObject = Document(w) /\ Goto(w, "acknowledge")
  <2>1. /\ worker' \in [Workers -> WorkerStates]
        /\ \A v \in Workers \ {w} : worker'[v] = worker[v]
        /\ worker'[w].step = "acknowledge"
        /\ worker'[w].generation = worker[w].generation
        /\ worker'[w].version = worker[w].version
        /\ Document(w)' = Document(w)
    BY <1>4, GotoLeads DEF Steps
  <2>2. worker[w].generation <= GenerationOf(currentObject')
    BY <1>1, <1>4, ShownIsReached
  <2>3. WorkerInOrder(w)'
    BY <1>1, <1>2, <2>1, <2>2, SignerInOrder
  <2> QED
    BY <1>1, <2>1, <2>3, LocalStep
<1> QED
  BY <1>3, <1>4 DEF ReadBack

LEMMA GetCurrentStep ==
  ASSUME PipelineIndInv, NEW w \in Workers, GetCurrent(w)
  PROVE  UNCHANGED outboxVars /\ PipelineIndInv'
<1>1. /\ worker[w].step = "getCurrent" /\ worker[w].step \in Signing \cap Pointing
      /\ worker[w].step # "idle" /\ UNCHANGED <<outboxVars, storeVars>>
  BY DEF GetCurrent, Signing, Steps, Pointing
<1>2. BucketInOrder' /\ Typed /\ Grows
  BY <1>1, OutboxRests
<1>3. /\ worker[w].generation \in Nat /\ GenerationOf(currentObject) \in Nat
      /\ currentObject \in Documents \cup {NoDocument}
      /\ worker \in [Workers -> WorkerStates] /\ worker[w] \in WorkerStates
  BY <1>1, IndInvTypes, GenerationOfIsNat
     DEF PipelineIndInv, WorkersInOrder, WorkerInOrder, Generations, BucketInOrder
<1>4. CASE Goto(w, "failed")
  <2>1. WorkerInOrder(w)'
    BY <1>1, <1>2, <1>4, FailedInOrder
  <2> QED
    BY <1>1, <1>4, <2>1, GotoLeads, LocalStep DEF Steps
<1>5. CASE currentObject = Document(w) /\ Goto(w, "acknowledge")
  <2>1. /\ worker' \in [Workers -> WorkerStates]
        /\ \A v \in Workers \ {w} : worker'[v] = worker[v]
        /\ worker'[w].step = "acknowledge"
        /\ worker'[w].generation = worker[w].generation
        /\ worker'[w].version = worker[w].version
        /\ Document(w)' = Document(w)
    BY <1>5, GotoLeads DEF Steps
  <2>2. worker[w].generation <= GenerationOf(currentObject')
    BY <1>1, <1>5, ShownIsReached
  <2>3. WorkerInOrder(w)'
    BY <1>1, <1>2, <2>1, <2>2, SignerInOrder
  <2> QED
    BY <1>1, <2>1, <2>3, LocalStep
<1> DEFINE new == [worker[w] EXCEPT !.step = "putCurrent", !.armed = FALSE,
                                    !.seen = currentObject]
<1>6. CASE GenerationOf(currentObject) < worker[w].generation /\ worker' = [worker EXCEPT ![w] = new]
  <2>1. /\ new \in WorkerStates /\ new.step = "putCurrent" /\ new.seen = currentObject
        /\ new.generation = worker[w].generation /\ new.version = worker[w].version
        /\ new.kid = worker[w].kid
    BY <1>3 DEF WorkerStates, Steps
  <2> HIDE DEF new
  <2>2. /\ worker' \in [Workers -> WorkerStates] /\ worker'[w] = new
        /\ \A v \in Workers \ {w} : worker'[v] = worker[v]
    BY <1>3, <1>6, <2>1
  <2>3. Document(w)' = Document(w)
    BY <2>1, <2>2 DEF Document
  <2>4. GenerationOf(worker'[w].seen) = GenerationOf(currentObject)
    BY <2>1, <2>2 DEF GenerationOf
  <2>5. WorkerInOrder(w)'
    BY <1>1, <1>2, <1>6, <2>1, <2>2, <2>3, <2>4, SignerInOrder
  <2> QED
    BY <1>1, <2>2, <2>5, LocalStep
<1>7. \/ Goto(w, "failed")
      \/ currentObject = Document(w) /\ Goto(w, "acknowledge")
      \/ GenerationOf(currentObject) < worker[w].generation /\ worker' = [worker EXCEPT ![w] = new]
  <2> HIDE DEF new
  <2>1. CASE GenerationOf(currentObject) > worker[w].generation
    BY <2>1 DEF GetCurrent
  <2>2. CASE ~(GenerationOf(currentObject) > worker[w].generation) /\ currentObject = Document(w)
    BY <2>2 DEF GetCurrent
  <2>3. CASE /\ ~(GenerationOf(currentObject) > worker[w].generation)
             /\ currentObject # Document(w)
             /\ GenerationOf(currentObject) = worker[w].generation
    BY <2>3 DEF GetCurrent
  <2>4. CASE /\ ~(GenerationOf(currentObject) > worker[w].generation)
             /\ currentObject # Document(w)
             /\ GenerationOf(currentObject) # worker[w].generation
    <3>1. worker' = [worker EXCEPT ![w].step = "putCurrent", ![w].armed = FALSE,
                                   ![w].seen = currentObject]
      BY <2>4 DEF GetCurrent
    <3>2. worker' = [worker EXCEPT ![w] = new]
      BY <1>3, <3>1 DEF new
    <3>3. GenerationOf(currentObject) < worker[w].generation
      BY <1>3, <2>4
    <3> QED
      BY <3>2, <3>3
  <2> QED
    BY <2>1, <2>2, <2>3, <2>4
<1> QED
  BY <1>4, <1>5, <1>6, <1>7

LEMMA CurrentPutAnsweredStep ==
  ASSUME PipelineIndInv, NEW w \in Workers, CurrentPutAnswered(w)
  PROVE  /\ UNCHANGED outboxVars /\ PipelineIndInv'
         /\ currentObject' # currentObject =>
              GenerationOf(currentObject) < GenerationOf(currentObject')
<1> DEFINE put == PutOf(w, "current")
           again == [worker[w] EXCEPT !.step = "getCurrent", !.armed = FALSE,
                                      !.attempt = @ + 1, !.seen = NoDocument]
<1>1. /\ worker[w].step = "awaitCurrent" /\ worker[w].step \in Signing \cap Pointing
      /\ worker[w].step # "idle" /\ UNCHANGED outboxVars /\ Serve(put)
      /\ inflight' = inflight \ {put}
  BY DEF CurrentPutAnswered, Signing, Steps, Pointing
<1>2. put \in PutRequests /\ PutInOrder(put)
  BY <1>1, PutOfInOrder
<1>3. /\ BucketInOrder' /\ Typed /\ Grows
      /\ currentObject' # currentObject =>
           GenerationOf(currentObject) < GenerationOf(currentObject')
  BY <1>1, <1>2, ServeKeepsBucket, IndInvTypes
<1>4. inflight' \subseteq PutRequests /\ inflight' \ inflight = {}
  BY <1>1, IndInvTypes
<1>5. CASE Goto(w, "readBack")
  <2>1. /\ worker' \in [Workers -> WorkerStates]
        /\ \A v \in Workers \ {w} : worker'[v] = worker[v]
        /\ worker'[w].step = "readBack"
        /\ worker'[w].generation = worker[w].generation
        /\ worker'[w].version = worker[w].version
        /\ Document(w)' = Document(w)
    BY <1>5, GotoLeads DEF Steps
  <2>2. WorkerInOrder(w)'
    BY <1>1, <1>3, <2>1, SignerInOrder
  <2> QED
    BY <1>1, <1>3, <1>4, <2>1, <2>2, BucketStep
<1>6. CASE Goto(w, "failed")
  <2>1. WorkerInOrder(w)'
    BY <1>1, <1>3, <1>6, FailedInOrder
  <2>2. /\ worker' \in [Workers -> WorkerStates]
        /\ \A v \in Workers \ {w} : worker'[v] = worker[v]
    BY <1>6, GotoLeads DEF Steps
  <2> QED
    BY <1>1, <1>3, <1>4, <2>1, <2>2, BucketStep
<1>7. CASE worker[w].attempt # ProjectAttempts - 1 /\ worker' = [worker EXCEPT ![w] = again]
  <2>1. worker \in [Workers -> WorkerStates] /\ worker[w] \in WorkerStates
    BY IndInvTypes
  <2>2. /\ again \in WorkerStates /\ again.step = "getCurrent"
        /\ again.generation = worker[w].generation /\ again.version = worker[w].version
        /\ again.kid = worker[w].kid
    <3>1. worker[w].attempt + 1 \in 0 .. ProjectAttempts - 1
      BY <1>7, <2>1 DEF WorkerStates, ProjectAttempts
    <3> DEFINE next == worker[w].attempt + 1
    <3>2. next \in 0 .. ProjectAttempts - 1
      BY <3>1
    <3> HIDE DEF next
    <3>3. again = [worker[w] EXCEPT !.step = "getCurrent", !.armed = FALSE,
                                    !.attempt = next, !.seen = NoDocument]
      BY DEF next
    <3> QED
      BY <2>1, <3>2, <3>3 DEF WorkerStates, Steps
  <2> HIDE DEF again
  <2>3. /\ worker' \in [Workers -> WorkerStates] /\ worker'[w] = again
        /\ \A v \in Workers \ {w} : worker'[v] = worker[v]
    BY <1>7, <2>1, <2>2
  <2>4. Document(w)' = Document(w)
    BY <2>2, <2>3 DEF Document
  <2>5. WorkerInOrder(w)'
    BY <1>1, <1>3, <2>2, <2>3, <2>4, SignerInOrder
  <2> QED
    BY <1>1, <1>3, <1>4, <2>3, <2>5, BucketStep
<1>8. \/ Goto(w, "readBack")
      \/ Goto(w, "failed")
      \/ worker[w].attempt # ProjectAttempts - 1 /\ worker' = [worker EXCEPT ![w] = again]
  <2> HIDE DEF again
  <2>1. CASE Accepts(put) \/ worker[w].attempt = ProjectAttempts - 1
    BY <2>1 DEF CurrentPutAnswered
  <2>2. CASE ~Accepts(put) /\ worker[w].attempt # ProjectAttempts - 1
    <3>1. worker' = [worker EXCEPT ![w].step = "getCurrent", ![w].armed = FALSE,
                                   ![w].attempt = @ + 1, ![w].seen = NoDocument]
      BY <2>2 DEF CurrentPutAnswered
    <3>2. worker' = [worker EXCEPT ![w] = again]
      BY <3>1, IndInvTypes DEF again
    <3> QED
      BY <2>2, <3>2
  <2> QED
    BY <2>1, <2>2
<1> QED
  BY <1>1, <1>3, <1>5, <1>6, <1>7, <1>8

\* The bucket alone.
LEMMA BucketAloneStep ==
  ASSUME PipelineIndInv, NEW put \in inflight, ServeUnanswered(put) \/ DropPut(put)
  PROVE  /\ UNCHANGED outboxVars /\ PipelineIndInv'
         /\ currentObject' # currentObject =>
              GenerationOf(currentObject) < GenerationOf(currentObject')
<1>1. UNCHANGED outboxVars /\ worker' = worker /\ inflight' \subseteq inflight
  BY DEF ServeUnanswered, DropPut
<1>2. put \in PutRequests /\ PutInOrder(put)
  BY IndInvTypes DEF PipelineIndInv, PutsInOrder
<1>3. /\ BucketInOrder' /\ Typed /\ Grows
      /\ currentObject' # currentObject =>
           GenerationOf(currentObject) < GenerationOf(currentObject')
  <2>1. CASE ServeUnanswered(put)
    <3>1. Serve(put)
      BY <2>1 DEF ServeUnanswered
    <3> QED
      BY <1>1, <1>2, <3>1, ServeKeepsBucket, IndInvTypes
  <2>2. CASE DropPut(put)
    <3>1. UNCHANGED <<generationObject, currentObject>>
      BY <2>2 DEF DropPut
    <3> QED
      BY <1>1, <3>1, OutboxRests
  <2> QED
    BY <2>1, <2>2
<1>4. OutboxInv' /\ inflight' \subseteq PutRequests /\ inflight' \ inflight = {}
      /\ worker' \in [Workers -> WorkerStates]
  BY <1>1, OutboxRests, IndInvTypes
<1> QED
  BY <1>1, <1>3, <1>4, StepInOrder

\* A step of the outbox that serves nothing new, with the bucket at rest.
LEMMA OutboxStep ==
  ASSUME PipelineIndInv, [Next]_outboxVars, UNCHANGED storeVars, served' = served
  PROVE  OutboxInv' /\ BucketInOrder' /\ Typed /\ Grows /\ inflight' = inflight
<1>1. OutboxInv'
  BY StepOutboxInv DEF PipelineIndInv
<1>2. TypeInv' /\ TypeInv /\ BucketInOrder
  BY <1>1, IndInvTypes DEF OutboxInv
<1>3. served'.generation <= GenerationOf(currentObject)
  BY DEF PipelineIndInv, ServedBehindPointer
<1> QED
  BY <1>1, <1>2, <1>3, OutboxKeepsBucket DEF storeVars

LEMMA ControlStep ==
  ASSUME PipelineIndInv, Control, UNCHANGED <<storeVars, worker>>
  PROVE  [Next]_outboxVars /\ PipelineIndInv'
<1>1. [Next]_outboxVars /\ served' = served
  BY DEF Next, Control, Request
<1>2. OutboxInv' /\ BucketInOrder' /\ Typed /\ Grows /\ inflight' = inflight
  BY <1>1, OutboxStep
<1> QED
  BY <1>1, <1>2, StepInOrder, IndInvTypes

LEMMA PublicationClockStep ==
  ASSUME PipelineIndInv, PublicationClock
  PROVE  [Next]_outboxVars /\ PipelineIndInv'
<1>1. [Next]_outboxVars /\ served' = served /\ UNCHANGED storeVars /\ worker' = worker
  BY DEF PublicationClock, Next, Environment, LeaseExpires, RetryFallsDue
<1>2. OutboxInv' /\ BucketInOrder' /\ Typed /\ Grows /\ inflight' = inflight
  BY <1>1, OutboxStep
<1> QED
  BY <1>1, <1>2, StepInOrder, IndInvTypes

LEMMA HandBackStep ==
  ASSUME PipelineIndInv, NEW w \in Workers, HandBack(w)
  PROVE  [Next]_outboxVars /\ PipelineIndInv'
<1>1. /\ worker[w].generation \in Generations /\ worker[w].version \in 1 .. MaxAttempts
  BY DEF HandBack, PipelineIndInv, WorkersInOrder, WorkerInOrder
<1>2. [Next]_outboxVars /\ served' = served /\ UNCHANGED storeVars
  BY <1>1, NameOfWorker DEF HandBack, Next, Worker, Retry, Fail
<1>3. OutboxInv' /\ BucketInOrder' /\ Typed /\ Grows /\ inflight' = inflight
  BY <1>2, OutboxStep
<1>4. /\ worker' \in [Workers -> WorkerStates]
      /\ \A v \in Workers \ {w} : worker'[v] = worker[v]
      /\ WorkerInOrder(w)'
  BY GoIdle DEF HandBack
<1>5. \A v \in Workers : worker'[v] # worker[v] => WorkerInOrder(v)'
  BY <1>4
<1> QED
  BY <1>2, <1>3, <1>4, <1>5, StepInOrder, IndInvTypes

\* The lease of a claim: a row that was requested, at its newest version, with
\* the key it is bound to, if any.
LEMMA ClaimDueStep ==
  ASSUME PipelineIndInv, NEW w \in Workers, ClaimDue(w)
  PROVE  [Next]_outboxVars /\ PipelineIndInv'
<1>1. PICK locked \in SUBSET Generations : Claim(OwnerOf[w], locked)
  BY DEF ClaimDue
<1>2. [Next]_outboxVars /\ served' = served /\ desired' = desired /\ UNCHANGED storeVars
  <2>1. Worker
    BY <1>1, NameOfWorker DEF Worker
  <2> QED
    BY <1>1, <2>1 DEF Next, Claim, ClaimDue
<1>3. OutboxInv' /\ BucketInOrder' /\ Typed /\ Grows /\ inflight' = inflight
  BY <1>2, OutboxStep
<1>4. worker \in [Workers -> WorkerStates] /\ inflight' \subseteq PutRequests
      /\ inflight' \ inflight = {}
  BY <1>3, IndInvTypes
<1>5. CASE UNCHANGED worker
  BY <1>2, <1>3, <1>4, <1>5, StepInOrder
<1>6. ASSUME NEW g \in Generations, outbox'[g].state = "LEASED",
             outbox'[g].version # outbox[g].version,
             worker' = [worker EXCEPT ![w] =
               [Idle EXCEPT !.generation = g, !.version = outbox'[g].version,
                            !.kid = outbox'[g].kid,
                            !.step = IF outbox'[g].kid = NoKid
                                     THEN "bindKey" ELSE "putGeneration"]]
      PROVE  PipelineIndInv'
  <2> DEFINE new == [Idle EXCEPT !.generation = g, !.version = outbox'[g].version,
                            !.kid = outbox'[g].kid,
                            !.step = IF outbox'[g].kid = NoKid
                                     THEN "bindKey" ELSE "putGeneration"]
  <2>1. /\ outbox[g].state # "ABSENT" /\ outbox'[g].version \in 1 .. MaxAttempts
    BY <1>1, <1>6, NameOfWorker, ClaimKeepsKeys, IndInvTypes
  <2>2. outbox'[g].kid \in Kids \cup {NoKid}
    BY <1>3 DEF OutboxInv, TypeInv, TypeOK, Rows
  <2>3. g <= desired'.generation /\ g \in Nat
    BY <1>2, <1>3, <2>1
       DEF PipelineIndInv, OutboxInv, RowsUpToDesired, Generations, Typed
  <2>4. /\ new.step = (IF outbox'[g].kid = NoKid THEN "bindKey" ELSE "putGeneration")
        /\ new.generation = g /\ new.version = outbox'[g].version
        /\ new.kid = outbox'[g].kid
    BY DEF Idle
  <2>5. new \in WorkerStates
    <3>1. outbox'[g].version \in 0 .. MaxAttempts
      BY <2>1
    <3> QED
      BY <2>2, <3>1, IdleIsState DEF WorkerStates, Steps
  <2> HIDE DEF new
  <2>6. /\ worker' \in [Workers -> WorkerStates] /\ worker'[w] = new
        /\ \A v \in Workers \ {w} : worker'[v] = worker[v]
    BY <1>4, <1>6, <2>5 DEF new
  <2>7. ASSUME worker'[w].step \in Signing
        PROVE  Document(w)' \in Documents /\ Bound(Document(w))'
    <3>1. outbox'[g].kid # NoKid
      BY <2>4, <2>6, <2>7 DEF Signing
    <3>2. PICK document : document = Document(w)' /\ document = [generation |-> g, kid |-> outbox'[g].kid]
      BY <2>4, <2>6 DEF Document
    <3>3. document \in Documents /\ Bound(document)'
      BY <2>2, <2>3, <3>1, <3>2 DEF Documents, Bound
    <3> QED
      BY <3>2, <3>3 DEF Bound
  <2>8. WorkerInOrder(w)'
    BY <2>1, <2>3, <2>4, <2>6, <2>7 DEF WorkerInOrder, Pointing
  <2>9. \A v \in Workers : worker'[v] # worker[v] => WorkerInOrder(v)'
    BY <2>6, <2>8
  <2> QED
    BY <1>3, <1>4, <2>6, <2>9, StepInOrder
<1>7. \/ UNCHANGED worker
      \/ \E g \in Generations :
           /\ outbox'[g].state = "LEASED" /\ outbox'[g].version # outbox[g].version
           /\ worker' = [worker EXCEPT ![w] =
               [Idle EXCEPT !.generation = g, !.version = outbox'[g].version,
                            !.kid = outbox'[g].kid,
                            !.step = IF outbox'[g].kid = NoKid
                                     THEN "bindKey" ELSE "putGeneration"]]
  BY DEF ClaimDue
<1> QED
  BY <1>2, <1>5, <1>6, <1>7

LEMMA BindRoutingKeyStep ==
  ASSUME PipelineIndInv, NEW w \in Workers, BindRoutingKey(w)
  PROVE  [Next]_outboxVars /\ PipelineIndInv'
<1> DEFINE g == worker[w].generation
<1>1. PICK kid \in Kids :
        /\ BindKey(g, OwnerOf[w], worker[w].version, kid)
        /\ worker' = [worker EXCEPT ![w].kid = kid, ![w].step = "putGeneration"]
  BY DEF BindRoutingKey
<1>2. /\ g \in Generations /\ g <= desired.generation /\ worker[w].version \in 1 .. MaxAttempts
  BY DEF BindRoutingKey, PipelineIndInv, WorkersInOrder, WorkerInOrder
<1>3. [Next]_outboxVars /\ served' = served /\ desired' = desired /\ UNCHANGED storeVars
  BY <1>1, <1>2, NameOfWorker DEF Next, Worker, BindKey, BindRoutingKey
<1>4. OutboxInv' /\ BucketInOrder' /\ Typed /\ Grows /\ inflight' = inflight
  BY <1>3, OutboxStep
<1>5. /\ worker \in [Workers -> WorkerStates] /\ worker[w] \in WorkerStates
      /\ inflight' \subseteq PutRequests /\ inflight' \ inflight = {}
  BY <1>4, IndInvTypes
<1> DEFINE new == [worker[w] EXCEPT !.kid = kid, !.step = "putGeneration"]
<1>6. /\ new \in WorkerStates /\ new.step = "putGeneration" /\ new.kid = kid
      /\ new.generation = g /\ new.version = worker[w].version
  BY <1>5 DEF WorkerStates, Steps
<1>7. worker' = [worker EXCEPT ![w] = new]
  BY <1>1, <1>5
<1> HIDE DEF new
<1>8. /\ worker' \in [Workers -> WorkerStates] /\ worker'[w] = new
      /\ \A v \in Workers \ {w} : worker'[v] = worker[v]
  BY <1>5, <1>6, <1>7
<1>9. outbox'[g].kid = kid
  <2>1. outbox[g] \in Rows /\ outbox \in [Generations -> Rows]
    BY <1>2, IndInvTypes DEF TypeInv, TypeOK
  <2> QED
    BY <1>1, <1>2, <2>1 DEF BindKey, Rows
<1>10. PICK document : document = Document(w)' /\ document = [generation |-> g, kid |-> kid]
  BY <1>6, <1>8 DEF Document
<1>11. document \in Documents /\ Bound(document)'
  BY <1>2, <1>3, <1>9, <1>10 DEF Documents, Bound
<1>12. WorkerInOrder(w)'
  BY <1>2, <1>3, <1>6, <1>8, <1>10, <1>11 DEF WorkerInOrder, Pointing, Bound
<1>13. \A v \in Workers : worker'[v] # worker[v] => WorkerInOrder(v)'
  BY <1>8, <1>12
<1> QED
  BY <1>3, <1>4, <1>5, <1>8, <1>13, StepInOrder

\* At the acknowledgement the pointer shows the very document of the lease, it is
\* the newest request's, and it was not served before.
LEMMA AcknowledgedIsShown ==
  ASSUME PipelineIndInv, NEW w \in Workers, AcknowledgeProjection(w)
  PROVE  LET g == worker[w].generation
         IN /\ g \in Generations /\ desired.generation = g
            /\ currentObject = Document(w) /\ GenerationOf(currentObject) = g
            /\ served.generation < g /\ served'.generation = g
            /\ outbox'[g].projection = Document(w)
            /\ desired' = desired /\ UNCHANGED storeVars
            /\ [Next]_outboxVars
<1> DEFINE g == worker[w].generation
<1>1. /\ worker[w].step = "acknowledge" /\ worker[w].step # "idle"
      /\ worker[w].step \in Signing \cap Pointing
      /\ Acknowledge(g, OwnerOf[w], worker[w].version, Document(w)) /\ UNCHANGED storeVars
  BY DEF AcknowledgeProjection, Signing, Pointing, Steps
<1>2. /\ g \in Generations /\ g \in Nat /\ g # 0 /\ worker[w].version \in 1 .. MaxAttempts
      /\ Document(w) \in Documents /\ generationObject[g] = Document(w)
      /\ g <= GenerationOf(currentObject)
  BY <1>1 DEF PipelineIndInv, WorkersInOrder, WorkerInOrder, Generations
<1>3. /\ TypeInv /\ BucketInOrder /\ GenerationOf(currentObject) \in Nat
      /\ desired.generation \in Nat /\ served.generation \in Nat
  BY IndInvTypes, GenerationOfIsNat DEF BucketInOrder, TypeInv, TypeOK, Pointers
<1>4. /\ desired.generation = g /\ outbox[g].state = "LEASED" /\ desired' = desired
      /\ served' = [generation |-> g, release |-> outbox[g].release]
      /\ outbox' = [outbox EXCEPT ![g] =
                      [Released(@, "ACKNOWLEDGED") EXCEPT !.projection = Document(w)]]
  BY <1>1 DEF Acknowledge, HoldsDesiredLease, Fenced, IsDesired
<1>5. GenerationOf(currentObject) = g
  BY <1>2, <1>3, <1>4 DEF BucketInOrder, ServedBehindPointer
<1>6. currentObject = Document(w)
  BY <1>2, <1>5 DEF GenerationOf, PipelineIndInv, PointerMatchesGeneration
<1>7. served.generation < g
  BY <1>2, <1>3, <1>4, <1>5
     DEF PipelineIndInv, OutboxInv, ServedIsNewestAcknowledged, BucketInOrder,
         ServedBehindPointer
<1>8. outbox'[g].projection = Document(w)
  BY <1>2, <1>3, <1>4, ReleasedKeepsKey DEF TypeInv, TypeOK
<1>9. [Next]_outboxVars
  <2>1. PICK kid \in Kids : Document(w) = [generation |-> g, kid |-> kid]
    BY <1>2 DEF Documents, Document
  <2>2. Acknowledge(g, OwnerOf[w], worker[w].version, [generation |-> g, kid |-> kid])
    BY <1>1, <2>1
  <2>3. Worker
    BY <1>2, <2>2, NameOfWorker DEF Worker
  <2> QED
    BY <2>3 DEF Next
<1> QED
  BY <1>1, <1>2, <1>4, <1>5, <1>6, <1>7, <1>8, <1>9

LEMMA AcknowledgeProjectionStep ==
  ASSUME PipelineIndInv, NEW w \in Workers, AcknowledgeProjection(w)
  PROVE  PipelineIndInv'
<1>1. /\ [Next]_outboxVars /\ UNCHANGED storeVars
      /\ served'.generation = GenerationOf(currentObject)
  BY AcknowledgedIsShown
<1>2. OutboxInv'
  BY <1>1, StepOutboxInv DEF PipelineIndInv
<1>3. TypeInv /\ TypeInv' /\ BucketInOrder /\ GenerationOf(currentObject) \in Nat
  BY <1>2, IndInvTypes, GenerationOfIsNat DEF OutboxInv, BucketInOrder
<1>4. served'.generation <= GenerationOf(currentObject)
  BY <1>1, <1>3
<1>5. BucketInOrder' /\ Typed /\ Grows
  BY <1>1, <1>3, <1>4, OutboxKeepsBucket
<1>6. inflight' \subseteq PutRequests /\ inflight' \ inflight = {}
  BY <1>1, IndInvTypes DEF storeVars
<1>7. CASE worker' = [worker EXCEPT ![w] = Idle]
  <2>1. \A v \in Workers : worker'[v] # worker[v] => WorkerInOrder(v)'
    BY <1>7, GoIdle
  <2> QED
    BY <1>2, <1>5, <1>6, <1>7, <2>1, GoIdle, StepInOrder
<1>8. CASE Goto(w, "failed")
  <2>1. WorkerInOrder(w)'
    BY <1>5, <1>8, FailedInOrder DEF AcknowledgeProjection
  <2>2. /\ worker' \in [Workers -> WorkerStates]
        /\ \A v \in Workers \ {w} : worker'[v] = worker[v]
    BY <1>8, GotoLeads DEF Steps
  <2>3. \A v \in Workers : worker'[v] # worker[v] => WorkerInOrder(v)'
    BY <2>1, <2>2
  <2> QED
    BY <1>2, <1>5, <1>6, <2>2, <2>3, StepInOrder
<1> QED
  BY <1>7, <1>8 DEF AcknowledgeProjection

-----------------------------------------------------------------------------
(***************************************************************************)
(* The theorems.                                                           *)
(***************************************************************************)
LEMMA InitPipelineIndInv == PipelineInit => PipelineIndInv
<1> SUFFICES ASSUME PipelineInit PROVE PipelineIndInv
  OBVIOUS
<1>1. OutboxInv
  BY InitOutboxInv DEF PipelineInit
<1>2. /\ currentObject = NoDocument /\ inflight = {}
      /\ generationObject = [g \in Generations |-> NoDocument]
      /\ worker = [w \in Workers |-> Idle]
      /\ desired.generation = 0 /\ served.generation = 0
  BY DEF PipelineInit, Init
<1>3. PipelineTypeOK
  BY <1>1, <1>2, IdleIsState DEF PipelineTypeOK, OutboxInv, TypeInv
<1>4. GenerationObjectsBound /\ PutsInOrder
  BY <1>2 DEF GenerationObjectsBound, PutsInOrder
<1>5. WorkersInOrder
  BY <1>2, IdleIsState DEF WorkersInOrder, WorkerInOrder
<1>6. ServedBehindPointer /\ PointerMatchesGeneration
  BY <1>2 DEF ServedBehindPointer, PointerMatchesGeneration, GenerationOf
<1> QED
  BY <1>1, <1>3, <1>4, <1>5, <1>6 DEF PipelineIndInv

\* Every step keeps the invariant, and none is anything but a step of the outbox
\* to the outbox.
LEMMA StepPipelineIndInv ==
  ASSUME PipelineIndInv, [PipelineNext]_pipelineVars
  PROVE  PipelineIndInv' /\ [Next]_outboxVars
<1>1. CASE Control /\ UNCHANGED <<storeVars, worker>>
  BY <1>1, ControlStep
<1>2. ASSUME NEW w \in Workers,
             ClaimDue(w) \/ WorkerStep(w) \/ Throw(w) \/ HandBack(w) \/ Crash(w)
      PROVE  PipelineIndInv' /\ [Next]_outboxVars
  <2>1. CASE ClaimDue(w)
    BY <2>1, ClaimDueStep
  <2>2. CASE BindRoutingKey(w)
    BY <2>2, BindRoutingKeyStep
  <2>3. CASE Checkpoint(w)
    BY <2>3, CheckpointStep
  <2>4. CASE PutGeneration(w)
    BY <2>4, PutGenerationStep
  <2>5. CASE GenerationPutAnswered(w)
    BY <2>5, GenerationPutAnsweredStep
  <2>6. CASE GetGeneration(w)
    BY <2>6, GetGenerationStep
  <2>7. CASE GetCurrent(w)
    BY <2>7, GetCurrentStep
  <2>8. CASE PutCurrent(w)
    BY <2>8, PutCurrentStep
  <2>9. CASE CurrentPutAnswered(w)
    BY <2>9, CurrentPutAnsweredStep
  <2>10. CASE ReadBack(w)
    BY <2>10, ReadBackStep
  <2>11. CASE AcknowledgeProjection(w)
    BY <2>11, AcknowledgeProjectionStep, AcknowledgedIsShown
  <2>12. CASE Throw(w)
    BY <2>12, ThrowStep
  <2>13. CASE HandBack(w)
    BY <2>13, HandBackStep
  <2>14. CASE Crash(w)
    BY <2>14, CrashStep
  <2> QED
    BY <1>2, <2>1, <2>2, <2>3, <2>4, <2>5, <2>6, <2>7, <2>8, <2>9, <2>10, <2>11,
       <2>12, <2>13, <2>14 DEF WorkerStep
<1>3. CASE Bucket
  BY <1>3, BucketAloneStep DEF Bucket
<1>4. CASE PublicationClock
  BY <1>4, PublicationClockStep
<1>5. CASE UNCHANGED pipelineVars
  <2>1. UNCHANGED outboxVars /\ UNCHANGED storeVars /\ worker' = worker
    BY <1>5 DEF pipelineVars
  <2>2. OutboxInv' /\ BucketInOrder' /\ Typed /\ Grows
    BY <2>1, OutboxRests
  <2>3. /\ inflight' \subseteq PutRequests /\ inflight' \ inflight = {}
        /\ worker' \in [Workers -> WorkerStates]
    BY <2>1, IndInvTypes DEF storeVars
  <2> QED
    BY <2>1, <2>2, <2>3, StepInOrder
<1> QED
  BY <1>1, <1>2, <1>3, <1>4, <1>5 DEF PipelineNext

\* The inductive invariant holds in every reachable state.
THEOREM PipelineIndInvHolds == PipelineSpec => []PipelineIndInv
<1>1. PipelineIndInv /\ [PipelineNext]_pipelineVars => PipelineIndInv'
  BY StepPipelineIndInv
<1> QED
  BY <1>1, InitPipelineIndInv, PTL DEF PipelineSpec

\* The pointer always shows the immutable object of its generation, signed with the
\* key its row is bound to, at or ahead of what the database serves and never
\* ahead of what was requested: for every number of workers, of PUTs that are late,
\* resent or orphaned, and of crashes between any two steps of apply.
THEOREM PipelineIsConsistent == PipelineSpec => []PipelineInv
<1>1. PipelineIndInv => PipelineInv
  BY DEF PipelineIndInv, PipelineInv
<1> QED
  BY <1>1, PipelineIndInvHolds, PTL

\* The pipeline is one of the users the outbox was specified for: whatever is proved
\* of PublicationOutbox holds of it.
THEOREM PipelineUsesOutbox == PipelineSpec => Spec
<1>1. PipelineInit => Init
  BY DEF PipelineInit
<1>2. PipelineIndInv /\ [PipelineNext]_pipelineVars => [Next]_outboxVars
  BY StepPipelineIndInv
<1> QED
  BY <1>1, <1>2, PipelineIndInvHolds, PTL DEF PipelineSpec, Spec

\* The ways a step can touch the pointers.
LEMMA StepMovesPointers ==
  ASSUME PipelineIndInv, [PipelineNext]_pipelineVars
  PROVE  \/ currentObject' = currentObject /\ served' = served /\ desired' = desired
         \/ /\ desired'.generation = desired.generation + 1
            /\ currentObject' = currentObject /\ served' = served
         \/ /\ GenerationOf(currentObject) < GenerationOf(currentObject')
            /\ served' = served /\ desired' = desired
         \/ \E w \in Workers : AcknowledgeProjection(w)
<1>1. CASE Control /\ UNCHANGED <<storeVars, worker>>
  BY <1>1 DEF Control, Request, storeVars
<1>2. ASSUME NEW w \in Workers, ClaimDue(w) \/ BindRoutingKey(w) \/ HandBack(w)
      PROVE  currentObject' = currentObject /\ served' = served /\ desired' = desired
  BY <1>2 DEF ClaimDue, BindRoutingKey, HandBack, Claim, BindKey, Retry, Fail, storeVars
<1>3. ASSUME NEW w \in Workers,
             \/ Checkpoint(w) \/ PutGeneration(w) \/ GetGeneration(w) \/ GetCurrent(w)
             \/ PutCurrent(w) \/ ReadBack(w) \/ Throw(w) \/ Crash(w)
      PROVE  currentObject' = currentObject /\ served' = served /\ desired' = desired
  BY <1>3 DEF Checkpoint, PutGeneration, GetGeneration, GetCurrent, PutCurrent, ReadBack,
              Throw, Crash, SendPut, storeVars, outboxVars
<1>4. ASSUME NEW w \in Workers, GenerationPutAnswered(w) \/ CurrentPutAnswered(w)
      PROVE  /\ served' = served /\ desired' = desired
             /\ currentObject' # currentObject =>
                  GenerationOf(currentObject) < GenerationOf(currentObject')
  BY <1>4, GenerationPutAnsweredStep, CurrentPutAnsweredStep DEF outboxVars
<1>5. CASE Bucket
  BY <1>5, BucketAloneStep DEF Bucket, outboxVars
<1>6. CASE PublicationClock
  BY <1>6 DEF PublicationClock, LeaseExpires, RetryFallsDue, storeVars
<1>7. CASE UNCHANGED pipelineVars
  BY <1>7 DEF pipelineVars, outboxVars, storeVars
<1> QED
  BY <1>1, <1>2, <1>3, <1>4, <1>5, <1>6, <1>7 DEF PipelineNext, WorkerStep

\* The pointer moves forward only, and what is acknowledged is what it shows at that
\* moment, although the read-back and the transaction are separate calls and any
\* number of PUTs of other workers are under way between them.
THEOREM PointerAlwaysLeads == PipelineSpec => PointerLeads
<1>1. PipelineIndInv /\ [PipelineNext]_pipelineVars =>
        [currentObject' # currentObject =>
           GenerationOf(currentObject') > GenerationOf(currentObject)]_pipelineVars
  <2> SUFFICES ASSUME PipelineIndInv, [PipelineNext]_pipelineVars,
                      currentObject' # currentObject
               PROVE  GenerationOf(currentObject') > GenerationOf(currentObject)
    OBVIOUS
  <2>1. ASSUME NEW w \in Workers, AcknowledgeProjection(w) PROVE FALSE
    BY <2>1 DEF AcknowledgeProjection, storeVars
  <2>2. GenerationOf(currentObject) < GenerationOf(currentObject')
    BY <2>1, StepMovesPointers
  <2>3. GenerationOf(currentObject) \in Nat /\ GenerationOf(currentObject') \in Nat
    BY StepPipelineIndInv, IndInvTypes, GenerationOfIsNat
       DEF PipelineIndInv, PipelineTypeOK
  <2> QED
    BY <2>2, <2>3
<1>2. PipelineIndInv /\ [PipelineNext]_pipelineVars =>
        [served' # served =>
           /\ currentObject = outbox'[served'.generation].projection
           /\ GenerationOf(currentObject) = served'.generation]_pipelineVars
  <2> SUFFICES ASSUME PipelineIndInv, [PipelineNext]_pipelineVars, served' # served
               PROVE  /\ currentObject = outbox'[served'.generation].projection
                      /\ GenerationOf(currentObject) = served'.generation
    OBVIOUS
  <2>1. PICK w \in Workers : AcknowledgeProjection(w)
    BY StepMovesPointers
  <2> QED
    BY <2>1, AcknowledgedIsShown
<1>3. PipelineSpec => PointerOnlyAdvances
  BY <1>1, PipelineIndInvHolds, PTL DEF PipelineSpec, PointerOnlyAdvances
<1>4. PipelineSpec => AcknowledgedWhileCurrent
  BY <1>2, PipelineIndInvHolds, PTL DEF PipelineSpec, AcknowledgedWhileCurrent
<1> QED
  BY <1>3, <1>4 DEF PointerLeads

\* The workers, the bucket and the database implement the publication register: every
\* step of theirs is a request, a move of the pointer towards what is desired, an
\* acknowledgement of what it shows, or nothing to the register.
THEOREM PipelineImplementsRegister == PipelineSpec => ImplementsRegister
<1>1. PipelineInit => Register!Init
  BY DEF PipelineInit, Init, Register!Init, GenerationOf
<1>2. PipelineIndInv /\ [PipelineNext]_pipelineVars =>
        [Register!Next]_(Register!registerVars)
  <2> SUFFICES ASSUME PipelineIndInv, [PipelineNext]_pipelineVars
               PROVE  [Register!Next]_(Register!registerVars)
    OBVIOUS
  <2>1. CASE currentObject' = currentObject /\ served' = served /\ desired' = desired
    BY <2>1 DEF Register!registerVars, GenerationOf
  <2>2. CASE /\ desired'.generation = desired.generation + 1
             /\ currentObject' = currentObject /\ served' = served
    BY <2>2 DEF Register!Next, Register!Request, GenerationOf
  <2>3. CASE /\ GenerationOf(currentObject) < GenerationOf(currentObject')
             /\ served' = served /\ desired' = desired
    <3>1. /\ GenerationOf(currentObject) \in Nat /\ GenerationOf(currentObject') \in Nat
          /\ desired.generation \in Nat /\ GenerationOf(currentObject') <= desired.generation
      BY <2>3, StepPipelineIndInv, IndInvTypes, GenerationOfIsNat
         DEF PipelineIndInv, PipelineTypeOK, TypeInv, TypeOK, Pointers, ServedBehindPointer
    <3>2. GenerationOf(currentObject') \in GenerationOf(currentObject) + 1 .. desired.generation
      BY <2>3, <3>1
    <3>3. Register!Project
      BY <2>3, <3>2 DEF Register!Project, GenerationOf
    <3> QED
      BY <3>3 DEF Register!Next
  <2>4. ASSUME NEW w \in Workers, AcknowledgeProjection(w)
        PROVE  Register!Next
    <3> DEFINE g == worker[w].generation
    <3>1. /\ desired.generation = g /\ GenerationOf(currentObject) = g
          /\ served.generation < g /\ served'.generation = g
          /\ desired' = desired /\ UNCHANGED storeVars
      BY <2>4, AcknowledgedIsShown
    <3>2. GenerationOf(currentObject)' = GenerationOf(currentObject)
      BY <3>1 DEF storeVars, GenerationOf
    <3>3. Register!Acknowledge
      BY <3>1, <3>2 DEF Register!Acknowledge
    <3> QED
      BY <3>3 DEF Register!Next
  <2> QED
    BY <2>1, <2>2, <2>3, <2>4, StepMovesPointers
<1> QED
  BY <1>1, <1>2, PipelineIndInvHolds, PTL DEF PipelineSpec, ImplementsRegister, Register!Spec

\* The row that the fenced call of a worker changes is the one it holds.
LEMMA LeaseOfCaller ==
  ASSUME NEW v \in Workers, NEW g \in Generations,
         Fenced(worker[v].generation, OwnerOf[v], worker[v].version),
         \A k \in Generations \ {worker[v].generation} : outbox'[k] = outbox[k],
         outbox'[g] # outbox[g]
  PROVE  /\ OwnerOf[v] = outbox[g].owner
         /\ worker[v].generation = g /\ worker[v].version = outbox[g].version
BY DEF Fenced

\* While a lease is live, its row changes only by a step of the worker it was given to
\* or by running out: no stale worker, no claim of another, no sweep and no newer
\* request touches it, at any number of workers and leases and however workers share
\* their names (JOB-01).
THEOREM LeaseIsExclusive == PipelineSpec => LiveLeaseIsExclusive
<1>1. PipelineIndInv /\ [PipelineNext]_pipelineVars =>
        [\A g \in Generations :
           outbox[g].state = "LEASED" /\ outbox[g].live /\ outbox'[g] # outbox[g] =>
             \/ outbox'[g] = [outbox[g] EXCEPT !.live = FALSE]
             \/ \E w \in Workers :
                  /\ OwnerOf[w] = outbox[g].owner
                  /\ worker[w].generation = g /\ worker[w].version = outbox[g].version
                  /\ worker'[w] # worker[w]]_pipelineVars
  <2> DEFINE Held(g, w) == /\ OwnerOf[w] = outbox[g].owner
                           /\ worker[w].generation = g
                           /\ worker[w].version = outbox[g].version
                           /\ worker'[w] # worker[w]
  <2> SUFFICES ASSUME PipelineIndInv, [PipelineNext]_pipelineVars,
                      NEW g \in Generations,
                      outbox[g].state = "LEASED", outbox[g].live, outbox'[g] # outbox[g]
               PROVE  \/ outbox'[g] = [outbox[g] EXCEPT !.live = FALSE]
                      \/ \E w \in Workers : Held(g, w)
    OBVIOUS
  <2>0. /\ outbox \in [Generations -> Rows] /\ worker \in [Workers -> WorkerStates]
        /\ desired.generation \in Nat /\ TypeInv
    BY IndInvTypes DEF TypeInv, TypeOK, Pointers
  <2>1. ASSUME Control PROVE FALSE
    <3>1. desired.generation + 1 # g
      BY <2>0 DEF PipelineIndInv, OutboxInv, RowsUpToDesired, Generations
    <3> QED
      BY <2>0, <2>1, <3>1 DEF Control, Request
  <2>2. ASSUME NEW v \in Workers, ClaimDue(v) PROVE FALSE
    BY <2>0, <2>2, NameOfWorker, ClaimKeepsKeys DEF ClaimDue
  <2>3. ASSUME NEW v \in Workers, BindRoutingKey(v)
        PROVE  Held(g, v)
    <3>1. PICK kid \in Kids :
            /\ BindKey(worker[v].generation, OwnerOf[v], worker[v].version, kid)
            /\ worker' = [worker EXCEPT ![v].kid = kid, ![v].step = "putGeneration"]
      BY <2>3 DEF BindRoutingKey
    <3>2. /\ Fenced(worker[v].generation, OwnerOf[v], worker[v].version)
          /\ \A k \in Generations \ {worker[v].generation} : outbox'[k] = outbox[k]
      BY <2>0, <3>1 DEF BindKey
    <3>3. /\ OwnerOf[v] = outbox[g].owner
          /\ worker[v].generation = g /\ worker[v].version = outbox[g].version
      BY <3>2, LeaseOfCaller
    <3>4. worker'[v].step = "putGeneration" /\ worker[v].step = "bindKey"
      BY <2>0, <2>3, <3>1 DEF BindRoutingKey, WorkerStates
    <3> QED
      BY <3>3, <3>4
  <2>4. ASSUME NEW v \in Workers, HandBack(v)
        PROVE  Held(g, v)
    <3>1. /\ Fenced(worker[v].generation, OwnerOf[v], worker[v].version)
          /\ \A k \in Generations \ {worker[v].generation} : outbox'[k] = outbox[k]
      BY <2>0, <2>4 DEF HandBack, Retry, Fail
    <3>2. /\ OwnerOf[v] = outbox[g].owner
          /\ worker[v].generation = g /\ worker[v].version = outbox[g].version
      BY <3>1, LeaseOfCaller
    <3>3. worker'[v].step = "idle" /\ worker[v].step = "failed"
      BY <2>0, <2>4, IdleIsState DEF HandBack
    <3> QED
      BY <3>2, <3>3
  <2>5. ASSUME NEW v \in Workers, AcknowledgeProjection(v)
        PROVE  Held(g, v)
    <3>1. /\ Fenced(worker[v].generation, OwnerOf[v], worker[v].version)
          /\ \A k \in Generations \ {worker[v].generation} : outbox'[k] = outbox[k]
      BY <2>0, <2>5 DEF AcknowledgeProjection, Acknowledge, HoldsDesiredLease
    <3>2. /\ OwnerOf[v] = outbox[g].owner
          /\ worker[v].generation = g /\ worker[v].version = outbox[g].version
      BY <3>1, LeaseOfCaller
    <3>3. worker'[v].step \in {"idle", "failed"} /\ worker[v].step = "acknowledge"
      BY <2>0, <2>5, IdleIsState, GotoLeads DEF AcknowledgeProjection, Steps
    <3> QED
      BY <3>2, <3>3
  <2>6. ASSUME NEW v \in Workers,
               \/ Checkpoint(v) \/ PutGeneration(v) \/ GenerationPutAnswered(v)
               \/ GetGeneration(v) \/ GetCurrent(v) \/ PutCurrent(v)
               \/ CurrentPutAnswered(v) \/ ReadBack(v) \/ Throw(v) \/ Crash(v)
        PROVE  FALSE
    BY <2>6 DEF Checkpoint, PutGeneration, GenerationPutAnswered, GetGeneration, GetCurrent,
                PutCurrent, CurrentPutAnswered, ReadBack, Throw, Crash, SendPut, outboxVars
  <2>7. ASSUME Bucket \/ UNCHANGED pipelineVars PROVE FALSE
    BY <2>7 DEF Bucket, ServeUnanswered, DropPut, pipelineVars, outboxVars
  <2>8. ASSUME PublicationClock PROVE outbox'[g] = [outbox[g] EXCEPT !.live = FALSE]
    <3>1. PICK h \in Generations : LeaseExpires(h) \/ RetryFallsDue(h)
      BY <2>8 DEF PublicationClock
    <3>2. h = g
      BY <2>0, <3>1 DEF LeaseExpires, RetryFallsDue
    <3>3. outbox' = [outbox EXCEPT ![g].live = FALSE]
      BY <3>1, <3>2 DEF LeaseExpires, RetryFallsDue
    <3> QED
      BY <2>0, <3>3
  <2> QED
    BY <2>1, <2>2, <2>3, <2>4, <2>5, <2>6, <2>7, <2>8 DEF PipelineNext, WorkerStep
<1> QED
  BY <1>1, PipelineIndInvHolds, PTL DEF PipelineSpec, LiveLeaseIsExclusive

=============================================================================
