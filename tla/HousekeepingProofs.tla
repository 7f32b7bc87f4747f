------------------------- MODULE HousekeepingProofs -------------------------
(***************************************************************************)
(* Theorems of RoutingKeys and of Reconciler, for every keyring rollout,   *)
(* every number of processes, keys, requests, instants and hosts, and for  *)
(* buckets with and without versions; and after them those of Migrations,  *)
(* for every number of transactions that write.                            *)
(*                                                                         *)
(* What the first two rest on: a row is bound to its key once, so that     *)
(* there is one document of a generation, wherever it is found.  For the   *)
(* keys, a key is accepted by all who verify, or gone: no worker can sign  *)
(* with it, and no row that counts is bound to it.  For the reconciler, a  *)
(* version of the pointer that has not changed between two moments says    *)
(* that nothing was written in between.                                    *)
(*                                                                         *)
(* A down can rely on what its guard has seen because its locks are on the *)
(* tables of all rows that it asks about: from the lock on nobody has such *)
(* a row in hand, so none can appear behind the guard.                     *)
(***************************************************************************)
EXTENDS Reconciler, Migrations, WellFoundedInduction, TLAPS

-----------------------------------------------------------------------------
(***************************************************************************)
(* Sequences, and the choice of a key.                                     *)
(***************************************************************************)
LEMMA SeqTyped ==
  ASSUME NEW S, NEW s \in Seq(S)
  PROVE  /\ Len(s) \in Nat /\ DOMAIN s = 1 .. Len(s) /\ \A n \in DOMAIN s : s[n] \in S
         /\ s # <<>> => Len(s) \in DOMAIN s /\ Last(s) = s[Len(s)]
BY DEF Last

LEMMA SeqAppended ==
  ASSUME NEW S, NEW s \in Seq(S), NEW e \in S
  PROVE  /\ Append(s, e) \in Seq(S) /\ Len(Append(s, e)) = Len(s) + 1
         /\ Append(s, e)[Len(s) + 1] = e /\ \A n \in DOMAIN s : Append(s, e)[n] = s[n]
         /\ Append(s, e) # <<>> /\ Last(Append(s, e)) = e
         /\ \A n \in DOMAIN Append(s, e) : n \in DOMAIN s \/ n = Len(s) + 1
BY DEF Last

LEMMA SeqMapped ==
  ASSUME NEW S, NEW s \in Seq(S), NEW t, t = [n \in DOMAIN s |-> t[n]],
         \A n \in DOMAIN s : t[n] \in S
  PROVE  t \in Seq(S) /\ Len(t) = Len(s)
OBVIOUS

LEMMA SmallestOf ==
  ASSUME NEW T \in SUBSET Nat, T # {}
  PROVE  \E x \in T : \A y \in T : x <= y
<1>1. \E x \in T : \A y \in T : ~(<<y, x>> \in OpToRel(<, Nat))
  BY WFMin, NatLessThanWellFounded
<1>2. \A x, y \in T : <<y, x>> \in OpToRel(<, Nat) <=> y < x
  BY DEF OpToRel
<1>3. \E x \in T : \A y \in T : ~(y < x)
  BY <1>1, <1>2, Zenon
<1> QED
  BY <1>3

\* What every variable may hold.
Applications ==
  [ step : {"idle", "write", "read", "put", "acknowledge"}, generation : 0 .. MaxGeneration,
    prior : Documents \cup {Nothing} ]

KeysTyped ==
  /\ clock \in Instants
  /\ rows \in Seq(Rows) /\ Len(rows) <= MaxGeneration /\ acknowledged \in 0 .. Len(rows)
  /\ objects \in [Generations -> Documents \cup {Nothing}]
  /\ pointers \in Seq(Documents)
  /\ stage \in [Processes -> DOMAIN Rollout]
  /\ applying \in [Workers -> Applications]

\* A process has a keyring.
LEMMA RingTyped ==
  ASSUME KeysTyped, NEW p \in Processes
  PROVE  Ring(p) \in Keyrings
BY SeqTyped, RolloutStarts DEF KeysTyped, Ring

\* The order in which keys are tried is total, so that one comes first.
LEMMA KidIsChosen ==
  ASSUME KeysTyped, NEW p \in Processes, NEW i \in Instants, UsableKeys(p, i) # {}
  PROVE  KidForIssueTime(p, i) \in UsableKeys(p, i)
<1> DEFINE U == UsableKeys(p, i)
           A == {k \in U : Ring(p)[k] = "ACTIVE"}
           S == IF A # {} THEN A ELSE U
           Ages == {i - NotBefore[k] : k \in S}
<1>1. /\ U \subseteq Kids /\ \A k \in U : Ring(p)[k] \in {"ACTIVE", "OVERLAP"}
      /\ \A k \in U : NotBefore[k] \in Int /\ NotBefore[k] <= i /\ i \in Nat
  BY RolloutStarts, KeysBoundsAssumption DEF UsableKeys, Accepted, ValidAt, Instants
<1>2. S \subseteq U /\ S # {}
  OBVIOUS
<1>3. \A k, l \in S : Ring(p)[k] = Ring(p)[l]
  BY <1>1
<1>4. \A k \in S, l \in U : l \notin S => Ring(p)[k] = "ACTIVE" /\ Ring(p)[l] # "ACTIVE"
  OBVIOUS
<1> HIDE DEF U, S
<1>5. PICK age \in Ages : \A other \in Ages : age <= other
  <2>1. Ages \subseteq Nat
    BY <1>1, <1>2
  <2>2. Ages # {}
    BY <1>2
  <2> QED
    BY <2>1, <2>2, SmallestOf
<1> DEFINE M == {k \in S : i - NotBefore[k] = age}
<1>6. PICK k \in M : \A l \in M : k <= l
  <2>1. M \subseteq Nat
    BY <1>1, <1>2, KidsAreOrdered
  <2>2. M # {}
    OBVIOUS
  <2> QED
    BY <2>1, <2>2, SmallestOf
<1>7. ASSUME NEW l \in U \ {k}
      PROVE  SortsBefore(Ring(p), k, l)
  <2>1. CASE l \notin S
    BY <1>4, <1>6, <2>1 DEF SortsBefore
  <2>2. CASE l \in S
    <3>1. age <= i - NotBefore[l] /\ i - NotBefore[k] = age
      BY <1>5, <1>6, <2>2
    <3>2. NotBefore[k] \in Int /\ NotBefore[l] \in Int /\ i \in Int /\ k \in Nat /\ l \in Nat
      BY <1>1, <1>2, <1>6, KidsAreOrdered
    <3>3. NotBefore[k] >= NotBefore[l]
      BY <3>1, <3>2
    <3>4. CASE NotBefore[k] = NotBefore[l]
      <4>1. l \in M
        BY <2>2, <3>1, <3>4
      <4>2. k < l
        BY <1>6, <3>2, <4>1
      <4> QED
        BY <1>3, <1>6, <2>2, <3>4, <4>2 DEF SortsBefore
    <3>5. CASE NotBefore[k] # NotBefore[l]
      BY <1>3, <1>6, <2>2, <3>2, <3>3, <3>5 DEF SortsBefore
    <3> QED
      BY <3>4, <3>5
  <2> QED
    BY <2>1, <2>2
<1>8. k \in U
  BY <1>2, <1>6
<1> QED
  BY <1>7, <1>8 DEF KidForIssueTime, U

\* The key that apply binds.
LEMMA KidForRow ==
  ASSUME KeysTyped, NEW w \in Workers, NEW g \in DOMAIN rows
  PROVE  /\ KidFor(w, g) \in Kids \cup {NoKid}
         /\ rows[g].kid # NoKid => KidFor(w, g) = rows[g].kid
         /\ rows[g].kid = NoKid /\ KidFor(w, g) # NoKid =>
              KidFor(w, g) \in UsableKeys(w, rows[g].createdAt)
<1>1. rows[g] \in Rows
  BY SeqTyped DEF KeysTyped
<1>2. rows[g].kid \in Kids \cup {NoKid} /\ rows[g].createdAt \in Instants /\ w \in Processes
  BY <1>1 DEF Rows, Processes
<1>3. UsableKeys(w, rows[g].createdAt) \subseteq Kids
  BY DEF UsableKeys
<1> QED
  BY <1>2, <1>3, KidIsChosen DEF KidFor

-----------------------------------------------------------------------------
(***************************************************************************)
(* The invariant of the rows, of the bucket and of the calls of apply.     *)
(***************************************************************************)
Bound(g) == g \in DOMAIN rows /\ rows[g].kid # NoKid

BoundKidsWereValid ==
  \A g \in DOMAIN rows : Bound(g) => ValidAt(rows[g].kid, rows[g].createdAt)

ObjectsAreSigned ==
  \A g \in Generations : objects[g] # Nothing => Bound(g) /\ objects[g] = DocumentFor(g)

PointersAreObjects == \A n \in DOMAIN pointers : pointers[n] = objects[pointers[n].generation]

VersionInOrder(g) ==
  IF rows[g].state = "ACKNOWLEDGED"
  THEN /\ Bound(g) /\ rows[g].projection = DocumentFor(g)
       /\ IF Versioned THEN rows[g].version \in DOMAIN pointers ELSE rows[g].version = 0
  ELSE rows[g].version = 0

RowsInOrder ==
  /\ acknowledged # 0 => rows[acknowledged].state = "ACKNOWLEDGED" /\ pointers # <<>>
  /\ \A g \in DOMAIN rows :
       /\ VersionInOrder(g)
       /\ rows[g].state = "ACKNOWLEDGED" => g <= acknowledged
       /\ rows[g].state \in {"LEASED", "ACKNOWLEDGED"} => \A h \in 1 .. g - 1 : ~InProgress(h)

ApplyInOrder(w) ==
  LET g == applying[w].generation
      prior == applying[w].prior
  IN /\ applying[w].step # "idle" => g \in DOMAIN rows
     /\ applying[w].step \in {"read", "put", "acknowledge"} =>
          Bound(g) /\ objects[g] = DocumentFor(g) /\ Ring(w)[rows[g].kid] \in Accepted
     /\ applying[w].step = "put" /\ prior # Nothing =>
          prior.host = rows[g].host /\ prior.generation <= g /\ prior # DocumentFor(g)

CoreInv ==
  /\ KeysTyped /\ BoundKidsWereValid /\ ObjectsAreSigned /\ PointersAreObjects
  /\ RowsInOrder /\ (\A w \in Workers : ApplyInOrder(w)) /\ PointerKeepsItsHost

\* A row, and the document of one, if it is bound.
LEMMA RowTyped ==
  ASSUME KeysTyped, NEW g \in DOMAIN rows
  PROVE  /\ rows[g] \in Rows /\ g \in Generations /\ g \in Nat /\ g # 0 /\ g <= Len(rows)
         /\ Bound(g) => DocumentFor(g) \in Documents
<1>1. rows[g] \in Rows /\ g \in 1 .. Len(rows) /\ Len(rows) \in Nat
  BY SeqTyped DEF KeysTyped
<1>2. g \in Generations /\ g \in Nat /\ g # 0 /\ g <= Len(rows)
  BY <1>1, KeysBoundsAssumption DEF KeysTyped, Generations
<1> QED
  BY <1>1, <1>2 DEF Rows, Documents, DocumentFor, Bound

\* What content is to show is the last version of the pointer, if there is any.
LEMMA ShownTyped ==
  ASSUME KeysTyped
  PROVE  /\ pointers = <<>> <=> Shown = Nothing
         /\ Shown # Nothing =>
              /\ Shown \in Documents /\ Len(pointers) \in DOMAIN pointers
              /\ Shown = pointers[Len(pointers)]
         /\ ShownVersion \in Nat /\ Len(pointers) \in Nat
         /\ DOMAIN pointers = 1 .. Len(pointers)
         /\ \A n \in DOMAIN pointers : pointers[n] \in Documents
BY SeqTyped, NothingIsNoDocument DEF KeysTyped, Shown, ShownVersion

\* Somebody puts an earlier version of the pointer back; RoutingKeys itself has no
\* such step.
PutsBack ==
  /\ \E n \in DOMAIN pointers : pointers' = Append(pointers, pointers[n])
  /\ UNCHANGED <<clock, rows, acknowledged, objects, stage, applying>>

coreVars == <<clock, rows, acknowledged, objects, pointers, stage, applying>>

PublishNext ==
  \/ ClockTicks \/ RequestPublication \/ RowLeaseEnds
  \/ \E w \in Workers : Apply(w)
  \/ \E p \in Processes : StartWithNext(p)
  \/ UNCHANGED coreVars

CoreNext == PublishNext \/ PutsBack

-----------------------------------------------------------------------------
(***************************************************************************)
(* How rows, objects and versions of the pointer may change.               *)
(***************************************************************************)
RowsGrow ==
  /\ Len(rows) <= Len(rows')
  /\ \A g \in DOMAIN rows :
       /\ rows'[g].createdAt = rows[g].createdAt /\ rows'[g].release = rows[g].release
       /\ rows'[g].host = rows[g].host
       /\ Bound(g) => rows'[g].kid = rows[g].kid
  /\ \A g \in DOMAIN rows' :
       rows'[g].kid # NoKid => Bound(g) \/ ValidAt(rows'[g].kid, rows'[g].createdAt)

ObjectsGrow ==
  \A g \in Generations : objects'[g] # objects[g] =>
    objects[g] = Nothing /\ Bound(g) /\ objects'[g] = DocumentFor(g)

PointersGrow ==
  \/ pointers' = pointers
  \/ \E d \in Documents :
       /\ pointers' = Append(pointers, d) /\ d = objects[d.generation]
       /\ \A n \in DOMAIN pointers : pointers[n].host = d.host

CoreGrows == RowsGrow /\ ObjectsGrow /\ PointersGrow

\* A bound row has one document, for good.
LEMMA DocumentStays ==
  ASSUME KeysTyped, KeysTyped', RowsGrow, NEW g, Bound(g)
  PROVE  /\ g \in DOMAIN rows' /\ Bound(g)' /\ DocumentFor(g)' = DocumentFor(g)
         /\ rows'[g].kid = rows[g].kid /\ rows'[g].host = rows[g].host
<1>1. g \in DOMAIN rows /\ DOMAIN rows = 1 .. Len(rows) /\ Len(rows) \in Nat
  BY SeqTyped DEF KeysTyped, Bound
<1>2. DOMAIN rows' = 1 .. Len(rows') /\ Len(rows') \in Nat
  BY SeqTyped DEF KeysTyped
<1>3. g \in DOMAIN rows'
  BY <1>1, <1>2 DEF RowsGrow
<1> QED
  BY <1>1, <1>3 DEF RowsGrow, Bound, DocumentFor

\* The documents of rows, objects and pointer stay what they are.
LEMMA DocumentsStay ==
  ASSUME CoreInv, KeysTyped', CoreGrows
  PROVE  /\ BoundKidsWereValid' /\ ObjectsAreSigned' /\ PointersAreObjects'
         /\ PointerKeepsItsHost'
<1> USE DEF CoreInv, CoreGrows
<1>1. BoundKidsWereValid'
  BY SeqTyped DEF BoundKidsWereValid, RowsGrow, Bound
<1>2. ObjectsAreSigned'
  <2> SUFFICES ASSUME NEW g \in Generations, objects'[g] # Nothing
               PROVE  Bound(g)' /\ objects'[g] = DocumentFor(g)'
    BY DEF ObjectsAreSigned
  <2>1. Bound(g) /\ objects'[g] = DocumentFor(g)
    BY DEF ObjectsAreSigned, ObjectsGrow
  <2> QED
    BY <2>1, DocumentStays
<1>3. \A d \in Documents : d = objects[d.generation] => d = objects'[d.generation]
  BY NothingIsNoDocument DEF ObjectsGrow, Documents
<1>4. CASE pointers' = pointers
  <2>1. \A n \in DOMAIN pointers : pointers[n] \in Documents
    BY SeqTyped DEF KeysTyped
  <2> QED
    BY <1>1, <1>2, <1>3, <1>4, <2>1 DEF PointersAreObjects, PointerKeepsItsHost
<1>5. ASSUME NEW d \in Documents, pointers' = Append(pointers, d), d = objects[d.generation],
             \A n \in DOMAIN pointers : pointers[n].host = d.host
      PROVE  PointersAreObjects' /\ PointerKeepsItsHost'
  <2>1. \A n \in DOMAIN pointers' :
          pointers'[n] = d \/ (n \in DOMAIN pointers /\ pointers'[n] = pointers[n])
    <3>1. pointers \in Seq(Documents)
      BY DEF KeysTyped
    <3>2. /\ pointers'[Len(pointers) + 1] = d
          /\ \A n \in DOMAIN pointers : pointers'[n] = pointers[n]
          /\ \A n \in DOMAIN pointers' : n \in DOMAIN pointers \/ n = Len(pointers) + 1
      BY <1>5, <3>1, SeqAppended
    <3> QED
      BY <3>2
  <2>2. \A n \in DOMAIN pointers : pointers[n] \in Documents
    BY SeqTyped DEF KeysTyped
  <2>3. PointersAreObjects'
    BY <1>3, <1>5, <2>1, <2>2 DEF PointersAreObjects
  <2>4. PointerKeepsItsHost'
    BY <1>5, <2>1 DEF PointerKeepsItsHost
  <2> QED
    BY <2>3, <2>4
<1> QED
  BY <1>1, <1>2, <1>4, <1>5 DEF PointersGrow

\* The call of a worker that does not step itself stays in order.
LEMMA OthersStayInOrder ==
  ASSUME CoreInv, KeysTyped', CoreGrows, NEW w \in Workers,
         applying'[w] = applying[w], stage'[w] = stage[w]
  PROVE  ApplyInOrder(w)'
<1> DEFINE g == applying[w].generation
<1>1. ApplyInOrder(w) /\ Ring(w)' = Ring(w)
  BY DEF CoreInv, Ring
<1>2. ASSUME g \in DOMAIN rows
      PROVE  g \in DOMAIN rows' /\ g \in Generations
  <2>1. DOMAIN rows = 1 .. Len(rows) /\ Len(rows) \in Nat
    BY SeqTyped DEF CoreInv, KeysTyped
  <2>2. DOMAIN rows' = 1 .. Len(rows') /\ Len(rows') \in Nat
    BY SeqTyped DEF KeysTyped
  <2> QED
    BY <1>2, <2>1, <2>2, RowTyped DEF CoreGrows, RowsGrow, CoreInv
<1>3. ASSUME Bound(g)
      PROVE  /\ Bound(g)' /\ DocumentFor(g)' = DocumentFor(g)
             /\ rows'[g].kid = rows[g].kid /\ rows'[g].host = rows[g].host
             /\ objects[g] = DocumentFor(g) => objects'[g] = DocumentFor(g)
  <2>1. g \in Generations /\ DocumentFor(g) \in Documents
    BY <1>3, RowTyped DEF Bound, CoreInv
  <2>2. objects[g] = DocumentFor(g) => objects'[g] = DocumentFor(g)
    BY <2>1, NothingIsNoDocument DEF CoreGrows, ObjectsGrow
  <2> QED
    BY <1>3, <2>2, DocumentStays DEF CoreInv, CoreGrows
<1> QED
  BY <1>1, <1>2, <1>3 DEF ApplyInOrder

-----------------------------------------------------------------------------
(***************************************************************************)
(* Every step keeps the types, and only lets things grow.                  *)
(***************************************************************************)
Claimed(r, w, k) == [r EXCEPT !.state = "LEASED", !.by = {w}, !.kid = k]

LEMMA ClaimedRow ==
  ASSUME NEW r \in Rows, NEW kid \in Kids \cup {NoKid}, NEW w \in Workers
  PROVE  /\ Claimed(r, w, kid) \in Rows
         /\ Claimed(r, w, kid).createdAt = r.createdAt
         /\ Claimed(r, w, kid).release = r.release /\ Claimed(r, w, kid).host = r.host
         /\ Claimed(r, w, kid).kid = kid /\ Claimed(r, w, kid).state = "LEASED"
         /\ Claimed(r, w, kid).version = r.version
BY DEF Rows, Claimed

LEMMA ClaimTyped ==
  ASSUME KeysTyped, NEW w \in Workers, ClaimRow(w)
  PROVE  KeysTyped' /\ CoreGrows
<1>1. /\ rows \in Seq(Rows) /\ Len(rows) \in Nat /\ DOMAIN rows = 1 .. Len(rows)
      /\ Len(rows) <= MaxGeneration
  BY SeqTyped DEF KeysTyped
<1>2. Requested = Len(rows) /\ Requested > 0 /\ Requested \in DOMAIN rows
  <2>1. Requested = Len(rows) /\ Requested > 0
    BY DEF ClaimRow, Requested
  <2> QED
    BY <1>1, <2>1
<1>3. /\ rows' = [g \in DOMAIN rows |-> rows'[g]]
      /\ \A g \in DOMAIN rows :
           rows'[g] = IF g = Requested
             THEN [rows[g] EXCEPT !.state = "LEASED", !.by = {w}, !.kid = KidFor(w, g)]
             ELSE IF rows[g].state \in {"PENDING", "LEASED"}
             THEN [rows[g] EXCEPT !.state = "FAILED", !.by = {}] ELSE rows[g]
  BY DEF ClaimRow
<1>4. ASSUME NEW g \in DOMAIN rows
      PROVE  /\ rows'[g] \in Rows
             /\ rows'[g].createdAt = rows[g].createdAt
             /\ rows'[g].release = rows[g].release
             /\ rows'[g].host = rows[g].host
             /\ rows'[g].kid = IF g = Requested THEN KidFor(w, g) ELSE rows[g].kid
  <2>1. rows[g] \in Rows
    BY RowTyped
  <2>2. KidFor(w, g) \in Kids \cup {NoKid}
    BY KidForRow
  <2>4. CASE g = Requested
    <3>1. rows'[g] = Claimed(rows[g], w, KidFor(w, g))
      BY <1>3, <2>4 DEF Claimed
    <3>2. /\ rows'[g] \in Rows /\ rows'[g].createdAt = rows[g].createdAt
          /\ rows'[g].release = rows[g].release
          /\ rows'[g].host = rows[g].host /\ rows'[g].kid = KidFor(w, g)
      BY <2>1, <2>2, <3>1, ClaimedRow
    <3> QED
      BY <2>4, <3>2
  <2>5. CASE g # Requested
    <3>1. rows'[g] = [rows[g] EXCEPT !.state = "FAILED", !.by = {}] \/ rows'[g] = rows[g]
      BY <1>3, <2>5
    <3> QED
      BY <2>1, <2>5, <3>1 DEF Rows
  <2> QED
    BY <2>4, <2>5
<1>5. rows' \in Seq(Rows) /\ Len(rows') = Len(rows) /\ DOMAIN rows' = DOMAIN rows
  <2>1. \A g \in DOMAIN rows : rows'[g] \in Rows
    BY <1>4
  <2> QED
    BY <1>1, <1>3, <2>1, SeqMapped
<1>6. applying' \in [Workers -> Applications]
  <2>1. Requested \in 0 .. MaxGeneration
    BY <1>1, <1>2
  <2>2. [NotApplying EXCEPT !.step = "write", !.generation = Requested] \in Applications
    BY <2>1 DEF Applications, NotApplying
  <2> QED
    BY <2>2 DEF ClaimRow, KeysTyped
<1>7. KeysTyped'
  BY <1>5, <1>6 DEF KeysTyped, ClaimRow, bucketOfKeys
<1>8. RowsGrow
  <2>1. \A g \in DOMAIN rows : Bound(g) => rows'[g].kid = rows[g].kid
    BY <1>4, KidForRow DEF Bound
  <2>2. ASSUME NEW g \in DOMAIN rows, rows'[g].kid # NoKid
        PROVE  Bound(g) \/ ValidAt(rows'[g].kid, rows'[g].createdAt)
    <3>1. CASE rows[g].kid = NoKid
      <4>1. rows'[g].kid = KidFor(w, g) /\ KidFor(w, g) # NoKid
        BY <1>4, <2>2, <3>1
      <4>2. KidFor(w, g) \in UsableKeys(w, rows[g].createdAt)
        BY <3>1, <4>1, KidForRow
      <4> QED
        BY <1>4, <4>1, <4>2 DEF UsableKeys
    <3> QED
      BY <3>1 DEF Bound
  <2>3. Len(rows) <= Len(rows')
    BY <1>1, <1>5
  <2> QED
    BY <1>4, <1>5, <2>1, <2>2, <2>3 DEF RowsGrow
<1> QED
  BY <1>7, <1>8 DEF CoreGrows, ObjectsGrow, PointersGrow, bucketOfKeys, ClaimRow

\* Rows of the same number, with the same documents, that may be in other states.
LEMMA SameRowsGrow ==
  ASSUME KeysTyped, DOMAIN rows' = DOMAIN rows, Len(rows') = Len(rows),
         \A g \in DOMAIN rows :
           /\ rows'[g].createdAt = rows[g].createdAt /\ rows'[g].release = rows[g].release
           /\ rows'[g].host = rows[g].host /\ rows'[g].kid = rows[g].kid
  PROVE  RowsGrow
BY SeqTyped DEF RowsGrow, KeysTyped, Bound

LEMMA RequestedRow ==
  ASSUME KeysTyped, RequestPublication
  PROVE  \E row \in Rows :
           /\ rows' = Append(rows, row)
           /\ row.kid = NoKid /\ row.state = "PENDING" /\ row.version = 0
<1>1. PICK release \in Targets, host \in Hosts :
        rows' = Append(rows,
         [createdAt |-> clock, release |-> release, host |-> host, kid |-> NoKid,
          state |-> "PENDING", by |-> {}, projection |-> Nothing, version |-> 0])
  BY DEF RequestPublication
<1>2. [createdAt |-> clock, release |-> release, host |-> host, kid |-> NoKid,
       state |-> "PENDING", by |-> {}, projection |-> Nothing, version |-> 0] \in Rows
  BY DEF KeysTyped, Rows
<1> QED
  BY <1>1, <1>2

LEMMA RequestTyped ==
  ASSUME KeysTyped, RequestPublication
  PROVE  KeysTyped' /\ CoreGrows
<1>1. PICK row \in Rows : rows' = Append(rows, row) /\ row.kid = NoKid
  BY RequestedRow
<1>2. /\ rows' \in Seq(Rows) /\ Len(rows') = Len(rows) + 1 /\ Len(rows) \in Nat
      /\ \A g \in DOMAIN rows : rows'[g] = rows[g]
      /\ rows'[Len(rows) + 1] = row
      /\ \A g \in DOMAIN rows' : g \in DOMAIN rows \/ g = Len(rows) + 1
  BY <1>1, SeqAppended, SeqTyped DEF KeysTyped
<1>3. KeysTyped'
  BY <1>2, KeysBoundsAssumption DEF KeysTyped, RequestPublication, bucketOfKeys, Requested
<1>4. RowsGrow
  BY <1>1, <1>2 DEF RowsGrow, Bound
<1> QED
  BY <1>3, <1>4 DEF CoreGrows, ObjectsGrow, PointersGrow, bucketOfKeys, RequestPublication

LEMMA LeaseEndTyped ==
  ASSUME KeysTyped, RowLeaseEnds
  PROVE  KeysTyped' /\ CoreGrows
<1>1. PICK g \in DOMAIN rows, state \in {"PENDING", "FAILED"} :
        rows[g].state = "LEASED" /\ rows' = [rows EXCEPT ![g].state = state, ![g].by = {}]
  BY DEF RowLeaseEnds
<1>2. DOMAIN rows' = DOMAIN rows /\ rows' = [h \in DOMAIN rows |-> rows'[h]]
  BY <1>1
<1>3. \A h \in DOMAIN rows :
        /\ rows'[h] \in Rows
        /\ rows'[h].createdAt = rows[h].createdAt /\ rows'[h].release = rows[h].release
        /\ rows'[h].host = rows[h].host /\ rows'[h].kid = rows[h].kid
  <2> SUFFICES ASSUME NEW h \in DOMAIN rows
               PROVE  /\ rows'[h] \in Rows
                      /\ rows'[h].createdAt = rows[h].createdAt
                      /\ rows'[h].release = rows[h].release
                      /\ rows'[h].host = rows[h].host /\ rows'[h].kid = rows[h].kid
    OBVIOUS
  <2>1. rows[h] \in Rows
    BY RowTyped
  <2>2. CASE h # g
    BY <1>1, <2>1, <2>2
  <2>3. CASE h = g
    <3>1. rows'[h] = [rows[h] EXCEPT !.state = state, !.by = {}]
      BY <1>1, <2>3
    <3> QED
      BY <2>1, <3>1 DEF Rows
  <2> QED
    BY <2>2, <2>3
<1>4. rows' \in Seq(Rows) /\ Len(rows') = Len(rows)
  BY <1>2, <1>3, SeqMapped DEF KeysTyped
<1>5. KeysTyped'
  BY <1>4 DEF KeysTyped, RowLeaseEnds, bucketOfKeys
<1>6. RowsGrow
  BY <1>2, <1>3, <1>4, SameRowsGrow
<1> QED
  BY <1>5, <1>6 DEF CoreGrows, ObjectsGrow, PointersGrow, bucketOfKeys, RowLeaseEnds

\* The calls of apply, when one of them moves on.
LEMMA CallTyped ==
  ASSUME KeysTyped, NEW w \in Workers, NEW a \in Applications,
         applying' = [applying EXCEPT ![w] = a]
  PROVE  applying' \in [Workers -> Applications]
BY DEF KeysTyped

LEMMA GoOnTyped ==
  ASSUME KeysTyped, NEW w \in Workers, NEW step \in {"read", "put", "acknowledge"},
         GoOn(w, step)
  PROVE  /\ applying' \in [Workers -> Applications]
         /\ applying'[w].step = step /\ applying'[w].generation = applying[w].generation
         /\ applying'[w].prior = IF step = "put" THEN Shown ELSE Nothing
         /\ \A v \in Workers \ {w} : applying'[v] = applying[v]
<1>1. applying[w] \in Applications /\ applying \in [Workers -> Applications]
  BY DEF KeysTyped
<1>2. Shown \in Documents \cup {Nothing}
  BY ShownTyped
<1> QED
  BY <1>1, <1>2 DEF GoOn, Applications

\* A step that leaves the rows alone.
LEMMA SameRows ==
  ASSUME KeysTyped, rows' = rows
  PROVE  RowsGrow
BY SeqTyped DEF RowsGrow, KeysTyped, Bound

LEMMA WriteTyped ==
  ASSUME CoreInv, NEW w \in Workers, WriteGeneration(w)
  PROVE  KeysTyped' /\ CoreGrows /\ Bound(applying[w].generation)
<1> DEFINE g == applying[w].generation
<1>1. KeysTyped /\ g \in DOMAIN rows
  BY DEF CoreInv, ApplyInOrder, WriteGeneration, At
<1>2. /\ Signs(w, g) /\ objects[g] \in {Nothing, DocumentFor(g)}
      /\ objects' = [objects EXCEPT ![g] = DocumentFor(g)] /\ GoOn(w, "read")
      /\ UNCHANGED <<clock, rows, acknowledged, pointers, stage, cleared>>
  BY DEF WriteGeneration
<1>3. Bound(g)
  BY <1>1, <1>2, KidsAreOrdered DEF Bound, Signs, UsableKeys
<1>4. g \in Generations /\ DocumentFor(g) \in Documents
  BY <1>1, <1>3, RowTyped
<1>5. applying' \in [Workers -> Applications]
  BY <1>1, <1>2, GoOnTyped
<1>6. objects' \in [Generations -> Documents \cup {Nothing}]
  BY <1>1, <1>2, <1>4 DEF KeysTyped
<1>7. KeysTyped'
  BY <1>1, <1>2, <1>5, <1>6 DEF KeysTyped
<1>8. ObjectsGrow
  BY <1>1, <1>2, <1>3, <1>4 DEF ObjectsGrow, KeysTyped
<1> QED
  BY <1>1, <1>2, <1>3, <1>7, <1>8, SameRows DEF CoreGrows, PointersGrow

LEMMA ReadTyped ==
  ASSUME CoreInv, NEW w \in Workers, ReadPointer(w)
  PROVE  KeysTyped' /\ CoreGrows
<1>1. KeysTyped /\ UNCHANGED <<clock, rows, acknowledged, objects, pointers, stage>>
  BY DEF CoreInv, ReadPointer, bucketOfKeys
<1>2. GoOn(w, "acknowledge") \/ GoOn(w, "put")
  BY DEF ReadPointer
<1>3. applying' \in [Workers -> Applications]
  BY <1>1, <1>2, GoOnTyped
<1> QED
  BY <1>1, <1>3, SameRows DEF KeysTyped, CoreGrows, ObjectsGrow, PointersGrow

LEMMA PutTyped ==
  ASSUME CoreInv, NEW w \in Workers, PutPointer(w)
  PROVE  KeysTyped' /\ CoreGrows
<1> DEFINE g == applying[w].generation
<1>1. /\ KeysTyped /\ Bound(g) /\ g \in DOMAIN rows /\ objects[g] = DocumentFor(g)
      /\ applying[w].prior # Nothing => applying[w].prior.host = rows[g].host
  BY DEF CoreInv, ApplyInOrder, PutPointer, At, Bound
<1>2. /\ UNCHANGED <<clock, rows, acknowledged, objects, stage>>
      /\ GoOn(w, "acknowledge") \/ GoOn(w, "read")
      /\ \/ pointers' = pointers
         \/ Shown = applying[w].prior /\ pointers' = Append(pointers, DocumentFor(g))
  BY DEF PutPointer
<1>3. applying' \in [Workers -> Applications]
  BY <1>1, <1>2, GoOnTyped
<1>4. DocumentFor(g) \in Documents
  BY <1>1, RowTyped
<1>5. pointers' \in Seq(Documents)
  BY <1>1, <1>2, <1>4, SeqAppended DEF KeysTyped
<1>6. KeysTyped'
  BY <1>1, <1>2, <1>3, <1>5 DEF KeysTyped
<1>7. PointersGrow
  <2>1. CASE pointers' = pointers
    BY <2>1 DEF PointersGrow
  <2>2. CASE Shown = applying[w].prior /\ pointers' = Append(pointers, DocumentFor(g))
    <3>1. DocumentFor(g) = objects[DocumentFor(g).generation] /\ DocumentFor(g).host = rows[g].host
      BY <1>1 DEF DocumentFor
    <3>2. ASSUME NEW n \in DOMAIN pointers
          PROVE  pointers[n].host = DocumentFor(g).host
      <4>1. Shown # Nothing
        BY <1>1, ShownTyped
      <4>2. Shown.host = rows[g].host /\ Len(pointers) \in DOMAIN pointers
            /\ Shown = pointers[Len(pointers)]
        BY <1>1, <2>2, <4>1, ShownTyped
      <4>3. pointers[n].host = Shown.host
        BY <4>2 DEF CoreInv, PointerKeepsItsHost
      <4> QED
        BY <3>1, <4>2, <4>3
    <3> QED
      BY <1>4, <2>2, <3>1, <3>2 DEF PointersGrow
  <2> QED
    BY <1>2, <2>1, <2>2
<1> QED
  BY <1>1, <1>2, <1>6, <1>7, SameRows DEF CoreGrows, ObjectsGrow

Acknowledging(r, document, ver) ==
  [r EXCEPT !.state = "ACKNOWLEDGED", !.by = {}, !.projection = document, !.version = ver]

LEMMA AcknowledgedRow ==
  ASSUME NEW r \in Rows, NEW d \in Documents, NEW v \in Nat
  PROVE  LET s == Acknowledging(r, d, v)
         IN /\ s \in Rows /\ s.createdAt = r.createdAt /\ s.release = r.release
            /\ s.host = r.host /\ s.kid = r.kid /\ s.state = "ACKNOWLEDGED"
            /\ s.projection = d /\ s.version = v
BY DEF Rows, Acknowledging

LEMMA AcknowledgeTyped ==
  ASSUME CoreInv, NEW w \in Workers, AcknowledgeRow(w)
  PROVE  LET g == applying[w].generation
         IN /\ KeysTyped' /\ CoreGrows /\ g \in DOMAIN rows /\ Bound(g)
            /\ DOMAIN rows' = DOMAIN rows /\ g = Requested /\ rows[g].state = "LEASED"
            /\ Shown = DocumentFor(g) /\ Shown \in Documents
            /\ rows'[g] = Acknowledging(rows[g], Shown, ShownVersion)
            /\ \A h \in DOMAIN rows \ {g} : rows'[h] = rows[h]
            /\ UNCHANGED <<clock, objects, pointers, stage>> /\ acknowledged' = g
            /\ applying' = [applying EXCEPT ![w] = NotApplying]
<1> DEFINE g == applying[w].generation
<1>1. KeysTyped /\ Bound(g) /\ g \in DOMAIN rows
  BY DEF CoreInv, ApplyInOrder, AcknowledgeRow, At, Bound
<1>2. /\ g = Requested /\ rows[g].state = "LEASED" /\ Shown = DocumentFor(g)
      /\ rows' = [rows EXCEPT ![g] = Acknowledging(rows[g], Shown, ShownVersion)]
      /\ acknowledged' = g /\ applying' = [applying EXCEPT ![w] = NotApplying]
      /\ UNCHANGED <<clock, objects, pointers, stage>>
  BY <1>1 DEF AcknowledgeRow, HoldsRow, Acknowledging, bucketOfKeys
<1>3. Shown \in Documents /\ ShownVersion \in Nat /\ rows \in Seq(Rows) /\ rows[g] \in Rows
  BY <1>1, <1>2, RowTyped, ShownTyped DEF KeysTyped
<1>4. DOMAIN rows' = DOMAIN rows /\ rows' = [h \in DOMAIN rows |-> rows'[h]]
      /\ rows'[g] = Acknowledging(rows[g], Shown, ShownVersion)
      /\ \A h \in DOMAIN rows \ {g} : rows'[h] = rows[h]
  BY <1>1, <1>2
<1>5. \A h \in DOMAIN rows :
        /\ rows'[h] \in Rows
        /\ rows'[h].createdAt = rows[h].createdAt /\ rows'[h].release = rows[h].release
        /\ rows'[h].host = rows[h].host /\ rows'[h].kid = rows[h].kid
  <2>1. \A h \in DOMAIN rows : rows[h] \in Rows
    BY <1>1, RowTyped
  <2> QED
    BY <1>3, <1>4, <2>1, AcknowledgedRow
<1>6. rows' \in Seq(Rows) /\ Len(rows') = Len(rows)
  BY <1>3, <1>4, <1>5, SeqMapped
<1>7. NotApplying \in Applications
  BY KeysBoundsAssumption DEF NotApplying, Applications
<1>8. applying' \in [Workers -> Applications]
  BY <1>1, <1>2, <1>7 DEF KeysTyped
<1>9. KeysTyped'
  <2>1. acknowledged' \in 0 .. Len(rows')
    BY <1>1, <1>2, <1>6, RowTyped, SeqTyped DEF KeysTyped
  <2> QED
    BY <1>1, <1>2, <1>6, <1>8, <2>1 DEF KeysTyped
<1>10. RowsGrow
  BY <1>1, <1>4, <1>5, <1>6, SameRowsGrow
<1> QED
  BY <1>1, <1>2, <1>3, <1>4, <1>9, <1>10 DEF CoreGrows, ObjectsGrow, PointersGrow

LEMMA OthersTyped ==
  ASSUME CoreInv,
         \/ ClockTicks \/ (\E w \in Workers : LetGo(w)) \/ (\E p \in Processes : StartWithNext(p))
         \/ PutsBack \/ UNCHANGED coreVars
  PROVE  KeysTyped' /\ CoreGrows
<1>0. KeysTyped /\ NotApplying \in Applications
  BY KeysBoundsAssumption DEF CoreInv, NotApplying, Applications
<1>1. CASE ClockTicks
  <2>1. clock' \in Instants
    BY <1>0, <1>1, KeysBoundsAssumption DEF ClockTicks, KeysTyped, Instants
  <2> QED
    BY <1>0, <1>1, <2>1, SameRows
       DEF ClockTicks, KeysTyped, CoreGrows, ObjectsGrow, PointersGrow, bucketOfKeys
<1>2. ASSUME NEW w \in Workers, LetGo(w)
      PROVE  KeysTyped' /\ CoreGrows
  <2>1. applying' \in [Workers -> Applications]
    BY <1>0, <1>2 DEF LetGo, KeysTyped
  <2> QED
    BY <1>0, <1>2, <2>1, SameRows
       DEF LetGo, KeysTyped, CoreGrows, ObjectsGrow, PointersGrow, bucketOfKeys
<1>3. ASSUME NEW p \in Processes, StartWithNext(p)
      PROVE  KeysTyped' /\ CoreGrows
  <2>1. applying' \in [Workers -> Applications]
    BY <1>0, <1>3 DEF StartWithNext, KeysTyped
  <2>2. /\ stage[p] \in DOMAIN Rollout /\ stage[p] < Len(Rollout)
        /\ stage' = [stage EXCEPT ![p] = stage[p] + 1]
    BY <1>0, <1>3 DEF StartWithNext, KeysTyped
  <2>3. stage[p] + 1 \in DOMAIN Rollout
    BY <2>2, RolloutStarts, SeqTyped
  <2>4. stage' \in [Processes -> DOMAIN Rollout]
    BY <1>0, <2>2, <2>3 DEF KeysTyped
  <2> QED
    BY <1>0, <1>3, <2>1, <2>4, SameRows
       DEF StartWithNext, KeysTyped, CoreGrows, ObjectsGrow, PointersGrow, bucketOfKeys
<1>4. CASE PutsBack
  <2>1. PICK n \in DOMAIN pointers : pointers' = Append(pointers, pointers[n])
    BY <1>4 DEF PutsBack
  <2>2. pointers[n] \in Documents
    BY <1>0, ShownTyped
  <2>3. PointersGrow
    BY <2>1, <2>2 DEF PointersGrow, CoreInv, PointersAreObjects, PointerKeepsItsHost
  <2>4. pointers' \in Seq(Documents)
    BY <1>0, <2>1, <2>2, SeqAppended DEF KeysTyped
  <2> QED
    BY <1>0, <1>4, <2>3, <2>4, SameRows DEF PutsBack, KeysTyped, CoreGrows, ObjectsGrow
<1>5. CASE UNCHANGED coreVars
  BY <1>0, <1>5, SameRows DEF coreVars, KeysTyped, CoreGrows, ObjectsGrow, PointersGrow
<1> QED
  BY <1>1, <1>2, <1>3, <1>4, <1>5

LEMMA EveryStepTyped ==
  ASSUME CoreInv, CoreNext
  PROVE  KeysTyped' /\ CoreGrows
<1> USE DEF CoreInv
<1>1. ASSUME NEW w \in Workers, Apply(w)
      PROVE  KeysTyped' /\ CoreGrows
  BY <1>1, ClaimTyped, WriteTyped, ReadTyped, PutTyped, AcknowledgeTyped, OthersTyped DEF Apply
<1> QED
  BY <1>1, RequestTyped, LeaseEndTyped, OthersTyped DEF CoreNext, PublishNext

-----------------------------------------------------------------------------
(***************************************************************************)
(* Every step keeps the rows in order.                                     *)
(***************************************************************************)
\* Versions of the pointer are never taken back.
LEMMA PointersStay ==
  ASSUME KeysTyped, KeysTyped', PointersGrow
  PROVE  /\ Len(pointers) \in Nat /\ Len(pointers') \in Nat /\ Len(pointers) <= Len(pointers')
         /\ DOMAIN pointers = 1 .. Len(pointers) /\ DOMAIN pointers' = 1 .. Len(pointers')
         /\ \A n \in DOMAIN pointers : n \in DOMAIN pointers' /\ pointers'[n] = pointers[n]
         /\ pointers # <<>> => pointers' # <<>>
<1>1. /\ Len(pointers) \in Nat /\ DOMAIN pointers = 1 .. Len(pointers)
      /\ Len(pointers') \in Nat /\ DOMAIN pointers' = 1 .. Len(pointers')
  BY SeqTyped DEF KeysTyped
<1>2. CASE pointers' = pointers
  BY <1>1, <1>2
<1>3. ASSUME NEW d \in Documents, pointers' = Append(pointers, d)
      PROVE  /\ Len(pointers') = Len(pointers) + 1 /\ pointers' # <<>>
             /\ \A n \in DOMAIN pointers : pointers'[n] = pointers[n]
  BY <1>3, SeqAppended DEF KeysTyped
<1>4. ASSUME NEW d \in Documents, pointers' = Append(pointers, d)
      PROVE  \A n \in DOMAIN pointers : n \in DOMAIN pointers'
  BY <1>1, <1>3, <1>4
<1>5. CASE \E d \in Documents : pointers' = Append(pointers, d)
  BY <1>1, <1>3, <1>4, <1>5
<1> QED
  BY <1>2, <1>5 DEF PointersGrow

LEMMA VersionStays ==
  ASSUME CoreInv, KeysTyped', CoreGrows, NEW g \in DOMAIN rows,
         rows'[g].state = "ACKNOWLEDGED" <=> rows[g].state = "ACKNOWLEDGED",
         rows'[g].projection = rows[g].projection, rows'[g].version = rows[g].version
  PROVE  VersionInOrder(g)'
<1>1. VersionInOrder(g)
  BY DEF CoreInv, RowsInOrder
<1>2. Bound(g) => Bound(g)' /\ DocumentFor(g)' = DocumentFor(g)
  BY DocumentStays DEF CoreInv, CoreGrows
<1>3. DOMAIN pointers \subseteq DOMAIN pointers'
  BY PointersStay DEF CoreInv, CoreGrows
<1> QED
  BY <1>1, <1>2, <1>3 DEF VersionInOrder

LEMMA SameRowsInOrder ==
  ASSUME CoreInv, KeysTyped', CoreGrows, rows' = rows, acknowledged' = acknowledged
  PROVE  RowsInOrder'
<1>1. \A g \in DOMAIN rows : VersionInOrder(g)'
  BY VersionStays
<1>2. pointers # <<>> => pointers' # <<>>
  BY PointersStay DEF CoreInv, CoreGrows
<1> QED
  BY <1>1, <1>2 DEF CoreInv, RowsInOrder, InProgress

LEMMA RequestInOrder ==
  ASSUME CoreInv, KeysTyped', CoreGrows, RequestPublication
  PROVE  RowsInOrder'
<1>0. PICK n : n = Len(rows) + 1
  OBVIOUS
<1>1. PICK row \in Rows :
        rows' = Append(rows, row) /\ row.state = "PENDING" /\ row.version = 0
  BY RequestedRow DEF CoreInv
<1>2. /\ Len(rows) \in Nat /\ DOMAIN rows = 1 .. Len(rows) /\ rows'[n] = row
      /\ \A g \in DOMAIN rows : rows'[g] = rows[g]
      /\ \A g \in DOMAIN rows' : g \in DOMAIN rows \/ g = n
      /\ acknowledged \in 0 .. Len(rows)
      /\ UNCHANGED <<acknowledged, pointers>>
  BY <1>0, <1>1, SeqAppended, SeqTyped DEF CoreInv, KeysTyped, RequestPublication, bucketOfKeys
<1>3. \A g \in DOMAIN rows : VersionInOrder(g)'
  BY <1>2, VersionStays
<1>4. VersionInOrder(n)'
  BY <1>1, <1>2 DEF VersionInOrder
<1>5. \A g \in DOMAIN rows : InProgress(g)' <=> InProgress(g)
  BY <1>2 DEF InProgress
<1>6. acknowledged # 0 => rows'[acknowledged].state = "ACKNOWLEDGED" /\ pointers' # <<>>
  BY <1>2 DEF CoreInv, RowsInOrder
<1>7. \A g \in DOMAIN rows :
        /\ rows'[g].state = "ACKNOWLEDGED" => g <= acknowledged
        /\ rows'[g].state \in {"LEASED", "ACKNOWLEDGED"} => \A h \in 1 .. g - 1 : ~InProgress(h)'
  <2> SUFFICES ASSUME NEW g \in DOMAIN rows,
                      rows'[g].state \in {"LEASED", "ACKNOWLEDGED"}, NEW h \in 1 .. g - 1
               PROVE  ~InProgress(h)'
    BY <1>2 DEF CoreInv, RowsInOrder
  <2>1. h \in DOMAIN rows
    BY <1>2
  <2> QED
    BY <1>2, <1>5, <2>1 DEF CoreInv, RowsInOrder
<1> QED
  BY <1>0, <1>1, <1>2, <1>3, <1>4, <1>6, <1>7 DEF RowsInOrder

LEMMA LeaseEndInOrder ==
  ASSUME CoreInv, KeysTyped', CoreGrows, RowLeaseEnds
  PROVE  RowsInOrder'
<1>1. PICK k \in DOMAIN rows, state \in {"PENDING", "FAILED"} :
        rows[k].state = "LEASED" /\ rows' = [rows EXCEPT ![k].state = state, ![k].by = {}]
  BY DEF RowLeaseEnds
<1>2. DOMAIN rows' = DOMAIN rows /\ UNCHANGED <<acknowledged, pointers>>
  BY <1>1 DEF RowLeaseEnds, bucketOfKeys
<1>3. \A g \in DOMAIN rows :
        /\ rows'[g].projection = rows[g].projection /\ rows'[g].version = rows[g].version
        /\ rows'[g].state = IF g = k THEN state ELSE rows[g].state
  BY <1>1, RowTyped DEF CoreInv, Rows
<1>4. DOMAIN rows = 1 .. Len(rows) /\ Len(rows) \in Nat /\ acknowledged \in 0 .. Len(rows)
  BY SeqTyped DEF CoreInv, KeysTyped
<1>5. \A g \in DOMAIN rows : VersionInOrder(g)'
  BY <1>1, <1>3, VersionStays
<1>6. ASSUME NEW g \in DOMAIN rows
      PROVE  InProgress(g)' => InProgress(g)
  BY <1>1, <1>3 DEF InProgress
<1>7. ASSUME NEW g \in DOMAIN rows, rows'[g].state \in {"LEASED", "ACKNOWLEDGED"},
             NEW h \in 1 .. g - 1
      PROVE  ~InProgress(h)'
  <2>1. rows[g].state \in {"LEASED", "ACKNOWLEDGED"} /\ h \in DOMAIN rows
    BY <1>1, <1>3, <1>4, <1>7
  <2> QED
    BY <1>6, <2>1 DEF CoreInv, RowsInOrder
<1>8. acknowledged' # 0 => rows'[acknowledged'].state = "ACKNOWLEDGED" /\ pointers' # <<>>
  BY <1>1, <1>2, <1>3, <1>4 DEF CoreInv, RowsInOrder
<1>9. \A g \in DOMAIN rows : rows'[g].state = "ACKNOWLEDGED" => g <= acknowledged'
  BY <1>1, <1>2, <1>3 DEF CoreInv, RowsInOrder
<1> QED
  BY <1>2, <1>5, <1>7, <1>8, <1>9 DEF RowsInOrder

LEMMA ClaimInOrder ==
  ASSUME CoreInv, KeysTyped', CoreGrows, NEW w \in Workers, ClaimRow(w)
  PROVE  RowsInOrder'
<1>1. /\ Len(rows) \in Nat /\ DOMAIN rows = 1 .. Len(rows) /\ acknowledged \in 0 .. Len(rows)
      /\ DOMAIN rows' = DOMAIN rows /\ UNCHANGED <<acknowledged, pointers>>
      /\ Requested = Len(rows) /\ rows[Requested].state = "PENDING" /\ Requested > 0
  BY SeqTyped DEF CoreInv, KeysTyped, ClaimRow, bucketOfKeys, Requested
<1>2. ASSUME NEW g \in DOMAIN rows
      PROVE  /\ rows'[g].projection = rows[g].projection /\ rows'[g].version = rows[g].version
             /\ rows'[g].state = IF g = Requested THEN "LEASED"
                                 ELSE IF InProgress(g) THEN "FAILED" ELSE rows[g].state
  <2>1. rows[g] \in Rows
    BY RowTyped DEF CoreInv
  <2>2. rows'[g] = IF g = Requested
             THEN [rows[g] EXCEPT !.state = "LEASED", !.by = {w}, !.kid = KidFor(w, g)]
             ELSE IF rows[g].state \in {"PENDING", "LEASED"}
             THEN [rows[g] EXCEPT !.state = "FAILED", !.by = {}] ELSE rows[g]
    BY DEF ClaimRow
  <2> QED
    BY <2>1, <2>2 DEF Rows, InProgress
<1>3. \A g \in DOMAIN rows : VersionInOrder(g)'
  BY <1>1, <1>2, VersionStays DEF InProgress
<1>4. \A g \in DOMAIN rows : g # Requested => ~InProgress(g)'
  BY <1>2 DEF InProgress
<1>5. acknowledged' # 0 => rows'[acknowledged'].state = "ACKNOWLEDGED" /\ pointers' # <<>>
  BY <1>1, <1>2 DEF CoreInv, RowsInOrder, InProgress
<1>6. \A g \in DOMAIN rows : rows'[g].state = "ACKNOWLEDGED" => g <= acknowledged'
  BY <1>1, <1>2 DEF CoreInv, RowsInOrder
<1>7. ASSUME NEW g \in DOMAIN rows, NEW h \in 1 .. g - 1
      PROVE  ~InProgress(h)'
  BY <1>1, <1>4
<1> QED
  BY <1>1, <1>3, <1>5, <1>6, <1>7 DEF RowsInOrder

LEMMA AcknowledgeInOrder ==
  ASSUME CoreInv, KeysTyped', CoreGrows, NEW w \in Workers, AcknowledgeRow(w)
  PROVE  RowsInOrder'
<1>0. PICK g : g = applying[w].generation
  OBVIOUS
<1>1. /\ g \in DOMAIN rows /\ Bound(g) /\ DOMAIN rows' = DOMAIN rows
      /\ g = Requested /\ rows[g].state = "LEASED" /\ Shown = DocumentFor(g) /\ Shown \in Documents
      /\ rows'[g] = Acknowledging(rows[g], Shown, ShownVersion)
      /\ \A h \in DOMAIN rows \ {g} : rows'[h] = rows[h]
      /\ UNCHANGED <<clock, objects, pointers, stage>> /\ acknowledged' = g
  BY <1>0, AcknowledgeTyped
<1>2. /\ rows'[g].state = "ACKNOWLEDGED" /\ rows'[g].projection = Shown
      /\ rows'[g].version = ShownVersion
  BY <1>1, RowTyped, ShownTyped, AcknowledgedRow DEF CoreInv
<1>3. /\ Bound(g)' /\ DocumentFor(g)' = DocumentFor(g)
  BY <1>1, DocumentStays DEF CoreInv, CoreGrows
<1>4. /\ Shown # Nothing /\ pointers # <<>>
      /\ IF Versioned THEN ShownVersion \in DOMAIN pointers ELSE ShownVersion = 0
  <2>1. Shown # Nothing
    BY <1>1, NothingIsNoDocument
  <2> QED
    BY <2>1, ShownTyped DEF CoreInv, ShownVersion
<1>5. VersionInOrder(g)'
  BY <1>1, <1>2, <1>3, <1>4 DEF VersionInOrder
<1>6. \A h \in DOMAIN rows : VersionInOrder(h)'
  BY <1>1, <1>5, VersionStays
<1>7. DOMAIN rows = 1 .. Requested /\ Requested \in Nat
  BY SeqTyped DEF CoreInv, KeysTyped, Requested
<1>8. \A h \in DOMAIN rows : h # g => ~InProgress(h)
  BY <1>1, <1>7 DEF CoreInv, RowsInOrder
<1>9. \A h \in DOMAIN rows : ~InProgress(h)'
  BY <1>1, <1>2, <1>8 DEF InProgress
<1>10. ASSUME NEW h \in DOMAIN rows, NEW i \in 1 .. h - 1
       PROVE  ~InProgress(i)'
  BY <1>7, <1>9
<1> QED
  BY <1>1, <1>2, <1>4, <1>6, <1>7, <1>10 DEF RowsInOrder

LEMMA EveryStepInOrder ==
  ASSUME CoreInv, CoreNext
  PROVE  RowsInOrder'
<1>1. KeysTyped' /\ CoreGrows
  BY EveryStepTyped
<1>2. CASE UNCHANGED <<rows, acknowledged>>
  BY <1>1, <1>2, SameRowsInOrder
<1>3. ASSUME NEW w \in Workers, Apply(w)
      PROVE  RowsInOrder'
  <2>1. CASE ClaimRow(w) \/ AcknowledgeRow(w)
    BY <1>1, <2>1, ClaimInOrder, AcknowledgeInOrder
  <2>2. CASE WriteGeneration(w) \/ ReadPointer(w) \/ PutPointer(w) \/ LetGo(w)
    BY <1>2, <2>2 DEF WriteGeneration, ReadPointer, PutPointer, LetGo
  <2> QED
    BY <1>3, <2>1, <2>2 DEF Apply
<1>4. CASE ClockTicks \/ (\E p \in Processes : StartWithNext(p)) \/ PutsBack \/ UNCHANGED coreVars
  BY <1>2, <1>4 DEF ClockTicks, StartWithNext, PutsBack, coreVars
<1> QED
  BY <1>1, <1>3, <1>4, RequestInOrder, LeaseEndInOrder DEF CoreNext, PublishNext

-----------------------------------------------------------------------------
(***************************************************************************)
(* Every step keeps the calls of apply in order.                           *)
(***************************************************************************)
LEMMA StepInOrder ==
  ASSUME CoreInv, KeysTyped', CoreGrows, NEW w \in Workers, Apply(w)
  PROVE  ApplyInOrder(w)'
<1>0. PICK g : g = applying[w].generation
  OBVIOUS
<1>1. KeysTyped /\ ApplyInOrder(w) /\ applying \in [Workers -> Applications]
  BY DEF CoreInv, KeysTyped
<1>2. CASE ClaimRow(w)
  <2>1. applying'[w].step = "write" /\ applying'[w].generation = Requested
    BY <1>1, <1>2 DEF ClaimRow, NotApplying
  <2>2. Requested \in DOMAIN rows'
    <3>1. DOMAIN rows' = DOMAIN rows
      BY <1>2 DEF ClaimRow
    <3>2. Requested > 0
      BY <1>2 DEF ClaimRow
    <3>3. DOMAIN rows = 1 .. Requested /\ Requested \in Nat
      BY <1>1, SeqTyped DEF KeysTyped, Requested
    <3> QED
      BY <3>1, <3>2, <3>3
  <2> QED
    BY <2>1, <2>2 DEF ApplyInOrder
<1>3. CASE WriteGeneration(w)
  <2>1. /\ GoOn(w, "read") /\ UNCHANGED <<rows, stage>> /\ Signs(w, g)
        /\ objects' = [objects EXCEPT ![g] = DocumentFor(g)]
    BY <1>0, <1>3 DEF WriteGeneration
  <2>2. applying'[w].step = "read" /\ applying'[w].generation = g
    BY <1>0, <1>1, <2>1, GoOnTyped
  <2>3. Bound(g) /\ g \in DOMAIN rows /\ g \in Generations
    BY <1>0, <1>1, <1>3, WriteTyped, RowTyped DEF Bound
  <2>4. objects'[g] = DocumentFor(g)
    BY <1>1, <2>1, <2>3 DEF KeysTyped
  <2>5. Bound(g)' /\ DocumentFor(g)' = DocumentFor(g) /\ rows'[g].kid = rows[g].kid
    BY <2>1, <2>3 DEF Bound, DocumentFor
  <2>6. Ring(w)[rows[g].kid] \in Accepted /\ Ring(w)' = Ring(w)
    BY <2>1 DEF Signs, UsableKeys, Ring
  <2> QED
    BY <2>1, <2>2, <2>3, <2>4, <2>5, <2>6 DEF ApplyInOrder
<1>4. CASE ReadPointer(w)
  <2>1. /\ At(w, "read") /\ UNCHANGED <<rows, objects, stage>>
        /\ Shown # Nothing => Verifies(w, Shown, rows[g].host) /\ Shown.generation <= g
        /\ \/ GoOn(w, "acknowledge")
           \/ GoOn(w, "put") /\ Shown # DocumentFor(g)
    BY <1>0, <1>4 DEF ReadPointer, bucketOfKeys
  <2>2. /\ applying'[w].generation = g /\ applying'[w].step \in {"put", "acknowledge"}
        /\ applying'[w].step = "put" =>
             applying'[w].prior = Shown /\ Shown # DocumentFor(g)
    BY <1>0, <1>1, <2>1, GoOnTyped
  <2>3. /\ Bound(g) /\ g \in DOMAIN rows /\ objects[g] = DocumentFor(g)
        /\ Ring(w)[rows[g].kid] \in Accepted
    BY <1>0, <1>1, <2>1 DEF ApplyInOrder, At
  <2>4. Bound(g)' /\ DocumentFor(g)' = DocumentFor(g) /\ Ring(w)' = Ring(w)
    BY <2>1, <2>3 DEF Bound, DocumentFor, Ring
  <2> QED
    BY <2>1, <2>2, <2>3, <2>4 DEF ApplyInOrder, Verifies
<1>5. CASE PutPointer(w)
  <2>1. /\ At(w, "put") /\ UNCHANGED <<rows, objects, stage>>
        /\ GoOn(w, "acknowledge") \/ GoOn(w, "read")
    BY <1>0, <1>5 DEF PutPointer
  <2>2. applying'[w].generation = g /\ applying'[w].step \in {"read", "acknowledge"}
    BY <1>0, <1>1, <2>1, GoOnTyped
  <2>3. /\ Bound(g) /\ g \in DOMAIN rows /\ objects[g] = DocumentFor(g)
        /\ Ring(w)[rows[g].kid] \in Accepted
    BY <1>0, <1>1, <2>1 DEF ApplyInOrder, At
  <2>4. Bound(g)' /\ DocumentFor(g)' = DocumentFor(g) /\ Ring(w)' = Ring(w)
    BY <2>1, <2>3 DEF Bound, DocumentFor, Ring
  <2> QED
    BY <2>1, <2>2, <2>3, <2>4 DEF ApplyInOrder
<1>6. CASE AcknowledgeRow(w) \/ LetGo(w)
  <2>1. applying' = [applying EXCEPT ![w] = NotApplying]
    BY <1>6 DEF AcknowledgeRow, LetGo
  <2>2. applying'[w].step = "idle"
    BY <1>1, <2>1 DEF NotApplying
  <2> QED
    BY <2>2 DEF ApplyInOrder
<1> QED
  BY <1>2, <1>3, <1>4, <1>5, <1>6 DEF Apply

LEMMA EveryCallInOrder ==
  ASSUME CoreInv, CoreNext, NEW w \in Workers
  PROVE  ApplyInOrder(w)'
<1>1. KeysTyped /\ KeysTyped' /\ CoreGrows /\ applying \in [Workers -> Applications]
  BY EveryStepTyped DEF CoreInv, KeysTyped
<1>2. CASE applying'[w] = applying[w] /\ stage'[w] = stage[w]
  BY <1>1, <1>2, OthersStayInOrder
<1>3. ASSUME NEW v \in Workers, Apply(v)
      PROVE  ApplyInOrder(w)'
  <2>1. CASE v = w
    BY <1>1, <1>3, <2>1, StepInOrder
  <2>2. CASE v # w
    <3>1. applying'[w] = applying[w]
      BY <1>1, <1>3, <2>2
         DEF Apply, ClaimRow, WriteGeneration, ReadPointer, PutPointer, AcknowledgeRow, LetGo, GoOn
    <3>2. stage' = stage
      BY <1>3 DEF Apply, ClaimRow, WriteGeneration, ReadPointer, PutPointer, AcknowledgeRow, LetGo
    <3> QED
      BY <1>2, <3>1, <3>2
  <2> QED
    BY <2>1, <2>2
<1>4. ASSUME NEW p \in Processes, StartWithNext(p)
      PROVE  ApplyInOrder(w)'
  <2>1. CASE p = w
    <3>1. applying' = [applying EXCEPT ![w] = NotApplying]
      BY <1>4, <2>1 DEF StartWithNext
    <3>2. applying'[w].step = "idle"
      BY <1>1, <3>1 DEF NotApplying
    <3> QED
      BY <3>2 DEF ApplyInOrder
  <2>2. CASE p # w
    <3>1. applying'[w] = applying[w] /\ stage'[w] = stage[w]
      BY <1>1, <1>4, <2>2 DEF StartWithNext, KeysTyped, Processes
    <3> QED
      BY <1>2, <3>1
  <2> QED
    BY <2>1, <2>2
<1>5. CASE UNCHANGED <<applying, stage>>
  BY <1>2, <1>5
<1> QED
  BY <1>3, <1>4, <1>5
     DEF CoreNext, PublishNext, ClockTicks, RequestPublication, RowLeaseEnds, PutsBack, coreVars

\* The invariant of the core is inductive, with and without versions put back.
LEMMA CoreStep ==
  ASSUME CoreInv, CoreNext
  PROVE  CoreInv'
<1>1. KeysTyped' /\ CoreGrows
  BY EveryStepTyped
<1>2. BoundKidsWereValid' /\ ObjectsAreSigned' /\ PointersAreObjects' /\ PointerKeepsItsHost'
  BY <1>1, DocumentsStay
<1>3. RowsInOrder' /\ \A w \in Workers : ApplyInOrder(w)'
  BY EveryStepInOrder, EveryCallInOrder
<1> QED
  BY <1>1, <1>2, <1>3 DEF CoreInv

LEMMA CoreInit ==
  ASSUME KeysInit
  PROVE  CoreInv
<1>1. NotApplying \in Applications /\ NotApplying.step = "idle"
  BY KeysBoundsAssumption DEF NotApplying, Applications
<1>2. 1 \in DOMAIN Rollout
  BY RolloutStarts, SeqTyped
<1>3. KeysTyped
  BY <1>1, <1>2, KeysBoundsAssumption DEF KeysInit, KeysTyped, Instants
<1>4. \A w \in Workers : ApplyInOrder(w)
  BY <1>1 DEF KeysInit, ApplyInOrder
<1>5. RowsInOrder /\ BoundKidsWereValid
  BY DEF KeysInit, RowsInOrder, BoundKidsWereValid
<1>6. ObjectsAreSigned /\ PointersAreObjects /\ PointerKeepsItsHost
  BY DEF KeysInit, ObjectsAreSigned, PointersAreObjects, PointerKeepsItsHost
<1> QED
  BY <1>3, <1>4, <1>5, <1>6 DEF CoreInv

-----------------------------------------------------------------------------
(***************************************************************************)
(* As long as nobody puts a version back, what is shown is what was        *)
(* acknowledged or what is to be acknowledged next.                        *)
(***************************************************************************)
PointerLeads == acknowledged # 0 => Shown.generation >= acknowledged

ShowsTheAcknowledged ==
  acknowledged # 0 /\ acknowledged = Requested =>
    /\ Shown = DocumentFor(acknowledged)
    /\ Versioned => rows[acknowledged].version = Len(pointers)

Leading == PointerLeads /\ ShowsTheAcknowledged

\* An acknowledged row is bound, and something is shown.
LEMMA Acknowledged ==
  ASSUME CoreInv, acknowledged # 0
  PROVE  /\ acknowledged \in DOMAIN rows /\ acknowledged \in Nat /\ Bound(acknowledged)
         /\ rows[acknowledged].state = "ACKNOWLEDGED" /\ acknowledged <= Requested
         /\ Requested \in Nat /\ DOMAIN rows = 1 .. Requested
         /\ Shown # Nothing /\ Shown \in Documents /\ Shown.generation \in DOMAIN rows
         /\ Shown.generation \in Nat /\ Shown.generation <= Requested
<1>1. /\ DOMAIN rows = 1 .. Requested /\ Requested \in Nat /\ acknowledged \in 0 .. Requested
  BY SeqTyped DEF CoreInv, KeysTyped, Requested
<1>2. acknowledged \in DOMAIN rows
  BY <1>1
<1>3. Bound(acknowledged) /\ rows[acknowledged].state = "ACKNOWLEDGED" /\ pointers # <<>>
  BY <1>2 DEF CoreInv, RowsInOrder, VersionInOrder
<1>4. /\ Shown # Nothing /\ Shown \in Documents /\ Len(pointers) \in DOMAIN pointers
      /\ Shown = pointers[Len(pointers)]
  BY <1>3, ShownTyped DEF CoreInv
<1>5. Shown.generation \in Generations /\ objects[Shown.generation] = Shown
  BY <1>4 DEF CoreInv, PointersAreObjects, Documents
<1>6. Shown.generation \in DOMAIN rows
  BY <1>4, <1>5 DEF CoreInv, ObjectsAreSigned, Bound
<1> QED
  BY <1>1, <1>2, <1>3, <1>4, <1>6

\* A document on the pointer is the document of its generation.
LEMMA ShownIsSigned ==
  ASSUME CoreInv, Shown # Nothing
  PROVE  /\ Shown \in Documents /\ Shown.generation \in DOMAIN rows
         /\ Bound(Shown.generation) /\ Shown = DocumentFor(Shown.generation)
<1>1. /\ Shown \in Documents /\ Len(pointers) \in DOMAIN pointers
      /\ Shown = pointers[Len(pointers)]
  BY ShownTyped DEF CoreInv
<1>2. Shown.generation \in Generations /\ objects[Shown.generation] = Shown
  BY <1>1 DEF CoreInv, PointersAreObjects, Documents
<1> QED
  BY <1>1, <1>2 DEF CoreInv, ObjectsAreSigned, Bound

LEMMA LeadingWhenSameFront ==
  ASSUME CoreInv, CoreInv', CoreGrows, Leading, pointers' = pointers,
         acknowledged' = acknowledged, Len(rows') = Len(rows),
         \A g \in DOMAIN rows : rows[g].state = "ACKNOWLEDGED" =>
           rows'[g].version = rows[g].version
  PROVE  Leading'
<1>1. Shown' = Shown /\ Requested' = Requested
  BY DEF Shown, Requested
<1>2. CASE acknowledged = 0
  BY <1>2 DEF Leading, PointerLeads, ShowsTheAcknowledged
<1>3. CASE acknowledged # 0
  <2>1. Bound(acknowledged) /\ acknowledged \in DOMAIN rows
        /\ rows[acknowledged].state = "ACKNOWLEDGED"
    BY <1>3, Acknowledged
  <2>2. DocumentFor(acknowledged)' = DocumentFor(acknowledged)
    BY <2>1, DocumentStays DEF CoreInv, CoreGrows, DocumentFor
  <2>3. rows'[acknowledged].version = rows[acknowledged].version
    BY <2>1
  <2> QED
    BY <1>1, <2>2, <2>3 DEF Leading, PointerLeads, ShowsTheAcknowledged
<1> QED
  BY <1>2, <1>3

LEMMA LeadingAfterPut ==
  ASSUME CoreInv, CoreInv', CoreGrows, Leading, NEW w \in Workers, PutPointer(w)
  PROVE  Leading'
<1>0. PICK g : g = applying[w].generation
  OBVIOUS
<1>1. /\ UNCHANGED <<rows, acknowledged>> /\ At(w, "put")
      /\ \/ pointers' = pointers
         \/ Shown = applying[w].prior /\ pointers' = Append(pointers, DocumentFor(g))
  BY <1>0 DEF PutPointer
<1>2. CASE pointers' = pointers
  BY <1>1, <1>2, LeadingWhenSameFront
<1>3. CASE Shown = applying[w].prior /\ pointers' = Append(pointers, DocumentFor(g))
  <2>1. /\ Bound(g) /\ g \in DOMAIN rows
        /\ Shown # Nothing => Shown.generation <= g /\ Shown # DocumentFor(g)
    BY <1>0, <1>1, <1>3 DEF CoreInv, ApplyInOrder, At, Bound
  <2>2. DocumentFor(g) \in Documents /\ g \in Nat /\ DocumentFor(g).generation = g
    BY <2>1, RowTyped DEF CoreInv, DocumentFor
  <2>3. Shown' = DocumentFor(g)
    BY <1>3, <2>2, SeqAppended DEF Shown, CoreInv, KeysTyped
  <2>4. CASE acknowledged = 0
    BY <1>1, <2>4 DEF Leading, PointerLeads, ShowsTheAcknowledged
  <2>5. CASE acknowledged # 0
    <3>1. /\ Shown # Nothing /\ Shown.generation \in Nat /\ acknowledged \in Nat
          /\ Requested \in Nat /\ DOMAIN rows = 1 .. Requested
      BY <2>5, Acknowledged
    <3>2. g >= Shown.generation /\ Shown.generation >= acknowledged
      BY <2>1, <2>5, <3>1 DEF Leading, PointerLeads
    <3>3. PointerLeads'
      BY <1>1, <2>2, <2>3, <3>1, <3>2 DEF PointerLeads
    <3>4. acknowledged # Requested
      <4>1. SUFFICES ASSUME acknowledged = Requested
                     PROVE  FALSE
        OBVIOUS
      <4>2. Shown = DocumentFor(acknowledged)
        BY <2>5, <4>1 DEF Leading, ShowsTheAcknowledged
      <4>3. g = acknowledged
        BY <2>1, <3>1, <3>2, <4>1
      <4> QED
        BY <2>1, <3>1, <4>2, <4>3
    <3>5. ShowsTheAcknowledged'
      BY <1>1, <3>4 DEF ShowsTheAcknowledged, Requested
    <3> QED
      BY <3>3, <3>5 DEF Leading
  <2> QED
    BY <2>4, <2>5
<1> QED
  BY <1>1, <1>2, <1>3

LEMMA LeadingAfterAcknowledge ==
  ASSUME CoreInv, CoreInv', CoreGrows, Leading, NEW w \in Workers, AcknowledgeRow(w)
  PROVE  Leading'
<1>0. PICK g : g = applying[w].generation
  OBVIOUS
<1>1. /\ g \in DOMAIN rows /\ Bound(g) /\ Shown = DocumentFor(g) /\ Shown \in Documents
      /\ rows'[g] = Acknowledging(rows[g], Shown, ShownVersion)
      /\ UNCHANGED pointers /\ acknowledged' = g
  BY <1>0, AcknowledgeTyped
<1>2. rows'[g].version = ShownVersion
  BY <1>1, RowTyped, ShownTyped, AcknowledgedRow, SMTT(30) DEF CoreInv
<1>3. Bound(g)' /\ DocumentFor(g)' = DocumentFor(g)
  BY <1>1, DocumentStays DEF CoreInv, CoreGrows
<1>4. Shown' = Shown /\ Shown.generation = g /\ g \in Nat
  BY <1>1, RowTyped DEF Shown, DocumentFor, CoreInv
<1>5. DocumentFor(acknowledged)' = DocumentFor(g)'
  BY <1>1 DEF DocumentFor
<1> QED
  BY <1>1, <1>2, <1>3, <1>4, <1>5
     DEF Leading, PointerLeads, ShowsTheAcknowledged, ShownVersion

LEMMA LeadingAfterRequest ==
  ASSUME CoreInv, CoreInv', CoreGrows, Leading, RequestPublication
  PROVE  Leading'
<1>1. /\ acknowledged' = acknowledged /\ pointers' = pointers /\ Len(rows') = Len(rows) + 1
      /\ Len(rows) \in Nat /\ acknowledged \in 0 .. Len(rows)
  BY SeqTyped DEF CoreInv, KeysTyped, RequestPublication, bucketOfKeys
<1>2. Shown' = Shown /\ acknowledged' # Requested'
  BY <1>1 DEF Shown, Requested
<1> QED
  BY <1>1, <1>2 DEF Leading, PointerLeads, ShowsTheAcknowledged

LEMMA LeadingStep ==
  ASSUME CoreInv, CoreInv', CoreGrows, Leading, PublishNext
  PROVE  Leading'
<1>1. CASE UNCHANGED <<rows, pointers, acknowledged>>
  BY <1>1, LeadingWhenSameFront
<1>2. ASSUME NEW w \in Workers, Apply(w)
      PROVE  Leading'
  <2>1. CASE ClaimRow(w)
    <3>1. pointers' = pointers /\ acknowledged' = acknowledged /\ DOMAIN rows' = DOMAIN rows
      BY <2>1 DEF ClaimRow, bucketOfKeys
    <3>2. Len(rows') = Len(rows)
      BY <3>1, SeqTyped DEF CoreInv, KeysTyped
    <3>3. Requested \in DOMAIN rows => rows[Requested].state = "PENDING"
      BY <2>1 DEF ClaimRow
    <3>4. ASSUME NEW g \in DOMAIN rows, rows[g].state = "ACKNOWLEDGED"
          PROVE  rows'[g].version = rows[g].version
      <4>1. g # Requested
        BY <3>3, <3>4
      <4> QED
        BY <2>1, <3>4, <4>1 DEF ClaimRow
    <3> QED
      BY <3>1, <3>2, <3>4, LeadingWhenSameFront
  <2>2. CASE WriteGeneration(w) \/ ReadPointer(w) \/ LetGo(w)
    BY <1>1, <2>2 DEF WriteGeneration, ReadPointer, LetGo, bucketOfKeys
  <2> QED
    BY <1>2, <2>1, <2>2, LeadingAfterPut, LeadingAfterAcknowledge DEF Apply
<1>3. CASE RowLeaseEnds
  <2>1. PICK k \in DOMAIN rows, state \in {"PENDING", "FAILED"} :
          rows[k].state = "LEASED" /\ rows' = [rows EXCEPT ![k].state = state, ![k].by = {}]
    BY <1>3 DEF RowLeaseEnds
  <2>2. /\ DOMAIN rows' = DOMAIN rows /\ pointers' = pointers /\ acknowledged' = acknowledged
        /\ \A g \in DOMAIN rows : g # k => rows'[g] = rows[g]
    BY <1>3, <2>1 DEF RowLeaseEnds, bucketOfKeys
  <2>3. Len(rows') = Len(rows)
    BY <2>2, SeqTyped DEF CoreInv, KeysTyped
  <2> QED
    BY <2>1, <2>2, <2>3, LeadingWhenSameFront
<1>4. CASE ClockTicks \/ (\E p \in Processes : StartWithNext(p)) \/ UNCHANGED coreVars
  BY <1>1, <1>4 DEF ClockTicks, StartWithNext, coreVars, bucketOfKeys
<1> QED
  BY <1>2, <1>3, <1>4, LeadingAfterRequest DEF PublishNext

-----------------------------------------------------------------------------
(***************************************************************************)
(* The keys: a key is accepted by all who verify, or it is gone.           *)
(***************************************************************************)
\* Nothing that counts is signed with the key, and nobody can sign with it.
KeyIsGone(k) ==
  /\ Signing(k) = {}
  /\ \A g \in DOMAIN rows : rows[g].kid = k =>
       \/ rows[g].state = "FAILED"
       \/ rows[g].state = "ACKNOWLEDGED" /\ g # acknowledged

AllAccept(k) == \A v \in Verifiers : Ring(v)[k] \in Accepted

OperatorIsRight ==
  /\ cleared \in [Kids -> SUBSET {"sign", "verify"}]
  /\ \A k \in Kids :
       /\ "verify" \in cleared[k] => KeyIsGone(k)
       /\ AllAccept(k) \/ KeyIsGone(k)

KeysIndInv == CoreInv /\ Leading /\ OperatorIsRight

\* A key that is gone stays gone, unless a worker takes it up.
LEMMA GoneStays ==
  ASSUME CoreInv, PublishNext, NEW k \in Kids, KeyIsGone(k),
         \A w \in Workers : Ring(w)'[k] \notin Accepted
  PROVE  KeyIsGone(k)'
<1>1. Signing(k)' = {}
  BY DEF Signing
<1>2. /\ \A w \in Workers : Ring(w)[k] \notin Accepted
      /\ \A g \in DOMAIN rows : rows[g].kid = k =>
           \/ rows[g].state = "FAILED"
           \/ rows[g].state = "ACKNOWLEDGED" /\ g # acknowledged
  BY DEF KeyIsGone, Signing
<1>3. SUFFICES ASSUME NEW g \in DOMAIN rows', rows'[g].kid = k
               PROVE  \/ rows'[g].state = "FAILED"
                      \/ rows'[g].state = "ACKNOWLEDGED" /\ g # acknowledged'
  BY <1>1 DEF KeyIsGone
<1>4. k # NoKid /\ KeysTyped
  BY KidsAreOrdered DEF CoreInv
<1>5. CASE UNCHANGED <<rows, acknowledged>>
  BY <1>2, <1>3, <1>5
<1>6. CASE RequestPublication
  <2>1. PICK row \in Rows : rows' = Append(rows, row) /\ row.kid = NoKid
    BY <1>4, <1>6, RequestedRow
  <2>2. /\ rows'[Len(rows) + 1] = row /\ \A h \in DOMAIN rows : rows'[h] = rows[h]
        /\ g \in DOMAIN rows \/ g = Len(rows) + 1
    BY <1>4, <2>1, SeqAppended DEF KeysTyped
  <2>3. acknowledged' = acknowledged
    BY <1>6 DEF RequestPublication
  <2> QED
    BY <1>2, <1>3, <1>4, <2>1, <2>2, <2>3
<1>7. CASE RowLeaseEnds
  <2>1. PICK h \in DOMAIN rows, state \in {"PENDING", "FAILED"} :
          rows[h].state = "LEASED" /\ rows' = [rows EXCEPT ![h].state = state, ![h].by = {}]
    BY <1>7 DEF RowLeaseEnds
  <2>2. /\ g \in DOMAIN rows /\ acknowledged' = acknowledged /\ rows'[g].kid = rows[g].kid
        /\ g # h => rows'[g] = rows[g]
    BY <1>3, <1>4, <1>7, <2>1, RowTyped DEF RowLeaseEnds, Rows
  <2>3. g # h
    BY <1>2, <1>3, <2>1, <2>2
  <2> QED
    BY <1>2, <1>3, <2>2, <2>3
<1>8. ASSUME NEW w \in Workers, ClaimRow(w)
      PROVE  \/ rows'[g].state = "FAILED"
             \/ rows'[g].state = "ACKNOWLEDGED" /\ g # acknowledged'
  <2>1. /\ g \in DOMAIN rows /\ acknowledged' = acknowledged
        /\ rows'[g] = IF g = Requested
             THEN Claimed(rows[g], w, KidFor(w, g))
             ELSE IF rows[g].state \in {"PENDING", "LEASED"}
             THEN [rows[g] EXCEPT !.state = "FAILED", !.by = {}] ELSE rows[g]
    BY <1>3, <1>8 DEF ClaimRow, Claimed
  <2>2. rows[g] \in Rows /\ KidFor(w, g) \in Kids \cup {NoKid} /\ w \in Processes
    BY <1>4, <2>1, RowTyped, KidForRow DEF Processes
  <2>3. CASE g = Requested
    <3>1. rows[g].state = "PENDING" /\ rows'[g].kid = KidFor(w, g)
      <4>1. rows[Requested].state = "PENDING"
        BY <1>8 DEF ClaimRow
      <4>2. rows'[g] = Claimed(rows[g], w, KidFor(w, g))
        BY <2>1, <2>3
      <4>3. ASSUME NEW r \in Rows, NEW l \in Kids \cup {NoKid}
            PROVE  Claimed(r, w, l).kid = l
        BY ClaimedRow
      <4> QED
        BY <2>2, <2>3, <4>1, <4>2, <4>3
    <3>2. rows[g].kid # k
      BY <1>2, <2>1, <3>1
    <3>3. KidFor(w, g) \in UsableKeys(w, rows[g].createdAt)
      BY <1>3, <1>4, <2>1, <3>1, <3>2, KidForRow
    <3> QED
      BY <1>2, <1>3, <3>1, <3>3 DEF UsableKeys
  <2>4. CASE g # Requested
    <3>1. rows'[g].kid = rows[g].kid
      BY <2>1, <2>2, <2>4 DEF Rows
    <3>2. rows[g].state = "FAILED" \/ (rows[g].state = "ACKNOWLEDGED" /\ g # acknowledged)
      BY <1>2, <1>3, <2>1, <3>1
    <3> QED
      BY <2>1, <2>4, <3>2
  <2> QED
    BY <2>3, <2>4
<1>9. ASSUME NEW w \in Workers, AcknowledgeRow(w)
      PROVE  \/ rows'[g].state = "FAILED"
             \/ rows'[g].state = "ACKNOWLEDGED" /\ g # acknowledged'
  <2>1. PICK h : h = applying[w].generation
    OBVIOUS
  <2>2. /\ h \in DOMAIN rows /\ g \in DOMAIN rows /\ rows[h].state = "LEASED"
        /\ rows'[h] = Acknowledging(rows[h], Shown, ShownVersion) /\ acknowledged' = h
        /\ Shown \in Documents
        /\ g # h => rows'[g] = rows[g]
    BY <1>3, <1>9, <2>1, AcknowledgeTyped
  <2>3. rows'[h].kid = rows[h].kid
    BY <1>4, <2>2, RowTyped, ShownTyped, AcknowledgedRow
  <2>4. g # h
    BY <1>2, <1>3, <2>2, <2>3
  <2> QED
    BY <1>2, <1>3, <2>2, <2>4
<1> QED
  BY <1>5, <1>6, <1>7, <1>8, <1>9
     DEF PublishNext, ClockTicks, Apply, WriteGeneration, ReadPointer, PutPointer, LetGo,
         StartWithNext, coreVars

\* The workers that can sign change only when one of them is restarted.
LEMMA OperatorIsRightWhenNothingStarts ==
  ASSUME KeysIndInv, PublishNext, stage' = stage, cleared' = cleared
  PROVE  OperatorIsRight'
<1>1. \A p : Ring(p)' = Ring(p)
  BY DEF Ring
<1>2. ASSUME NEW k \in Kids, KeyIsGone(k)
      PROVE  KeyIsGone(k)'
  <2>1. \A w \in Workers : Ring(w)'[k] \notin Accepted
    BY <1>1, <1>2 DEF KeyIsGone, Signing
  <2> QED
    BY <1>2, <2>1, GoneStays DEF KeysIndInv
<1>3. \A k \in Kids : AllAccept(k)' <=> AllAccept(k)
  BY <1>1 DEF AllAccept
<1> QED
  BY <1>2, <1>3 DEF KeysIndInv, OperatorIsRight

LEMMA OperatorIsRightWhenAsked ==
  ASSUME KeysIndInv, NEW k \in Kids, AssertKeyRetirable(k)
  PROVE  OperatorIsRight'
<1>1. /\ Retirable(k) /\ UNCHANGED <<rows, acknowledged, stage>>
      /\ cleared' = [cleared EXCEPT ![k] = IF Signing(k) = {} THEN {"sign", "verify"}
                                           ELSE {"sign"}]
      /\ cleared \in [Kids -> SUBSET {"sign", "verify"}]
  BY DEF AssertKeyRetirable, KeysIndInv, OperatorIsRight
<1>2. \A l \in Kids : (KeyIsGone(l)' <=> KeyIsGone(l)) /\ (AllAccept(l)' <=> AllAccept(l))
  BY <1>1 DEF KeyIsGone, AllAccept, Signing, Ring
<1>3. Signing(k) = {} => KeyIsGone(k)
  <2>1. ASSUME NEW g \in DOMAIN rows, rows[g].kid = k
        PROVE  rows[g].state = "FAILED" \/ (rows[g].state = "ACKNOWLEDGED" /\ g # acknowledged)
    <3>1. rows[g].state \in {"PENDING", "LEASED", "ACKNOWLEDGED", "FAILED"}
      BY RowTyped DEF KeysIndInv, CoreInv, Rows
    <3>2. ~InProgress(g) /\ ~(rows[g].state = "ACKNOWLEDGED" /\ acknowledged = g)
      BY <1>1, <2>1 DEF Retirable
    <3> QED
      BY <3>1, <3>2 DEF InProgress
  <2> QED
    BY <2>1 DEF KeyIsGone
<1>4. \A l \in Kids : "verify" \in cleared'[l] => KeyIsGone(l)
  BY <1>1, <1>3 DEF KeysIndInv, OperatorIsRight
<1> QED
  BY <1>1, <1>2, <1>4 DEF KeysIndInv, OperatorIsRight

LEMMA OperatorIsRightAfterStart ==
  ASSUME KeysIndInv, NEW p \in Processes, StartWithNext(p)
  PROVE  OperatorIsRight'
<1>0. PICK next : next = Rollout[stage[p] + 1]
  OBVIOUS
<1>1. /\ MayFollow(p, next)
      /\ cleared' = [k \in Kids |-> IF k \in TakenUp(p, next) THEN {} ELSE cleared[k]]
      /\ stage' = [stage EXCEPT ![p] = stage[p] + 1] /\ stage \in [Processes -> DOMAIN Rollout]
  BY <1>0 DEF StartWithNext, KeysIndInv, CoreInv, KeysTyped
<1>2. Ring(p)' = next /\ \A q \in Processes \ {p} : Ring(q)' = Ring(q)
  BY <1>0, <1>1 DEF Ring
<1>3. cleared \in [Kids -> SUBSET {"sign", "verify"}]
  BY DEF KeysIndInv, OperatorIsRight
<1>4. cleared' \in [Kids -> SUBSET {"sign", "verify"}]
  BY <1>1, <1>3
<1>5. ASSUME NEW k \in Kids
      PROVE  /\ "verify" \in cleared'[k] => KeyIsGone(k)'
             /\ AllAccept(k)' \/ KeyIsGone(k)'
  <2>1. ASSUME KeyIsGone(k), k \notin TakenUp(p, next)
        PROVE  KeyIsGone(k)'
    <3>1. \A w \in Workers : Ring(w)[k] \notin Accepted
      BY <2>1 DEF KeyIsGone, Signing
    <3>2. \A w \in Workers : Ring(w)'[k] \notin Accepted
      BY <1>2, <2>1, <3>1 DEF TakenUp, Processes
    <3>3. PublishNext
      BY DEF PublishNext
    <3> QED
      BY <2>1, <3>2, <3>3, GoneStays DEF KeysIndInv
  <2>2. CASE k \in TakenUp(p, next)
    <3>1. p \in Workers /\ AllAccept(k)
      BY <1>1, <2>2 DEF TakenUp, MayFollow, AllAccept
    <3>2. AllAccept(k)'
      BY <1>2, <3>1, ProcessesDiffer DEF AllAccept, Processes
    <3>3. cleared'[k] = {}
      BY <1>1, <2>2
    <3> QED
      BY <3>2, <3>3
  <2>3. CASE k \notin TakenUp(p, next)
    <3>1. cleared'[k] = cleared[k]
      BY <1>1, <2>3
    <3>2. "verify" \in cleared[k] => KeyIsGone(k)
      BY DEF KeysIndInv, OperatorIsRight
    <3>3. AllAccept(k) \/ KeyIsGone(k)
      BY DEF KeysIndInv, OperatorIsRight
    <3>4. ASSUME AllAccept(k), ~AllAccept(k)'
          PROVE  KeyIsGone(k)
      <4>1. p \in Verifiers /\ Ring(p)[k] \in Accepted /\ next[k] \notin Accepted
        BY <1>2, <3>4 DEF AllAccept, Processes
      <4>2. "verify" \in cleared[k]
        BY <1>1, <4>1, ProcessesDiffer DEF MayFollow
      <4> QED
        BY <3>2, <4>2
    <3> QED
      BY <2>1, <2>3, <3>1, <3>2, <3>3, <3>4
  <2> QED
    BY <2>2, <2>3
<1> QED
  BY <1>4, <1>5 DEF OperatorIsRight

LEMMA KeysStep ==
  ASSUME KeysIndInv, [KeysNext]_keysVars
  PROVE  KeysIndInv'
<1>1. PublishNext
  BY DEF KeysNext, PublishNext, AssertKeyRetirable, keysVars, coreVars, bucketOfKeys
<1>2. CoreInv' /\ CoreGrows
  BY <1>1, CoreStep, EveryStepTyped DEF KeysIndInv, CoreNext
<1>3. Leading'
  BY <1>1, <1>2, LeadingStep DEF KeysIndInv
<1>4. OperatorIsRight'
  <2>1. CASE UNCHANGED <<stage, cleared>>
    BY <1>1, <2>1, OperatorIsRightWhenNothingStarts
  <2> QED
    BY <2>1, OperatorIsRightWhenAsked, OperatorIsRightAfterStart
       DEF KeysNext, keysVars, ClockTicks, RequestPublication, RowLeaseEnds, Apply, ClaimRow,
           WriteGeneration, ReadPointer, PutPointer, AcknowledgeRow, LetGo
<1> QED
  BY <1>2, <1>3, <1>4 DEF KeysIndInv

LEMMA KeysStart ==
  ASSUME KeysInit
  PROVE  KeysIndInv
<1>1. CoreInv
  BY CoreInit
<1>2. Leading
  BY DEF KeysInit, Leading, PointerLeads, ShowsTheAcknowledged
<1>3. ASSUME NEW k \in Kids
      PROVE  AllAccept(k) \/ KeyIsGone(k)
  <2>1. \A p \in Processes : Ring(p) = Rollout[1]
    BY DEF KeysInit, Ring
  <2>2. CASE Rollout[1][k] \in Accepted
    BY <2>1, <2>2 DEF AllAccept, Processes
  <2>3. CASE Rollout[1][k] \notin Accepted
    BY <2>1, <2>3 DEF KeyIsGone, Signing, KeysInit, Processes
  <2> QED
    BY <2>2, <2>3
<1> QED
  BY <1>1, <1>2, <1>3 DEF KeysIndInv, OperatorIsRight, KeysInit

\* Whoever has to read what is shown accepts it: its key is not gone, because what is
\* shown is the acknowledged row, or one that is still to be acknowledged.
LEMMA AcceptedByAll ==
  ASSUME KeysIndInv
  PROVE  PointerIsAccepted
<1> USE DEF KeysIndInv
<1>1. PointerKeepsItsHost
  BY DEF CoreInv
<1>2. SUFFICES ASSUME Shown # Nothing, rows[Shown.generation].state # "FAILED",
                      NEW p \in Verifiers
               PROVE  Verifies(p, Shown, Shown.host)
  BY <1>1 DEF PointerIsAccepted, ShownDocumentVerifies
<1>3. PICK g : g = Shown.generation
  OBVIOUS
<1>4. /\ g \in DOMAIN rows /\ Bound(g) /\ Shown = DocumentFor(g) /\ rows[g] \in Rows
      /\ g \in Nat /\ g # 0
  BY <1>2, <1>3, ShownIsSigned, RowTyped DEF CoreInv
<1>5. PICK k \in Kids : k = rows[g].kid
  BY <1>4 DEF Rows, Bound
<1>6. /\ ValidAt(k, rows[g].createdAt)
      /\ Shown.kid = k /\ Shown.issuedAt = rows[g].createdAt
  BY <1>4, <1>5 DEF CoreInv, BoundKidsWereValid, DocumentFor
<1>7. ~KeyIsGone(k)
  <2>1. SUFFICES ASSUME rows[g].state = "ACKNOWLEDGED" /\ g # acknowledged
                 PROVE  FALSE
    BY <1>2, <1>3, <1>4, <1>5 DEF KeyIsGone
  <2>2. g <= acknowledged /\ acknowledged \in Nat
    BY <1>4, <2>1, SeqTyped DEF CoreInv, RowsInOrder, KeysTyped
  <2>3. g >= acknowledged
    BY <1>3, <1>4, <2>2 DEF Leading, PointerLeads
  <2> QED
    BY <1>4, <2>1, <2>2, <2>3
<1>8. Ring(p)[k] \in Accepted
  BY <1>7 DEF OperatorIsRight, AllAccept
<1> QED
  BY <1>6, <1>8 DEF Verifies, UsableKeys

\* The inductive invariant of the rollout.
THEOREM KeysIndInvHolds == KeysSpec => []KeysIndInv
<1>1. KeysInit => KeysIndInv
  BY KeysStart
<1>2. KeysIndInv /\ [KeysNext]_keysVars => KeysIndInv'
  BY KeysStep
<1> QED
  BY <1>1, <1>2, PTL DEF KeysSpec

\* Through every rollout of keys in which the operator asks before it takes a key away,
\* every process that verifies accepts the pointer that content is to show, and the
\* pointer never changes its host (sign, verify and assertKeyRetirable).
THEOREM RolloutKeepsThePointer == KeysSpec => []PointerIsAccepted
<1>1. KeysIndInv => PointerIsAccepted
  BY AcceptedByAll
<1> QED
  BY <1>1, KeysIndInvHolds, PTL

-----------------------------------------------------------------------------
(***************************************************************************)
(* The inspection, in its three reads.                                     *)
(***************************************************************************)
\* What the query found, whatever has happened since.
FoundInOrder(found) ==
  /\ found.served # 0 => found.pointer # Nothing
  /\ found.pointer = Nothing => \A row \in Range(found.row) : row.version = 0
  /\ \A row, other \in Range(found.row) : row = other
  /\ \A row \in Range(found.row) :
       row.version \in Nat /\ (row.state # "ACKNOWLEDGED" => row.version = 0)

\* What was shown then is a version up to this one, and not older than the one the row
\* was acknowledged with.
FoundUpTo(found, last) ==
  found.pointer # Nothing =>
    \E n \in 1 .. last :
      found.pointer = pointers[n] /\ \A row \in Range(found.row) : row.version <= n

BeforeCurrent ==
  /\ FoundInOrder(inspection.found) /\ FoundUpTo(inspection.found, Len(pointers))
  /\ moved \/ inspection.found = Snapshot

BeforeGeneration ==
  /\ FoundInOrder(inspection.found)
  /\ \/ moved
     \/ /\ inspection.found = Snapshot
        /\ inspection.document = Shown /\ inspection.version = ShownVersion /\ Shown # Nothing
  /\ IF Versioned
     THEN /\ inspection.version \in DOMAIN pointers
          /\ inspection.document = pointers[inspection.version]
          /\ FoundUpTo(inspection.found, inspection.version)
     ELSE inspection.version = 0

AnswerIsRight == NothingFoundMeansServed /\ ClaimIsProposedBeforeTheFirst /\ PublishedIsClean

InspectionInOrder ==
  /\ inspection.step \in {"idle", "readCurrent", "readGeneration", "answered"}
  /\ inspection.step = "readCurrent" => BeforeCurrent
  /\ inspection.step = "readGeneration" => BeforeGeneration
  /\ AnswerIsRight

ReconcilerIndInv ==
  /\ CoreInv /\ restores \in 0 .. MaxRestores /\ moved \in BOOLEAN
  /\ restores = 0 => Leading
  /\ InspectionInOrder

\* The query: one moment.
LEMMA QueryInOrder ==
  ASSUME CoreInv
  PROVE  FoundInOrder(Snapshot) /\ FoundUpTo(Snapshot, Len(pointers))
<1>1. PICK found : found = Snapshot
  OBVIOUS
<1>2. /\ found.served = acknowledged /\ found.pointer = Shown
      /\ found.row = IF Requested = 0 THEN <<>> ELSE <<Last(rows)>>
  BY <1>1 DEF Snapshot
<1>3. /\ Requested = Len(rows) /\ Requested \in Nat /\ DOMAIN rows = 1 .. Requested
      /\ Requested # 0 => Requested \in DOMAIN rows /\ Last(rows) = rows[Requested]
  BY SeqTyped DEF CoreInv, KeysTyped, Requested, Last
<1>4. Range(found.row) = IF Requested = 0 THEN {} ELSE {rows[Requested]}
  <2>1. CASE Requested = 0
    BY <1>2, <2>1 DEF Range
  <2>2. CASE Requested # 0
    BY <1>2, <1>3, <2>2 DEF Range
  <2> QED
    BY <2>1, <2>2
<1>5. ASSUME Requested # 0
      PROVE  /\ rows[Requested].version \in Nat
             /\ rows[Requested].state # "ACKNOWLEDGED" => rows[Requested].version = 0
             /\ rows[Requested].version # 0 => rows[Requested].version \in DOMAIN pointers
  <2>1. Requested \in DOMAIN rows /\ VersionInOrder(Requested) /\ rows[Requested] \in Rows
    BY <1>3, <1>5, RowTyped DEF CoreInv, RowsInOrder
  <2> QED
    BY <2>1 DEF VersionInOrder, Rows
<1>6. /\ pointers = <<>> <=> Shown = Nothing
      /\ Shown # Nothing =>
           Shown = pointers[Len(pointers)] /\ Len(pointers) \in 1 .. Len(pointers)
      /\ Len(pointers) \in Nat /\ DOMAIN pointers = 1 .. Len(pointers)
  BY ShownTyped DEF CoreInv
<1>7. acknowledged # 0 => Shown # Nothing
  BY Acknowledged
<1>8. FoundInOrder(found)
  BY <1>2, <1>4, <1>5, <1>6, <1>7 DEF FoundInOrder
<1>9. FoundUpTo(found, Len(pointers))
  <2>1. SUFFICES ASSUME Shown # Nothing
                 PROVE  \A row \in Range(found.row) : row.version <= Len(pointers)
    BY <1>2, <1>6 DEF FoundUpTo
  <2> QED
    BY <1>4, <1>5, <1>6
<1> QED
  BY <1>1, <1>8, <1>9

\* What the inspection knows stays right while others go on.
LEMMA InspectionStays ==
  ASSUME CoreInv, KeysTyped', CoreGrows, InspectionInOrder, restores \in Nat, moved \in BOOLEAN,
         inspection' = inspection, restores' \in {restores, restores + 1},
         \/ moved' = (inspection.step \notin {"idle", "answered"} \/ moved)
         \/ moved' = moved /\ UNCHANGED <<rows, acknowledged, pointers>>
  PROVE  InspectionInOrder' /\ moved' \in BOOLEAN
<1>1. /\ \A n \in DOMAIN pointers : n \in DOMAIN pointers' /\ pointers'[n] = pointers[n]
      /\ DOMAIN pointers = 1 .. Len(pointers) /\ DOMAIN pointers' = 1 .. Len(pointers')
      /\ Len(pointers) \in Nat /\ Len(pointers') \in Nat /\ Len(pointers) <= Len(pointers')
  BY PointersStay DEF CoreInv, CoreGrows
<1>2. ASSUME NEW found, NEW last, last = Len(pointers) \/ last \in DOMAIN pointers,
             FoundUpTo(found, last)
      PROVE  found.pointer # Nothing =>
               \E n \in 1 .. last :
                 /\ found.pointer = pointers'[n]
                 /\ \A row \in Range(found.row) : row.version <= n
  BY <1>1, <1>2 DEF FoundUpTo
<1>3. CASE inspection.step = "readCurrent"
  <2>1. BeforeCurrent
    BY <1>3 DEF InspectionInOrder
  <2>2. FoundUpTo(inspection.found, Len(pointers))'
    BY <1>1, <1>2, <2>1 DEF BeforeCurrent, FoundUpTo
  <2>3. (moved \/ inspection.found = Snapshot)'
    BY <1>3, <2>1 DEF BeforeCurrent, Snapshot, Shown, Requested, InProgress
  <2>4. FoundInOrder(inspection.found)'
    BY <2>1 DEF BeforeCurrent, FoundInOrder
  <2> QED
    BY <1>3, <2>2, <2>3, <2>4 DEF InspectionInOrder, BeforeCurrent, AnswerIsRight,
       NothingFoundMeansServed, ClaimIsProposedBeforeTheFirst, PublishedIsClean, IsAnswered
<1>4. CASE inspection.step = "readGeneration"
  <2>1. BeforeGeneration
    BY <1>4 DEF InspectionInOrder
  <2>2. FoundInOrder(inspection.found)'
    BY <2>1 DEF BeforeGeneration, FoundInOrder
  <2>3. (\/ moved
         \/ /\ inspection.found = Snapshot /\ inspection.document = Shown
            /\ inspection.version = ShownVersion /\ Shown # Nothing)'
    BY <1>4, <2>1 DEF BeforeGeneration, Snapshot, Shown, ShownVersion, Requested, InProgress
  <2>4. CASE Versioned
    <3>1. /\ inspection.version \in DOMAIN pointers'
          /\ inspection.document = pointers'[inspection.version]
      BY <1>1, <2>1, <2>4 DEF BeforeGeneration
    <3>2. FoundUpTo(inspection.found, inspection.version)'
      BY <1>1, <1>2, <2>1, <2>4 DEF BeforeGeneration, FoundUpTo
    <3> QED
      BY <1>4, <2>2, <2>3, <2>4, <3>1, <3>2 DEF InspectionInOrder, BeforeGeneration, AnswerIsRight,
         NothingFoundMeansServed, ClaimIsProposedBeforeTheFirst, PublishedIsClean, IsAnswered
  <2>5. CASE ~Versioned
    <3>1. inspection.version = 0
      BY <2>1, <2>5 DEF BeforeGeneration
    <3> QED
      BY <1>4, <2>2, <2>3, <2>5, <3>1 DEF InspectionInOrder, BeforeGeneration, AnswerIsRight,
         NothingFoundMeansServed, ClaimIsProposedBeforeTheFirst, PublishedIsClean, IsAnswered
  <2> QED
    BY <2>4, <2>5
<1>5. CASE inspection.step \in {"idle", "answered"}
  <2>1. moved' = moved /\ (restores' = 0 => restores = 0)
    BY <1>5
  <2>2. AnswerIsRight
    BY DEF InspectionInOrder
  <2>3. AnswerIsRight'
    BY <2>1, <2>2 DEF AnswerIsRight, NothingFoundMeansServed, ClaimIsProposedBeforeTheFirst,
       PublishedIsClean, IsAnswered
  <2> QED
    BY <1>5, <2>3 DEF InspectionInOrder
<1>6. inspection.step \in {"idle", "readCurrent", "readGeneration", "answered"}
  BY DEF InspectionInOrder
<1> QED
  BY <1>3, <1>4, <1>5, <1>6

\* An answer is none, a claim or a report, by its reasons.
LEMMA RepairOf ==
  ASSUME NEW found, NEW reasons
  PROVE  /\ Repair(found, reasons) = "NONE" => reasons = {}
         /\ Repair(found, reasons) = "CLAIM_PENDING" =>
              /\ \E row \in Range(found.row) : row.state = "PENDING"
              /\ reasons \subseteq SafelyClaimable
         /\ (reasons = {} /\ \A row \in Range(found.row) : row.state # "PENDING") =>
              Repair(found, reasons) = "NONE"
BY DEF Repair

LEMMA AnswerOf ==
  ASSUME NEW found, NEW document, NEW ver, NEW reasons,
         inspection' = Answered(found, document, ver, reasons)
  PROVE  /\ inspection'.step = "answered" /\ inspection'.found = found
         /\ inspection'.document = document /\ inspection'.reasons = reasons
         /\ inspection'.repair = Repair(found, reasons)
BY DEF Answered

\* An answer keeps the invariant when its reasons are right about what was found.
LEMMA AnswerInOrder ==
  ASSUME NEW found, NEW document, NEW ver, NEW reasons,
         inspection' = Answered(found, document, ver, reasons),
         reasons = {} =>
           /\ found.desired = found.served /\ found.pointer = document
           /\ document.generation = found.served,
         (/\ reasons \subseteq SafelyClaimable
          /\ \E row \in Range(found.row) : row.state = "PENDING")
           => found.pointer = Nothing /\ found.served = 0,
         (/\ ~moved /\ restores = 0 /\ Versioned /\ found.served # 0
          /\ found.desired = found.served /\ found.row[1].release # NoRelease
          /\ "OBJECT_INVALID" \notin reasons)
           => reasons = {} /\ \A row \in Range(found.row) : row.state # "PENDING",
         UNCHANGED <<restores, moved>>
  PROVE  InspectionInOrder'
<1>1. /\ inspection'.step = "answered" /\ inspection'.found = found
      /\ inspection'.document = document /\ inspection'.reasons = reasons
      /\ inspection'.repair = Repair(found, reasons)
  BY AnswerOf
<1>2. NothingFoundMeansServed'
  BY <1>1, RepairOf DEF NothingFoundMeansServed
<1>3. ClaimIsProposedBeforeTheFirst'
  BY <1>1, RepairOf DEF ClaimIsProposedBeforeTheFirst
<1>4. PublishedIsClean'
  BY <1>1, RepairOf DEF PublishedIsClean, IsAnswered
<1> QED
  BY <1>1, <1>2, <1>3, <1>4 DEF InspectionInOrder, AnswerIsRight

LEMMA QueryStep ==
  ASSUME ReconcilerIndInv, QueryDatabase
  PROVE  InspectionInOrder'
<1>1. /\ inspection' = [step |-> "readCurrent", found |-> Snapshot]
      /\ UNCHANGED <<rows, acknowledged, pointers>>
  BY DEF QueryDatabase, keysVars, bucketOfKeys
<1>2. inspection'.step = "readCurrent" /\ inspection'.found = Snapshot
  BY <1>1
<1>3. Snapshot' = Snapshot
  BY <1>1 DEF Snapshot, Shown, Requested, InProgress
<1>4. FoundInOrder(Snapshot) /\ FoundUpTo(Snapshot, Len(pointers))
  BY QueryInOrder DEF ReconcilerIndInv
<1>5. BeforeCurrent'
  BY <1>1, <1>2, <1>3, <1>4 DEF BeforeCurrent, FoundInOrder, FoundUpTo
<1>6. AnswerIsRight'
  BY <1>2 DEF AnswerIsRight, NothingFoundMeansServed, ClaimIsProposedBeforeTheFirst,
     PublishedIsClean, IsAnswered
<1> QED
  BY <1>2, <1>5, <1>6 DEF InspectionInOrder

LEMMA ForgetStep ==
  ASSUME Forget
  PROVE  InspectionInOrder'
<1>1. inspection'.step = "idle"
  BY DEF Forget, NotInspecting
<1> QED
  BY <1>1 DEF InspectionInOrder, AnswerIsRight, NothingFoundMeansServed,
     ClaimIsProposedBeforeTheFirst, PublishedIsClean, IsAnswered

LEMMA CurrentStep ==
  ASSUME ReconcilerIndInv, ReadCurrentObject
  PROVE  InspectionInOrder'
<1>0. PICK found : found = inspection.found
  OBVIOUS
<1>1. /\ BeforeCurrent /\ UNCHANGED <<rows, acknowledged, pointers, restores, moved>>
      /\ CoreInv
  BY DEF ReconcilerIndInv, InspectionInOrder, ReadCurrentObject, keysVars, bucketOfKeys
<1>2. FoundInOrder(found) /\ FoundUpTo(found, Len(pointers)) /\ (moved \/ found = Snapshot)
  BY <1>0, <1>1 DEF BeforeCurrent
<1>3. CASE Shown = Nothing
  <2> DEFINE reasons == {"OBJECT_MISSING"} \cup GenerationReasons(found, 0)
  <2>1. inspection' = Answered(found, Nothing, 0, reasons)
    BY <1>0, <1>3 DEF ReadCurrentObject
  <2>2. reasons # {}
    OBVIOUS
  <2>3. found.pointer = Nothing /\ found.served = 0
    <3>1. pointers = <<>>
      BY <1>1, <1>3, ShownTyped DEF CoreInv
    <3>2. Len(pointers) = 0
      BY <3>1
    <3> QED
      BY <1>2, <3>2 DEF FoundUpTo, FoundInOrder
  <2> HIDE DEF reasons
  <2> QED
    BY <1>1, <2>1, <2>2, <2>3, AnswerInOrder
<1>4. CASE Shown # Nothing
  <2>1. inspection' = [step |-> "readGeneration", found |-> found, document |-> Shown,
                       version |-> ShownVersion]
    BY <1>0, <1>4 DEF ReadCurrentObject
  <2>2. /\ inspection'.step = "readGeneration" /\ inspection'.found = found
        /\ inspection'.document = Shown /\ inspection'.version = ShownVersion
    BY <2>1
  <2>3. Snapshot' = Snapshot /\ Shown' = Shown /\ ShownVersion' = ShownVersion
    BY <1>1 DEF Snapshot, Shown, ShownVersion, Requested, InProgress
  <2>4. /\ Len(pointers) \in DOMAIN pointers /\ Shown = pointers[Len(pointers)]
        /\ ShownVersion = IF Versioned THEN Len(pointers) ELSE 0
    BY <1>1, <1>4, ShownTyped DEF CoreInv, ShownVersion
  <2>5. FoundInOrder(found)' /\ FoundUpTo(found, Len(pointers))'
    BY <1>1, <1>2 DEF FoundInOrder, FoundUpTo
  <2>6. FoundInOrder(inspection.found)'
    BY <2>2, <2>5 DEF FoundInOrder
  <2>7. Versioned => FoundUpTo(inspection.found, inspection.version)'
    BY <1>1, <2>2, <2>4, <2>5 DEF FoundUpTo
  <2>8. BeforeGeneration'
    BY <1>1, <1>2, <1>4, <2>2, <2>3, <2>4, <2>6, <2>7 DEF BeforeGeneration
  <2>9. AnswerIsRight'
    BY <2>2 DEF AnswerIsRight, NothingFoundMeansServed, ClaimIsProposedBeforeTheFirst,
       PublishedIsClean, IsAnswered
  <2> QED
    BY <2>2, <2>8, <2>9 DEF InspectionInOrder
<1> QED
  BY <1>3, <1>4

\* Nothing contradicts a pointer that shows the newest row, acknowledged and served.
LEMMA CleanWhenServed ==
  ASSUME CoreInv, Leading, Versioned, acknowledged # 0, acknowledged = Requested,
         rows[Requested].release # NoRelease,
         NEW host, "OBJECT_INVALID" \notin
           ObjectReasons(Snapshot, Shown, ShownVersion, objects[Shown.generation], host)
  PROVE  /\ ObjectReasons(Snapshot, Shown, ShownVersion, objects[Shown.generation], host) = {}
         /\ Verifies(Inspector, Shown, host)
         /\ GenerationReasons(Snapshot, Shown.generation) = {}
         /\ \A row \in Range(Snapshot.row) : row.state # "PENDING"
<1>0. PICK found : found = Snapshot
  OBVIOUS
<1>00. PICK g : g = acknowledged
  OBVIOUS
<1>1. /\ g \in DOMAIN rows /\ g \in Nat /\ g # 0 /\ Bound(g) /\ rows[g].state = "ACKNOWLEDGED"
      /\ Shown # Nothing /\ Shown = DocumentFor(g) /\ rows[g].version = Len(pointers)
  BY <1>00, Acknowledged DEF Leading, ShowsTheAcknowledged
<1>2. /\ found.desired = g /\ found.served = g
      /\ found.desiredRelease = rows[g].release /\ found.servedRelease = rows[g].release
      /\ found.row = <<rows[g]>>
      /\ ~found.superseded
  <2>1. Last(rows) = rows[g]
    BY <1>00 DEF Requested, Last
  <2>2. \A h \in 1 .. g - 1 : ~InProgress(h)
    BY <1>1 DEF CoreInv, RowsInOrder
  <2>3. /\ found.desired = Requested /\ found.served = acknowledged
        /\ found.desiredRelease = IF Requested = 0 THEN NoRelease ELSE rows[Requested].release
        /\ found.servedRelease =
             IF acknowledged = 0 THEN NoRelease ELSE rows[acknowledged].release
        /\ found.row = IF Requested = 0 THEN <<>> ELSE <<Last(rows)>>
        /\ found.superseded = \E h \in 1 .. Requested - 1 : InProgress(h)
    BY <1>0 DEF Snapshot
  <2> QED
    BY <1>00, <1>1, <2>1, <2>2, <2>3
<1>3. Range(found.row) = {rows[g]}
  BY <1>2 DEF Range
<1>4. /\ Shown.generation = g /\ Shown.release = rows[g].release /\ Shown.host = rows[g].host
      /\ Shown.kid = rows[g].kid
  BY <1>1 DEF DocumentFor
<1>5. /\ objects[Shown.generation] = Shown /\ Len(pointers) # 0 /\ ShownVersion = Len(pointers)
  <2>1. /\ Shown = pointers[Len(pointers)] /\ Len(pointers) \in DOMAIN pointers
        /\ DOMAIN pointers = 1 .. Len(pointers) /\ Len(pointers) \in Nat
    BY <1>1, ShownTyped DEF CoreInv
  <2> QED
    BY <2>1 DEF CoreInv, PointersAreObjects, ShownVersion
<1>6. rows[g].projection = Shown
  BY <1>1 DEF CoreInv, RowsInOrder, VersionInOrder
<1>7. Verifies(Inspector, Shown, host)
  BY DEF ObjectReasons
<1>8. RowReasons(found, Shown) = {}
  BY <1>1, <1>2, <1>3, <1>4, <1>6 DEF RowReasons
<1>9. VersionReasons(found, ShownVersion) = {}
  BY <1>1, <1>3, <1>5 DEF VersionReasons
<1>10. ~ReleaseDiffers(Shown, found.desiredRelease)
  BY <1>00, <1>2, <1>4 DEF ReleaseDiffers
<1>11. ObjectReasons(found, Shown, ShownVersion, objects[Shown.generation], host) = {}
  BY <1>5, <1>7, <1>8, <1>9, <1>10 DEF ObjectReasons
<1>12. GenerationReasons(found, Shown.generation) = {}
  BY <1>1, <1>2, <1>4 DEF GenerationReasons
<1> QED
  BY <1>0, <1>1, <1>3, <1>7, <1>11, <1>12

LEMMA GenerationStep ==
  ASSUME ReconcilerIndInv, ReadGenerationObject
  PROVE  InspectionInOrder'
<1>0. PICK found, document, ver :
        found = inspection.found /\ document = inspection.document /\ ver = inspection.version
  OBVIOUS
<1>1. /\ BeforeGeneration /\ UNCHANGED <<rows, acknowledged, pointers, restores, moved>>
      /\ CoreInv /\ (restores = 0 => Leading)
  BY DEF ReconcilerIndInv, InspectionInOrder, ReadGenerationObject, keysVars, bucketOfKeys
<1>2. /\ FoundInOrder(found)
      /\ moved \/ (found = Snapshot /\ document = Shown /\ ver = ShownVersion)
      /\ IF Versioned
         THEN /\ ver \in DOMAIN pointers /\ document = pointers[ver]
              /\ FoundUpTo(found, ver)
         ELSE ver = 0
  BY <1>0, <1>1 DEF BeforeGeneration
<1>3. PICK host, valid, objectReasons, generationReasons :
        /\ host \in Hosts /\ valid \in BOOLEAN
        /\ valid = Verifies(Inspector, document, host)
        /\ objectReasons =
             ObjectReasons(found, document, ver, objects[document.generation], host)
        /\ generationReasons = GenerationReasons(found, IF valid THEN document.generation ELSE 0)
        /\ inspection' = Answered(found, document, ver, objectReasons \cup generationReasons)
  <2>1. PICK host \in Hosts :
          inspection' = Answered(found, document, ver,
            ObjectReasons(found, document, ver, objects[document.generation], host)
              \cup GenerationReasons(found,
                     IF Verifies(Inspector, document, host) THEN document.generation ELSE 0))
    BY <1>0 DEF ReadGenerationObject
  <2>2. Verifies(Inspector, document, host) \in BOOLEAN
    BY DEF Verifies
  <2> QED
    BY <2>1, <2>2
<1> DEFINE reasons == objectReasons \cup generationReasons
<1>4. ~valid => "OBJECT_INVALID" \in reasons
  BY <1>3 DEF ObjectReasons
<1>5. valid => VersionReasons(found, ver) \subseteq reasons
  BY <1>3 DEF ObjectReasons
<1>6. \A row, other \in Range(found.row) : row = other
  BY <1>2 DEF FoundInOrder
<1>7. ASSUME reasons = {}
      PROVE  /\ found.desired = found.served /\ found.pointer = document
             /\ document.generation = found.served
  <2>1. valid /\ VersionReasons(found, ver) = {}
    BY <1>4, <1>5, <1>7
  <2>2. ver # 0 /\ \E row \in Range(found.row) : row.version = ver
    BY <2>1 DEF VersionReasons
  <2>3. PICK row \in Range(found.row) : row.version = ver
    BY <2>2
  <2>4. Versioned
    BY <1>2, <2>2
  <2>5. found.pointer # Nothing
    BY <1>2, <2>2, <2>3 DEF FoundInOrder
  <2>6. PICK n \in 1 .. ver : found.pointer = pointers[n] /\ row.version <= n
    BY <1>2, <2>3, <2>4, <2>5 DEF FoundUpTo
  <2>7. n = ver
    <3>1. ver \in Nat
      BY <1>2, <2>3 DEF FoundInOrder
    <3> QED
      BY <2>3, <2>6, <3>1
  <2>8. found.pointer = document
    BY <1>2, <2>4, <2>6, <2>7
  <2>9. GenerationReasons(found, document.generation) = {}
    BY <1>3, <1>7, <2>1
  <2> QED
    BY <2>8, <2>9 DEF GenerationReasons
<1>8. ASSUME reasons \subseteq SafelyClaimable,
             \E row \in Range(found.row) : row.state = "PENDING"
      PROVE  FALSE
  <2>1. valid
    BY <1>4, <1>8 DEF SafelyClaimable
  <2>2. \A row \in Range(found.row) : row.version = 0
    BY <1>2, <1>6, <1>8 DEF FoundInOrder
  <2>3. "VERSION_HISTORY_UNATTESTABLE" \in VersionReasons(found, ver)
    BY <2>2 DEF VersionReasons
  <2> QED
    BY <1>5, <1>8, <2>1, <2>3 DEF SafelyClaimable
<1>9. ASSUME ~moved, restores = 0, Versioned, found.served # 0, found.desired = found.served,
             found.row[1].release # NoRelease, "OBJECT_INVALID" \notin reasons
      PROVE  reasons = {} /\ \A row \in Range(found.row) : row.state # "PENDING"
  <2>1. found = Snapshot /\ document = Shown /\ ver = ShownVersion /\ Leading
    BY <1>1, <1>2, <1>9
  <2>2. acknowledged # 0 /\ acknowledged = Requested /\ rows[Requested].release # NoRelease
    <3>1. /\ found.served = acknowledged /\ found.desired = Requested
          /\ found.row = IF Requested = 0 THEN <<>> ELSE <<Last(rows)>>
      BY <2>1 DEF Snapshot
    <3>2. acknowledged # 0 /\ acknowledged = Requested
      BY <1>9, <3>1
    <3>3. found.row[1] = rows[Requested]
      BY <3>1, <3>2 DEF Last, Requested
    <3> QED
      BY <1>9, <3>2, <3>3
  <2>3. /\ "OBJECT_INVALID" \notin
             ObjectReasons(Snapshot, Shown, ShownVersion, objects[Shown.generation], host)
    BY <1>3, <1>9, <2>1
  <2>4. /\ ObjectReasons(Snapshot, Shown, ShownVersion, objects[Shown.generation], host) = {}
        /\ Verifies(Inspector, Shown, host)
        /\ GenerationReasons(Snapshot, Shown.generation) = {}
        /\ \A row \in Range(Snapshot.row) : row.state # "PENDING"
    BY <1>1, <1>9, <2>1, <2>2, <2>3, CleanWhenServed
  <2> QED
    BY <1>3, <2>1, <2>4
<1> HIDE DEF reasons
<1>10. inspection' = Answered(found, document, ver, reasons)
  BY <1>3 DEF reasons
<1> QED
  BY <1>1, <1>7, <1>8, <1>9, <1>10, AnswerInOrder

LEMMA GenerationFailsStep ==
  ASSUME ReconcilerIndInv, GenerationReadFails
  PROVE  InspectionInOrder'
<1>0. PICK found, document, ver :
        found = inspection.found /\ document = inspection.document /\ ver = inspection.version
  OBVIOUS
<1>1. UNCHANGED <<restores, moved>>
  BY DEF GenerationReadFails
<1>2. PICK reasons :
        /\ inspection' = Answered(found, document, ver, reasons)
        /\ "OBJECT_INVALID" \in reasons
  BY <1>0 DEF GenerationReadFails
<1>3. ~(reasons \subseteq SafelyClaimable) /\ reasons # {}
  BY <1>2 DEF SafelyClaimable
<1> QED
  BY <1>1, <1>2, <1>3, AnswerInOrder

\* Everybody else, while the inspection waits.
LEMMA OthersStep ==
  ASSUME ReconcilerIndInv, inspection' = inspection, restores' \in 0 .. MaxRestores,
         \/ PublishNext /\ restores' = restores
         \/ PutsBack /\ restores' = restores + 1,
         \/ moved' = (inspection.step \notin {"idle", "answered"} \/ moved)
         \/ moved' = moved /\ UNCHANGED <<rows, acknowledged, pointers>>
  PROVE  ReconcilerIndInv'
<1> USE DEF ReconcilerIndInv
<1>1. CoreInv' /\ CoreGrows /\ KeysTyped'
  BY CoreStep, EveryStepTyped DEF CoreNext, CoreInv
<1>2. restores \in Nat
  BY InspectorVerifies
<1>3. InspectionInOrder' /\ moved' \in BOOLEAN
  BY <1>1, <1>2, InspectionStays
<1>4. ASSUME restores' = 0
      PROVE  Leading'
  <2>1. restores = 0 /\ PublishNext
    BY <1>2, <1>4
  <2> QED
    BY <1>1, <2>1, LeadingStep
<1> QED
  BY <1>1, <1>3, <1>4

\* A step of the inspection itself touches neither the database nor the bucket.
LEMMA InspectionStep ==
  ASSUME ReconcilerIndInv, InspectionInOrder', UNCHANGED <<keysVars, restores>>,
         moved' \in BOOLEAN
  PROVE  ReconcilerIndInv'
<1>1. UNCHANGED coreVars
  BY DEF keysVars, bucketOfKeys, coreVars
<1>2. CoreInv' /\ CoreGrows
  BY <1>1, CoreStep, EveryStepTyped DEF CoreNext, PublishNext, ReconcilerIndInv
<1>3. restores = 0 => Leading'
  BY <1>1, <1>2, LeadingStep DEF PublishNext, ReconcilerIndInv
<1> QED
  BY <1>2, <1>3 DEF ReconcilerIndInv

LEMMA ReconcilerStep ==
  ASSUME ReconcilerIndInv, [ReconcilerNext]_reconcilerVars
  PROVE  ReconcilerIndInv'
<1>1. restores \in Nat /\ restores \in 0 .. MaxRestores /\ MaxRestores \in Nat /\ moved \in BOOLEAN
  BY InspectorVerifies DEF ReconcilerIndInv
<1>2. CASE \/ QueryDatabase \/ ReadCurrentObject \/ ReadGenerationObject
           \/ GenerationReadFails \/ Forget
  <2>1. UNCHANGED <<keysVars, restores>> /\ moved' \in BOOLEAN
    BY <1>1, <1>2
       DEF QueryDatabase, ReadCurrentObject, ReadGenerationObject, GenerationReadFails, Forget
  <2>2. InspectionInOrder'
    BY <1>2, QueryStep, CurrentStep, GenerationStep, GenerationFailsStep, ForgetStep
  <2> QED
    BY <2>1, <2>2, InspectionStep
<1>3. CASE Publishing /\ UNCHANGED <<restores, inspection>>
           /\ moved' = (inspection.step \notin {"idle", "answered"} \/ moved)
  <2>1. PublishNext
    BY <1>3 DEF Publishing, PublishNext
  <2> QED
    BY <1>1, <1>3, <2>1, OthersStep
<1>4. CASE PutBack /\ UNCHANGED inspection
           /\ moved' = (inspection.step \notin {"idle", "answered"} \/ moved)
  <2>1. PutsBack /\ restores' = restores + 1 /\ restores < MaxRestores
    BY <1>4 DEF PutBack, PutsBack
  <2>2. restores' \in 0 .. MaxRestores
    BY <1>1, <2>1
  <2> QED
    BY <1>4, <2>1, <2>2, OthersStep
<1>5. CASE UNCHANGED reconcilerVars
  <2>1. PublishNext /\ inspection' = inspection /\ restores' = restores
        /\ moved' = moved /\ UNCHANGED <<rows, acknowledged, pointers>>
    BY <1>5 DEF reconcilerVars, keysVars, bucketOfKeys, PublishNext, coreVars
  <2> QED
    BY <1>1, <2>1, OthersStep
<1> QED
  BY <1>2, <1>3, <1>4, <1>5 DEF ReconcilerNext

\* The inductive invariant of the inspection among workers and an operator.
THEOREM ReconcilerIndInvHolds == ReconcilerSpec => []ReconcilerIndInv
<1>1. ReconcilerInit => ReconcilerIndInv
  <2> SUFFICES ASSUME ReconcilerInit
               PROVE  ReconcilerIndInv
    OBVIOUS
  <2>1. KeysInit /\ inspection.step = "idle"
    BY DEF ReconcilerInit, NotInspecting
  <2>2. restores \in 0 .. MaxRestores
    BY InspectorVerifies DEF ReconcilerInit
  <2>3. moved \in BOOLEAN
    BY Zenon DEF ReconcilerInit
  <2>4. CoreInv /\ Leading
    BY <2>1, KeysStart DEF KeysIndInv
  <2>5. InspectionInOrder
    BY <2>1 DEF InspectionInOrder, AnswerIsRight, NothingFoundMeansServed,
       ClaimIsProposedBeforeTheFirst, PublishedIsClean, IsAnswered
  <2> QED
    BY <2>2, <2>3, <2>4, <2>5, Zenon DEF ReconcilerIndInv
<1>2. ReconcilerIndInv /\ [ReconcilerNext]_reconcilerVars => ReconcilerIndInv'
  BY ReconcilerStep
<1> QED
  BY <1>1, <1>2, PTL DEF ReconcilerSpec

\* The types that the runs check.
LEMMA ReconcilerIsTyped ==
  ASSUME ReconcilerIndInv
  PROVE  ReconcilerTypeOK
<1>1. KeysTyped /\ PointersAreObjects
  BY DEF ReconcilerIndInv, CoreInv
<1>2. /\ Requested \in Nat /\ Requested <= MaxGeneration /\ acknowledged \in 0 .. Requested
      /\ \A g \in DOMAIN rows : rows[g] \in Rows
  BY <1>1, SeqTyped DEF KeysTyped, Requested
<1>3. \A n \in DOMAIN pointers :
        pointers[n] \in Documents /\ pointers[n] = objects[pointers[n].generation]
  BY <1>1, ShownTyped DEF PointersAreObjects
<1>4. KeysTypeOK
  BY <1>1, <1>2, <1>3 DEF KeysTypeOK, KeysTyped
<1> QED
  BY <1>4 DEF ReconcilerIndInv, ReconcilerTypeOK

\* An inspection means what it says, of whatever moments its three reads were: NONE only
\* when everything was acknowledged and shown, CLAIM_PENDING only when nothing was ever
\* shown, and no reason is found where there is none (V2ProjectionReconciler.inspect).
THEOREM InspectionsMeanWhatTheySay == ReconcilerSpec => []InspectionIsRight
<1>1. ReconcilerIndInv => InspectionIsRight
  BY ReconcilerIsTyped DEF ReconcilerIndInv, InspectionInOrder, AnswerIsRight, InspectionIsRight
<1> QED
  BY <1>1, ReconcilerIndInvHolds, PTL

-----------------------------------------------------------------------------
(***************************************************************************)
(* Migrations: what the locks and guards of a down keep away.              *)
(***************************************************************************)
\* Types, without what foreign keys keep.
Shape ==
  /\ version \in Oldest .. Newest
  /\ down \in {"idle", "locked", "passed"}
  /\ down # "idle" => version \in Versions3To8
  /\ kinds \subseteq Kinds
  /\ writing \in [Writers -> SUBSET Kinds]

\* Nobody writes what a down has locked, and what its guard let pass stays away.
LocksHold == down # "idle" => Locked \cap Busy = {}
GuardHolds == down = "passed" => Down[version].refuses \cap kinds = {}

\* A record that is completed late comes with the event of its publication, and both
\* only while migration 08 is applied.
LateWith(k) == "lateRecord" \in k => "publicationEvent" \in k
LateRecordsAreTold ==
  /\ LateWith(kinds) /\ \A w \in Writers : LateWith(writing[w])
  /\ version < 8 => /\ "publicationEvent" \notin kinds
                    /\ \A w \in Writers : "publicationEvent" \notin writing[w]

MigrationsInv == Shape /\ LocksHold /\ GuardHolds /\ LateRecordsAreTold

-----------------------------------------------------------------------------
\* Of every down: its guard asks for all rows that it loses, and its locks are on
\* their tables; only 08 puts back a constraint that rows may contradict.
LEMMA DownAsksForAll ==
  ASSUME NEW v \in Versions3To8
  PROVE  /\ Down[v].loses \subseteq Down[v].refuses
         /\ Down[v].refuses \subseteq Kinds
         /\ \A k \in Down[v].refuses : TableOf[k] \in Down[v].locks
         /\ v # 8 => Down[v].admitsNot = {}
<1> USE DEF TableOf, Kinds
<1>1. CASE v = 3
  BY <1>1 DEF Down, Down03, Versions3To8, Oldest, Newest
<1>2. CASE v = 4
  BY <1>2 DEF Down, Down04, Rows04, Versions3To8, Oldest, Newest
<1>3. CASE v = 5
  BY <1>3 DEF Down, Down05, Versions3To8, Oldest, Newest
<1>4. CASE v = 6
  BY <1>4 DEF Down, Down06, Versions3To8, Oldest, Newest
<1>5. CASE v = 7
  BY <1>5 DEF Down, Down07, Versions3To8, Oldest, Newest
<1>6. CASE v = 8
  BY <1>6 DEF Down, Down08, Versions3To8, Oldest, Newest
<1> QED
  BY <1>1, <1>2, <1>3, <1>4, <1>5, <1>6 DEF Versions3To8, Oldest, Newest

\* The down of 08 asks for the events of publications, with which its late records come.
LEMMA LateOnly08 ==
  /\ Down[8].admitsNot = {"lateRecord", "publicationEvent"}
  /\ "publicationEvent" \in Down[8].refuses
BY DEF Down, Down08, Versions3To8, Oldest, Newest

\* What a transaction may have in hand is made of known kinds, and a record that is
\* late of a publication that has its event.
LEMMA InsertsAreTold ==
  ASSUME MigrationsInv, NEW written \in Inserts
  PROVE  /\ written \subseteq Kinds
         /\ LateWith(written)
         /\ version < 8 => "publicationEvent" \notin written
<1>1. written \subseteq Kinds
  BY DEF Inserts, Kinds, TableOf
<1>2. LateWith(written)
  BY DEF Inserts, LateWith
<1>3. version < 8 => "publicationEvent" \notin written
  <2> SUFFICES ASSUME version < 8 PROVE "publicationEvent" \notin written
    OBVIOUS
  <2>1. ~(version >= 8)
    BY DEF MigrationsInv, Shape, Oldest, Newest
  <2> QED
    BY <2>1 DEF Inserts
<1> QED
  BY <1>1, <1>2, <1>3

\* Nothing is written, and no down is under way.
LEMMA MigrationsInitInv == MigrationsInit => MigrationsInv
BY DEF MigrationsInit, MigrationsInv, Shape, LocksHold, GuardHolds, LateRecordsAreTold,
       LateWith, Oldest, Newest

-----------------------------------------------------------------------------
\* Transactions write what nobody has locked.
LEMMA InsertInv ==
  ASSUME MigrationsInv, NEW w \in Writers, Insert(w)
  PROVE  MigrationsInv'
<1>1. PICK written \in Inserts :
        /\ \A k \in written : TableOf[k] \notin Locked
        /\ writing' = [writing EXCEPT ![w] = written]
  BY DEF Insert
<1>2. UNCHANGED <<version, kinds, inForce, down>>
  BY DEF Insert
<1>3. writing \in [Writers -> SUBSET Kinds]
  BY DEF MigrationsInv, Shape
<1>4. \A x \in Writers : writing'[x] = IF x = w THEN written ELSE writing[x]
  BY <1>1, <1>3
<1>5. Shape'
  BY <1>1, <1>2, InsertsAreTold DEF MigrationsInv, Shape
<1>6. LocksHold'
  <2> SUFFICES ASSUME down # "idle", NEW x \in Writers, NEW k \in writing'[x],
                      TableOf[k] \in Locked
               PROVE  FALSE
    BY <1>2, <1>4 DEF LocksHold, Locked, Busy
  <2>1. CASE x = w
    BY <1>1, <1>4, <2>1
  <2>2. CASE x # w
    BY <1>4, <2>2 DEF MigrationsInv, LocksHold, Busy
  <2> QED
    BY <2>1, <2>2
<1>7. GuardHolds'
  BY <1>2 DEF MigrationsInv, GuardHolds
<1>8. LateRecordsAreTold'
  BY <1>1, <1>2, <1>4, InsertsAreTold DEF MigrationsInv, LateRecordsAreTold, LateWith
<1> QED
  BY <1>5, <1>6, <1>7, <1>8 DEF MigrationsInv

\* A transaction ends: what it wrote is there, or nothing is.
LEMMA EndInv ==
  ASSUME MigrationsInv, NEW w \in Writers, Commit(w) \/ RollBack(w)
  PROVE  MigrationsInv'
<1>1. /\ writing' = [writing EXCEPT ![w] = {}]
      /\ UNCHANGED <<version, inForce, down>>
      /\ kinds' \in {kinds, kinds \cup writing[w]}
  BY DEF Commit, RollBack
<1>2. writing \in [Writers -> SUBSET Kinds]
  BY DEF MigrationsInv, Shape
<1>3. \A x \in Writers : writing'[x] = IF x = w THEN {} ELSE writing[x]
  BY <1>1, <1>2
<1>4. Shape'
  BY <1>1, <1>2 DEF MigrationsInv, Shape
<1>5. LocksHold'
  BY <1>1, <1>3 DEF MigrationsInv, LocksHold, Locked, Busy
<1>6. GuardHolds'
  <2> SUFFICES ASSUME down = "passed", NEW k \in Down[version].refuses, k \in kinds'
               PROVE  FALSE
    BY <1>1 DEF GuardHolds
  <2>1. version \in Versions3To8
    BY DEF MigrationsInv, Shape
  <2>2. TableOf[k] \in Locked
    BY <2>1, DownAsksForAll DEF Locked
  <2>3. k \notin writing[w]
    BY <2>2 DEF MigrationsInv, LocksHold, Busy
  <2> QED
    BY <1>1, <2>3 DEF MigrationsInv, GuardHolds
<1>7. LateRecordsAreTold'
  BY <1>1, <1>3 DEF MigrationsInv, LateRecordsAreTold, LateWith
<1> QED
  BY <1>4, <1>5, <1>6, <1>7 DEF MigrationsInv

\* Events stay, whatever else goes.
LEMMA DeleteInv ==
  ASSUME MigrationsInv, NEW kind \in Kinds, Delete(kind)
  PROVE  MigrationsInv'
<1>1. kinds' \subseteq kinds /\ UNCHANGED <<version, writing, inForce, down>>
  BY DEF Delete
<1>2. "publicationEvent" \in kinds => "publicationEvent" \in kinds'
  BY DEF Delete, MayGo, Deletable, Cascading
<1> QED
  BY <1>1, <1>2 DEF MigrationsInv, Shape, LocksHold, Locked, Busy, GuardHolds,
     LateRecordsAreTold, LateWith

\* A down locks, looks and refuses, or passes its guard.
LEMMA DownInv ==
  ASSUME MigrationsInv, LockTables \/ RefuseRetained \/ PassGuard
  PROVE  MigrationsInv'
<1>1. UNCHANGED <<version, kinds, writing, inForce>>
  BY DEF LockTables, RefuseRetained, PassGuard
<1>2. LateRecordsAreTold'
  BY <1>1 DEF MigrationsInv, LateRecordsAreTold
<1>3. Shape'
  BY <1>1 DEF MigrationsInv, Shape, LockTables, RefuseRetained, PassGuard, Versions3To8,
     Oldest, Newest
<1>4. LocksHold'
  BY <1>1 DEF MigrationsInv, LocksHold, LockTables, RefuseRetained, PassGuard, Locked, Busy
<1>5. GuardHolds'
  BY <1>1 DEF GuardHolds, LockTables, RefuseRetained, PassGuard
<1> QED
  BY <1>2, <1>3, <1>4, <1>5 DEF MigrationsInv

\* What a down drops is empty by the time it does.
LEMMA NothingIsLost ==
  ASSUME MigrationsInv, DropAndPutBack
  PROVE  kinds' = kinds /\ version \in Versions3To8
<1>1. version \in Versions3To8
  BY DEF DropAndPutBack, MigrationsInv, Shape
<1>2. Down[version].loses \cap kinds = {}
  BY <1>1, DownAsksForAll DEF DropAndPutBack, MigrationsInv, GuardHolds
<1> QED
  BY <1>1, <1>2 DEF DropAndPutBack

\* A down takes away what is empty, and 08 the events with their late records.
LEMMA DropInv ==
  ASSUME MigrationsInv, DropAndPutBack
  PROVE  MigrationsInv'
<1>1. /\ kinds' = kinds /\ UNCHANGED writing
      /\ version \in Versions3To8 /\ version' = version - 1
      /\ down = "passed" /\ down' = "idle"
  BY NothingIsLost DEF DropAndPutBack
<1>2. Shape'
  BY <1>1 DEF MigrationsInv, Shape, Versions3To8, Oldest, Newest
<1>3. LocksHold' /\ GuardHolds'
  BY <1>1 DEF LocksHold, GuardHolds
<1>4. ASSUME version = 8
      PROVE  "publicationEvent" \notin kinds /\ \A w \in Writers : "publicationEvent" \notin writing[w]
  <2>1. "publicationEvent" \notin kinds
    BY <1>1, <1>4, LateOnly08 DEF MigrationsInv, GuardHolds
  <2>2. TableOf["publicationEvent"] \in Locked
    BY <1>1, <1>4, LateOnly08, DownAsksForAll DEF Locked
  <2> QED
    BY <1>1, <2>1, <2>2 DEF MigrationsInv, LocksHold, Busy
<1>5. LateRecordsAreTold'
  <2>1. version = 8 \/ version < 8
    BY <1>1 DEF Versions3To8, Oldest, Newest
  <2> QED
    BY <1>1, <1>4, <2>1 DEF MigrationsInv, LateRecordsAreTold, LateWith
<1> QED
  BY <1>2, <1>3, <1>5 DEF MigrationsInv

\* Going up looks at no row.
LEMMA LatestInv ==
  ASSUME MigrationsInv, Latest
  PROVE  MigrationsInv'
<1>1. version' = 8 /\ UNCHANGED <<kinds, writing, down>> /\ down = "idle"
  BY DEF Latest, Newest
<1> QED
  BY <1>1 DEF MigrationsInv, Shape, LocksHold, GuardHolds, LateRecordsAreTold, Oldest, Newest

\* Every step of transactions and of migrations.
LEMMA MigrationsNextInv == MigrationsInv /\ [MigrationsNext]_migrationVars => MigrationsInv'
<1> SUFFICES ASSUME MigrationsInv, [MigrationsNext]_migrationVars PROVE MigrationsInv'
  OBVIOUS
<1>1. CASE MigrationsNext
  BY <1>1, LatestInv, DownInv, DropInv, InsertInv, EndInv, DeleteInv DEF MigrationsNext
<1>2. CASE UNCHANGED migrationVars
  BY <1>2 DEF migrationVars, MigrationsInv, Shape, LocksHold, Locked, Busy, GuardHolds,
     LateRecordsAreTold
<1> QED
  BY <1>1, <1>2

\* Locks keep what a guard has seen, in every reachable state.
THEOREM MigrationsInvariant == MigrationsSpec => []MigrationsInv
<1>1. MigrationsInit => MigrationsInv
  BY MigrationsInitInv
<1>2. MigrationsInv /\ [MigrationsNext]_migrationVars => MigrationsInv'
  BY MigrationsNextInv
<1> QED
  BY <1>1, <1>2, PTL DEF MigrationsSpec

\* A down that is not refused takes no data with it, whatever transactions are open.
THEOREM DownsKeepData == MigrationsSpec => RetainedDataStays
<1>1. MigrationsInv /\ [MigrationsNext]_migrationVars
        => [version' < version => kinds' = kinds]_migrationVars
  <2> SUFFICES ASSUME MigrationsInv, MigrationsNext, version' < version
               PROVE  kinds' = kinds
    BY DEF migrationVars
  <2>1. CASE Latest
    BY <2>1 DEF Latest, MigrationsInv, Shape, Oldest, Newest
  <2>2. CASE DropAndPutBack
    BY <2>2, NothingIsLost
  <2>3. CASE version' = version
    BY <2>3 DEF MigrationsInv, Shape, Oldest, Newest
  <2> QED
    BY <2>1, <2>2, <2>3 DEF MigrationsNext, LockTables, RefuseRetained, PassGuard, Insert,
       Commit, RollBack, Delete
<1> QED
  BY <1>1, MigrationsInvariant, PTL DEF MigrationsSpec, RetainedDataStays

\* A down whose guard has passed can be carried out.
THEOREM PassedDownsSucceed == MigrationsSpec => []PassedDownSucceeds
<1>1. MigrationsInv => PassedDownSucceeds
  <2> SUFFICES ASSUME MigrationsInv, down = "passed"
               PROVE  Down[version].admitsNot \cap kinds = {}
    BY DEF PassedDownSucceeds
  <2>1. version \in Versions3To8
    BY DEF MigrationsInv, Shape
  <2>2. CASE version # 8
    BY <2>1, <2>2, DownAsksForAll
  <2>3. CASE version = 8
    BY <2>3, LateOnly08 DEF MigrationsInv, GuardHolds, LateRecordsAreTold, LateWith
  <2> QED
    BY <2>2, <2>3
<1> QED
  BY <1>1, MigrationsInvariant, PTL

-----------------------------------------------------------------------------
(***************************************************************************)
(* The bodies in force.                                                    *)
(***************************************************************************)
\* The newest migration up to v that brings a body of o, 0: none.
Brings(o) == {u \in Versions3To8 : o \in Up[u].brings}
Brought(o, v) ==
  LET by == {u \in Versions3To8 : u <= v /\ o \in Up[u].brings}
  IN  IF by = {} THEN 0 ELSE CHOOSE w \in by : \A u \in by : u <= w

LEMMA UpBrings ==
  /\ Up[3].brings = AuditGuards
  /\ Up[4].brings = {"v2_guard_session"} \cup IdempotencyGuards
  /\ Up[5].brings = {}
  /\ Up[6].brings = {"v2_guard_session"} \cup SessionEntries
  /\ Up[7].brings = AuditGuards \cup SessionEntries \cup {"v2_audit_events_closed_action_check"}
  /\ Up[8].brings = {"v2_guard_audit_event", "v2_audit_events_closed_action_check"}
                      \cup IdempotencyGuards
BY DEF Up, Up03, Up04, Up05, Up06, Up07, Up08, Versions3To8, Oldest, Newest

LEMMA WhoBrings ==
  /\ Brings("v2_guard_session") = {4, 6}
  /\ Brings("v2_create_or_replace_session") = {6, 7}
  /\ Brings("v2_revoke_session") = {6, 7}
  /\ Brings("v2_guard_audit_event") = {3, 7, 8}
  /\ Brings("v2_audit_events_append_only") = {3, 7}
  /\ Brings("v2_audit_events_closed_action_check") = {7, 8}
  /\ Brings("v2_guard_idempotency") = {4, 8}
  /\ Brings("v2_idempotency_expiry_check") = {4, 8}
<1>1. Versions3To8 = {3, 4, 5, 6, 7, 8}
  BY DEF Versions3To8, Oldest, Newest
<1>2. \A o : Brings(o) = {u \in {3, 4, 5, 6, 7, 8} : o \in Up[u].brings}
  BY <1>1 DEF Brings
<1>3. /\ Brings("v2_guard_session") = {4, 6}
      /\ Brings("v2_create_or_replace_session") = {6, 7}
      /\ Brings("v2_revoke_session") = {6, 7}
  BY <1>2, UpBrings DEF AuditGuards, SessionEntries, IdempotencyGuards
<1>4. /\ Brings("v2_guard_audit_event") = {3, 7, 8}
      /\ Brings("v2_audit_events_append_only") = {3, 7}
      /\ Brings("v2_audit_events_closed_action_check") = {7, 8}
  BY <1>2, UpBrings DEF AuditGuards, SessionEntries, IdempotencyGuards
<1>5. /\ Brings("v2_guard_idempotency") = {4, 8}
      /\ Brings("v2_idempotency_expiry_check") = {4, 8}
  BY <1>2, UpBrings DEF AuditGuards, SessionEntries, IdempotencyGuards
<1> QED
  BY <1>3, <1>4, <1>5

LEMMA BroughtIs ==
  ASSUME NEW o, NEW v, NEW n \in Brings(o), n <= v,
         \A u \in Brings(o) : u <= v => u <= n
  PROVE  Brought(o, v) = n
<1> DEFINE by == {u \in Versions3To8 : u <= v /\ o \in Up[u].brings}
<1>1. n \in by /\ \A u \in by : u <= n
  BY DEF Brings
<1>2. PICK w \in by : w = Brought(o, v) /\ \A u \in by : u <= w
  BY <1>1 DEF Brought
<1>3. n \in Nat /\ w \in Nat /\ n <= w /\ w <= n
  BY <1>1, <1>2 DEF Versions3To8, Oldest, Newest
<1> QED
  BY <1>2, <1>3

LEMMA BroughtIsNone ==
  ASSUME NEW o, NEW v, \A u \in Brings(o) : ~(u <= v)
  PROVE  Brought(o, v) = 0
BY DEF Brought, Brings

\* A set of migrations has a newest one.
LEMMA NewestOf ==
  ASSUME NEW S, S \subseteq Versions3To8, S # {}
  PROVE  \E n \in S : \A u \in S : u <= n
<1>1. Versions3To8 = {3, 4, 5, 6, 7, 8}
  BY DEF Versions3To8, Oldest, Newest
<1>2. CASE 8 \in S
  BY <1>1, <1>2
<1>3. CASE 8 \notin S /\ 7 \in S
  BY <1>1, <1>3
<1>4. CASE 8 \notin S /\ 7 \notin S /\ 6 \in S
  BY <1>1, <1>4
<1>5. CASE 8 \notin S /\ 7 \notin S /\ 6 \notin S /\ 5 \in S
  BY <1>1, <1>5
<1>6. CASE S \subseteq {3, 4} /\ 4 \in S
  BY <1>6
<1>7. CASE S = {3}
  BY <1>7
<1> QED
  BY <1>1, <1>2, <1>3, <1>4, <1>5, <1>6, <1>7

\* Of every down: it puts back what its up replaced, from the migration before that had
\* brought it.
LEMMA BodiesPutBack ==
  ASSUME NEW v \in Versions3To8
  PROVE  /\ DOMAIN Down[v].puts = Up[v].brings
         /\ \A o \in Up[v].brings : Down[v].puts[o] = Brought(o, v - 1)
<1> USE WhoBrings
<1>1. CASE v = 3
  <2>1. Down[3].puts = [o \in AuditGuards |-> 0]
    BY DEF Down, Down03, Bodies, Versions3To8, Oldest, Newest
  <2>2. \A o \in AuditGuards : Brought(o, 2) = 0
    BY BroughtIsNone DEF AuditGuards
  <2> QED
    BY <1>1, <2>1, <2>2, UpBrings
<1>2. CASE v = 4
  <2>1. Down[4].puts = [o \in {"v2_guard_session"} \cup IdempotencyGuards |-> 0]
    BY DEF Down, Down04, Bodies, Versions3To8, Oldest, Newest
  <2>2. \A o \in {"v2_guard_session"} \cup IdempotencyGuards : Brought(o, 3) = 0
    <3>1. /\ Brought("v2_guard_session", 3) = 0 /\ Brought("v2_guard_idempotency", 3) = 0
          /\ Brought("v2_idempotency_expiry_check", 3) = 0
      BY BroughtIsNone
    <3> QED
      BY <3>1 DEF IdempotencyGuards
  <2>3. v - 1 = 3
    BY <1>2
  <2> QED
    BY <1>2, <2>1, <2>2, <2>3, UpBrings
<1>3. CASE v = 5
  <2>1. DOMAIN Down[5].puts = {}
    BY DEF Down, Down05, Bodies, Versions3To8, Oldest, Newest
  <2> QED
    BY <1>3, <2>1, UpBrings
<1>4. CASE v = 6
  <2>1. Down[6].puts = [o \in SessionEntries \cup {"v2_guard_session"} |->
                          IF o \in SessionEntries THEN 0 ELSE 4]
    BY DEF Down, Down06, Versions3To8, Oldest, Newest
  <2>2. \A o \in SessionEntries : Brought(o, 5) = 0
    BY BroughtIsNone DEF SessionEntries
  <2>3. Brought("v2_guard_session", 5) = 4
    BY BroughtIs
  <2>4. "v2_guard_session" \notin SessionEntries
    BY DEF SessionEntries
  <2> QED
    BY <1>4, <2>1, <2>2, <2>3, <2>4, UpBrings
<1>5. CASE v = 7
  <2>1. Down[7].puts =
          [o \in AuditGuards \cup SessionEntries \cup {"v2_audit_events_closed_action_check"} |->
             CASE o \in AuditGuards -> 3 [] o \in SessionEntries -> 6 [] OTHER -> 0]
    BY DEF Down, Down07, Versions3To8, Oldest, Newest
  <2>2. \A o \in AuditGuards : Brought(o, 6) = 3
    <3>1. Brought("v2_guard_audit_event", 6) = 3 /\ Brought("v2_audit_events_append_only", 6) = 3
      BY BroughtIs
    <3> QED
      BY <3>1 DEF AuditGuards
  <2>3. \A o \in SessionEntries : Brought(o, 6) = 6
    <3>1. Brought("v2_create_or_replace_session", 6) = 6 /\ Brought("v2_revoke_session", 6) = 6
      BY BroughtIs
    <3> QED
      BY <3>1 DEF SessionEntries
  <2>4. Brought("v2_audit_events_closed_action_check", 6) = 0
    BY BroughtIsNone
  <2>5. /\ AuditGuards \cap SessionEntries = {}
        /\ "v2_audit_events_closed_action_check" \notin AuditGuards \cup SessionEntries
    BY DEF AuditGuards, SessionEntries
  <2>6. \A o \in Up[7].brings :
          Down[7].puts[o] = (CASE o \in AuditGuards -> 3 [] o \in SessionEntries -> 6 [] OTHER -> 0)
    BY <2>1, UpBrings
  <2> QED
    BY <1>5, <2>1, <2>2, <2>3, <2>4, <2>5, <2>6, UpBrings
<1>6. CASE v = 8
  <2> DEFINE guards == {"v2_guard_audit_event", "v2_audit_events_closed_action_check"}
  <2>1. Down[8].puts = [o \in guards \cup IdempotencyGuards |->
                          IF o \in IdempotencyGuards THEN 4 ELSE 7]
    BY DEF Down, Down08, Down08Puts, Versions3To8, Oldest, Newest
  <2>2. \A o \in guards : Brought(o, 7) = 7
    <3>1. /\ Brought("v2_guard_audit_event", 7) = 7
          /\ Brought("v2_audit_events_closed_action_check", 7) = 7
      BY BroughtIs
    <3> QED
      BY <3>1
  <2>3. \A o \in IdempotencyGuards : Brought(o, 7) = 4
    <3>1. Brought("v2_guard_idempotency", 7) = 4 /\ Brought("v2_idempotency_expiry_check", 7) = 4
      BY BroughtIs
    <3> QED
      BY <3>1 DEF IdempotencyGuards
  <2>4. guards \cap IdempotencyGuards = {}
    BY DEF IdempotencyGuards
  <2> QED
    BY <1>6, <2>1, <2>2, <2>3, <2>4, UpBrings
<1> QED
  BY <1>1, <1>2, <1>3, <1>4, <1>5, <1>6 DEF Versions3To8, Oldest, Newest

\* What is brought is a migration, or nothing.
LEMMA BroughtType ==
  ASSUME NEW o, NEW v
  PROVE  Brought(o, v) \in {0} \cup Versions3To8
<1> DEFINE by == {u \in Versions3To8 : u <= v /\ o \in Up[u].brings}
<1>1. CASE by = {}
  BY <1>1 DEF Brought
<1>2. CASE by # {}
  <2>1. PICK n \in by : \A u \in by : u <= n
    <3> HIDE DEF by
    <3>1. by \subseteq Versions3To8
      BY DEF by
    <3> QED
      BY <1>2, <3>1, NewestOf
  <2> QED
    BY <2>1, BroughtIs DEF Brings
<1> QED
  BY <1>1, <1>2

\* A migration that brings no body of o changes nothing of what is brought.
LEMMA BroughtStays ==
  ASSUME NEW o, NEW v, NEW w, \A u \in Brings(o) : u <= v <=> u <= w
  PROVE  Brought(o, v) = Brought(o, w)
<1> DEFINE by == {u \in Brings(o) : u <= v}
<1>1. CASE by = {}
  BY <1>1, BroughtIsNone
<1>2. CASE by # {}
  <2> HIDE DEF by
  <2>1. by \subseteq Versions3To8
    BY DEF by, Brings
  <2>2. PICK n \in by : \A u \in by : u <= n
    BY <1>2, <2>1, NewestOf
  <2>3. Brought(o, v) = n /\ Brought(o, w) = n
    BY <2>2, BroughtIs DEF by
  <2> QED
    BY <2>3
<1> QED
  BY <1>1, <1>2

\* Every replaceable object has the body of the newest migration that brought one.
BodiesAreBrought ==
  /\ inForce \in [Objects -> {0} \cup Versions3To8]
  /\ \A o \in Objects : inForce[o] = Brought(o, version)

\* Going up passes over no body, and takes the newest.
LEMMA LatestBrings ==
  ASSUME Shape, BodiesAreBrought, Latest
  PROVE  BodiesAreBrought'
<1>1. version' = 8 /\ Pending = version + 1 .. 8 /\ version \in 2..8
  BY DEF Latest, Pending, Newest, Shape, Oldest
<1> DEFINE by(o) == {v \in Pending : o \in Up[v].brings}
<1>2. \A o \in Objects :
        inForce'[o] = IF by(o) = {} THEN inForce[o] ELSE CHOOSE v \in by(o) : \A u \in by(o) : u <= v
  BY DEF Latest
<1>3. ASSUME NEW o \in Objects PROVE inForce'[o] = Brought(o, 8)
  <2>1. by(o) = {u \in Brings(o) : u > version}
    BY <1>1 DEF Brings, Versions3To8, Oldest, Newest
  <2>2. CASE by(o) = {}
    <3>1. \A u \in Brings(o) : u <= version <=> u <= 8
      BY <1>1, <2>1, <2>2 DEF Brings, Versions3To8, Oldest, Newest
    <3> QED
      BY <1>2, <2>2, <3>1, BroughtStays DEF BodiesAreBrought
  <2>3. CASE by(o) # {}
    <3> HIDE DEF by
    <3>1. by(o) \subseteq Versions3To8
      BY <2>1 DEF Brings
    <3>2. \E v \in by(o) : \A u \in by(o) : u <= v
      BY <2>3, <3>1, NewestOf
    <3>3. inForce'[o] \in by(o) /\ \A u \in by(o) : u <= inForce'[o]
      BY <1>2, <2>3, <3>2
    <3>4. inForce'[o] \in Brings(o) /\ inForce'[o] <= 8
      BY <2>1, <3>3 DEF Brings, Versions3To8, Oldest, Newest
    <3>5. ASSUME NEW u \in Brings(o) PROVE u <= inForce'[o]
      <4>1. CASE u > version
        BY <2>1, <3>3, <4>1
      <4>2. CASE u <= version
        BY <1>1, <2>1, <3>3, <4>2 DEF Brings, Versions3To8, Oldest, Newest
      <4> QED
        BY <1>1, <4>1, <4>2 DEF Brings, Versions3To8, Oldest, Newest
    <3> QED
      BY <3>4, <3>5, BroughtIs
  <2> QED
    BY <2>2, <2>3
<1>4. inForce' = [o \in Objects |-> inForce'[o]]
  BY DEF Latest
<1>5. \A o \in Objects : inForce'[o] \in {0} \cup Versions3To8
  BY <1>3, BroughtType
<1> QED
  BY <1>1, <1>3, <1>4, <1>5 DEF BodiesAreBrought

\* A down puts back what was there before its up, and leaves the rest.
LEMMA DropBrings ==
  ASSUME Shape, BodiesAreBrought, DropAndPutBack
  PROVE  BodiesAreBrought'
<1>1. version \in Versions3To8 /\ version' = version - 1
  BY DEF DropAndPutBack, Shape
<1>2. inForce' = [o \in Objects |-> IF o \in DOMAIN Down[version].puts
                                    THEN Down[version].puts[o] ELSE inForce[o]]
  BY DEF DropAndPutBack
<1>3. ASSUME NEW o \in Objects PROVE inForce'[o] = Brought(o, version - 1)
  <2>1. CASE o \in Up[version].brings
    BY <1>1, <1>2, <2>1, BodiesPutBack
  <2>2. CASE o \notin Up[version].brings
    <3>1. inForce'[o] = Brought(o, version)
      BY <1>1, <1>2, <2>2, BodiesPutBack DEF BodiesAreBrought
    <3>2. \A u \in Brings(o) : u # version
      BY <2>2 DEF Brings
    <3>3. \A u \in Brings(o) : u <= version <=> u <= version - 1
      BY <1>1, <3>2 DEF Brings, Versions3To8, Oldest, Newest
    <3> QED
      BY <3>1, <3>3, BroughtStays
  <2> QED
    BY <2>1, <2>2
<1>4. \A o \in Objects : inForce'[o] \in {0} \cup Versions3To8
  BY <1>3, BroughtType
<1> QED
  BY <1>1, <1>2, <1>3, <1>4 DEF BodiesAreBrought

\* Nothing else touches a body.
LEMMA BodiesNext ==
  ASSUME Shape, BodiesAreBrought, [MigrationsNext]_migrationVars
  PROVE  BodiesAreBrought'
<1>1. CASE Latest
  BY <1>1, LatestBrings
<1>2. CASE DropAndPutBack
  BY <1>2, DropBrings
<1>3. CASE UNCHANGED <<version, inForce>>
  BY <1>3 DEF BodiesAreBrought
<1> QED
  BY <1>1, <1>2, <1>3 DEF MigrationsNext, migrationVars, LockTables, RefuseRetained, PassGuard,
     Insert, Commit, RollBack, Delete

\* Before the first migration there is none.
LEMMA BodiesInit == MigrationsInit => BodiesAreBrought
<1> SUFFICES ASSUME MigrationsInit PROVE BodiesAreBrought
  OBVIOUS
<1>1. \A o \in Objects : Brought(o, 2) = 0
  BY BroughtIsNone DEF Brings, Versions3To8, Oldest, Newest
<1> QED
  BY <1>1 DEF MigrationsInit, BodiesAreBrought, Oldest

-----------------------------------------------------------------------------
(***************************************************************************)
(* The tables of all rows, and the rows they refer to.                     *)
(***************************************************************************)
ReferencesHold ==
  /\ \A k \in kinds : CreatedBy(TableOf[k]) <= version /\ Needs(k) \subseteq kinds
  /\ \A w \in Writers : \A k \in writing[w] :
       CreatedBy(TableOf[k]) <= version /\ Needs(k) \subseteq kinds

\* A down locks every table that its up created, and asks for every row in one; for the
\* versions of bindings it need not, as an application comes with them.
LEMMA DownDropsOwn ==
  ASSUME NEW k \in Kinds, CreatedBy(TableOf[k]) \in Versions3To8
  PROVE  /\ TableOf[k] \in Down[CreatedBy(TableOf[k])].locks
         /\ k # "rebound" => k \in Down[CreatedBy(TableOf[k])].refuses
         /\ k = "rebound" => /\ CreatedBy(TableOf[k]) = 3 /\ "application" \in Needs(k)
                             /\ "application" \in Down[3].refuses
<1> USE DEF TableOf, Kinds, CreatedBy
<1> DEFINE t == TableOf[k]
<1>1. /\ Down[3] = Down03 /\ Down[4] = Down04 /\ Down[6] = Down06 /\ Down[7] = Down07
  BY DEF Down, Versions3To8, Oldest, Newest
<1>2. CASE k \in {"application", "rebound", "release", "file", "binding", "event",
                  "publicationEvent"}
  BY <1>1, <1>2 DEF Down03, Needs
<1>3. CASE k \in {"session", "record", "lateRecord", "job", "request"}
  BY <1>1, <1>3 DEF Down04, Rows04
<1>4. CASE k = "login"
  BY <1>1, <1>4 DEF Down06
<1>5. CASE k \in {"bindingRequest", "policy"}
  BY <1>1, <1>5 DEF Down07
<1> QED
  BY <1>2, <1>3, <1>4, <1>5

\* What nothing that stays refers to may go.
LEMMA ReferencesNext ==
  ASSUME MigrationsInv, ReferencesHold, [MigrationsNext]_migrationVars
  PROVE  ReferencesHold'
<1>0. writing \in [Writers -> SUBSET Kinds] /\ kinds \subseteq Kinds /\ version \in 2..8
  BY DEF MigrationsInv, Shape, Oldest, Newest
<1>1. ASSUME Latest PROVE ReferencesHold'
  <2>1. version' = 8 /\ UNCHANGED <<kinds, writing>>
    BY <1>1 DEF Latest, Newest
  <2>2. \A t : CreatedBy(t) <= 8
    BY DEF CreatedBy
  <2> QED
    BY <2>1, <2>2 DEF ReferencesHold
<1>2. ASSUME DropAndPutBack PROVE ReferencesHold'
  <2>1. /\ kinds' = kinds /\ UNCHANGED writing /\ version \in Versions3To8
        /\ version' = version - 1 /\ down = "passed"
    BY <1>2, NothingIsLost DEF DropAndPutBack
  <2>2. ASSUME NEW k \in kinds PROVE CreatedBy(TableOf[k]) # version
    <3> SUFFICES ASSUME CreatedBy(TableOf[k]) = version PROVE FALSE
      OBVIOUS
    <3>1. \E n \in kinds : n \in Down[version].refuses
      BY <1>0, <2>1, DownDropsOwn DEF ReferencesHold
    <3> QED
      BY <2>1, <3>1 DEF MigrationsInv, GuardHolds
  <2>3. ASSUME NEW w \in Writers, NEW k \in writing[w] PROVE CreatedBy(TableOf[k]) # version
    <3> SUFFICES ASSUME CreatedBy(TableOf[k]) = version PROVE FALSE
      OBVIOUS
    <3>1. TableOf[k] \in Locked /\ TableOf[k] \in Busy
      BY <1>0, <2>1, DownDropsOwn DEF Locked, Busy
    <3> QED
      BY <2>1, <3>1 DEF MigrationsInv, LocksHold
  <2>4. \A t : CreatedBy(t) \in 2..8
    BY DEF CreatedBy
  <2>5. \A t : CreatedBy(t) <= version /\ CreatedBy(t) # version => CreatedBy(t) <= version - 1
    BY <1>0, <2>4
  <2> QED
    BY <2>1, <2>2, <2>3, <2>5 DEF ReferencesHold
<1>3. ASSUME NEW w \in Writers, Insert(w) PROVE ReferencesHold'
  <2>1. PICK written \in Inserts :
          /\ \A k \in written : version >= CreatedBy(TableOf[k]) /\ Needs(k) \subseteq kinds
          /\ writing' = [writing EXCEPT ![w] = written]
    BY <1>3 DEF Insert
  <2>2. \A x \in Writers : writing'[x] = IF x = w THEN written ELSE writing[x]
    BY <1>0, <2>1
  <2>3. \A t : CreatedBy(t) \in 2..8
    BY DEF CreatedBy
  <2>4. \A k \in written : CreatedBy(TableOf[k]) <= version
    BY <1>0, <2>1, <2>3
  <2>5. UNCHANGED <<version, kinds>>
    BY <1>3 DEF Insert
  <2> QED
    BY <2>1, <2>2, <2>4, <2>5 DEF ReferencesHold
<1>4. ASSUME NEW w \in Writers, Commit(w) \/ RollBack(w) PROVE ReferencesHold'
  <2>1. /\ writing' = [writing EXCEPT ![w] = {}] /\ UNCHANGED version
        /\ kinds' \in {kinds, kinds \cup writing[w]}
    BY <1>4 DEF Commit, RollBack
  <2>2. \A x \in Writers : writing'[x] = IF x = w THEN {} ELSE writing[x]
    BY <1>0, <2>1
  <2> QED
    BY <2>1, <2>2 DEF ReferencesHold
<1>5. ASSUME NEW kind \in Kinds, Delete(kind) PROVE ReferencesHold'
  <2>1. /\ UNCHANGED <<version, writing>> /\ MayGo(kind)
        /\ kinds' = {k \in kinds : k # kind /\ ~(k \in Cascading /\ kind \in Needs(k))}
    BY <1>5 DEF Delete
  <2>2. \A k \in kinds' : kind \notin Needs(k)
    BY <2>1 DEF MayGo
  <2>3. \A w \in Writers : \A k \in writing[w] : kind \notin Needs(k)
    BY <1>0, <2>1 DEF MayGo
  <2>4. \A k : Needs(k) \cap Cascading = {}
    BY DEF Needs, Cascading
  <2>5. \A k : Needs(k) \subseteq kinds /\ kind \notin Needs(k) => Needs(k) \subseteq kinds'
    BY <2>1, <2>4
  <2> QED
    BY <2>1, <2>2, <2>3, <2>5 DEF ReferencesHold
<1>6. CASE UNCHANGED <<version, kinds, writing>>
  BY <1>6 DEF ReferencesHold
<1> QED
  BY <1>1, <1>2, <1>3, <1>4, <1>5, <1>6
  DEF MigrationsNext, migrationVars, LockTables, RefuseRetained, PassGuard

\* Locks keep what a guard has seen, the bodies are those of the version, and every row
\* has its table and what it refers to, in hand or written.
SchemaInv == MigrationsInv /\ BodiesAreBrought /\ ReferencesHold

\* In every reachable state.
THEOREM SchemaInvHolds == MigrationsSpec => []SchemaInv
<1>1. MigrationsInit => SchemaInv
  <2>1. MigrationsInit => ReferencesHold
    BY DEF MigrationsInit, ReferencesHold
  <2> QED
    BY <2>1, MigrationsInitInv, BodiesInit DEF SchemaInv
<1>2. SchemaInv /\ [MigrationsNext]_migrationVars => SchemaInv'
  BY MigrationsNextInv, BodiesNext, ReferencesNext DEF SchemaInv, MigrationsInv
<1> QED
  BY <1>1, <1>2, PTL DEF MigrationsSpec

\* The guard of audit events knows the events of the publications when their functions do.
LEMMA GuardsKnowEvents == Shape /\ BodiesAreBrought => AuditGuardLetsIn
<1> SUFFICES ASSUME Shape, BodiesAreBrought,
                    NEW o \in {"v2_guard_audit_event", "v2_audit_events_closed_action_check"}
             PROVE  Written \subseteq LetsIn(inForce[o])
  BY DEF AuditGuardLetsIn
<1>1. CASE version = 8
  <2>1. Brought(o, 8) = 8
    <3>1. 8 \in Brings(o)
      BY WhoBrings
    <3> QED
      BY <3>1, BroughtIs DEF Brings, Versions3To8, Oldest, Newest
  <2>2. inForce[o] = 8
    BY <1>1, <2>1 DEF BodiesAreBrought, Objects
  <2> QED
    BY <2>2 DEF Written, LetsIn
<1>2. CASE version < 8
  <2>1. ~(version >= 8)
    BY <1>2 DEF Shape, Oldest, Newest
  <2> QED
    BY <2>1 DEF Written, LetsIn
<1> QED
  BY <1>1, <1>2 DEF Shape, Oldest, Newest

\* After any ups and downs, with any transactions open, the schema in force is that of
\* its version: every guard, function and constraint is the newest that a migration in
\* force brought, it lets in what the functions there write, every row has its table and
\* the rows it refers to, and a down that has passed its guard can be carried out.
THEOREM SchemaAlwaysFits == MigrationsSpec => []SchemaFitsVersion
<1>1. SchemaInv => MigrationsTypeOK
  BY DEF SchemaInv, MigrationsInv, Shape, BodiesAreBrought, ReferencesHold, MigrationsTypeOK
<1>2. SchemaInv => BodiesFitVersion
  BY DEF SchemaInv, BodiesAreBrought, Brought, BodiesFitVersion
<1>3. SchemaInv => AuditGuardLetsIn
  BY GuardsKnowEvents DEF SchemaInv, MigrationsInv
<1>4. SchemaInv /\ PassedDownSucceeds => SchemaFitsVersion
  BY <1>1, <1>2, <1>3 DEF SchemaFitsVersion
<1> QED
  BY <1>4, SchemaInvHolds, PassedDownsSucceed, PTL

=============================================================================
