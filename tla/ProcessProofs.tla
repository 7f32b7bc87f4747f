---------------------------- MODULE ProcessProofs ----------------------------
(***************************************************************************)
(* Theorems of Server and of SignIn: of the life of control processes, for *)
(* every number of them, of requests and of faults, and of whom one admits *)
(* to a sign-in and what it takes from the provider, for every number of   *)
(* calls, sources, keys and documents and every limit.                     *)
(*                                                                         *)
(* What a process may touch follows from where its two flows are: the      *)
(* start leaves behind a schema and a bucket at certain awaits, and the    *)
(* shutdown takes the listener away before it looks at the requests, so    *)
(* that none can arrive once it has.                                       *)
(*                                                                         *)
(* The counter of a window forgets, while the limit is about what was let  *)
(* in: within a window the counter is what the series of admissions holds  *)
(* from its start on, and when one is over there is nothing now to forget. *)
(* What the provider gave up was shared or kept no longer than a fetch and *)
(* a lifetime, as every one of them carries when it was sent.              *)
(***************************************************************************)
EXTENDS Server, SignIn, FiniteSetTheorems, WellFoundedInduction, TLAPS


Records ==
  [ start : Starting \cup {"down", "failed", "returned"}, shutdown : Shutdowns,
    listening : BOOLEAN, requests : 0 .. MaxRequests, destroyed : BOOLEAN,
    undrained : BOOLEAN, exitCode : {0, 1, 137} ]

\* What the start has left behind by the time it stands at one of its awaits.
Prepared(r, schema, objects) ==
  /\ r.start \in {"head bucket", "create bucket"} => schema
  /\ r.start \in {"bootstrap", "listen"} => schema /\ objects
  /\ r.listening \/ r.requests > 0 => schema /\ objects

\* The listener comes with the end of the start and goes with the beginning of the
\* shutdown, and the storages go when there is no other use for them.
InOrder(r) ==
  /\ r.listening => r.start = "returned" /\ r.shutdown \in {"none", "waits"}
  /\ r.shutdown \in {"closes", "destroys", "done"} => r.start = "returned"
  /\ r.shutdown \in {"none", "waits"} /\ ~r.listening => r.requests = 0
  /\ r.shutdown \in {"destroys", "done"} => r.requests = 0 \/ r.undrained
  /\ r.destroyed => r.start = "returned" /\ ~r.listening
  /\ r.destroyed /\ r.shutdown = "closes" => r.requests = 0

\* An exit code that tells of everything that failed.
Agreed(r) ==
  /\ r.start = "failed" => r.exitCode = 1
  /\ r.destroyed /\ r.shutdown # "done" => r.exitCode = 1
  /\ r.shutdown = "done" /\ r.undrained => r.exitCode = 1

InPlace(r, schema, objects) == Prepared(r, schema, objects) /\ InOrder(r) /\ Agreed(r)

ServerInv ==
  /\ ServerTypeOK
  /\ \A p \in Processes : InPlace(proc[p], migrated, bucket)

\* A process that is down holds nothing.
LEMMA DownInPlace == \A s, b \in BOOLEAN : Down \in Records /\ InPlace(Down, s, b)
BY ServerAssumption
   DEF Down, Records, Starting, Shutdowns, InPlace, Prepared, InOrder, Agreed

\* All processes are down.
LEMMA ServerInitInv == ServerInit => ServerInv
<1> SUFFICES ASSUME ServerInit PROVE ServerInv
  OBVIOUS
<1>1. proc \in [Processes -> Records]
  BY DownInPlace DEF ServerInit
<1>2. ServerTypeOK
  <2>1. faults \in 0 .. MaxFaults
    BY ServerAssumption DEF ServerInit
  <2>2. migrated \in BOOLEAN /\ bucket \in BOOLEAN /\ migrating = NoProcess
    BY DEF ServerInit
  <2> QED
    BY <1>1, <2>1, <2>2 DEF ServerTypeOK, Records
<1>3. \A p \in Processes : InPlace(proc[p], migrated, bucket)
  BY DownInPlace DEF ServerInit
<1> QED
  BY <1>2, <1>3 DEF ServerInv

\* A step of process p changes nothing of the others, and nobody takes the schema or
\* the bucket away: what held of the others holds of them.
LEMMA OthersKeep ==
  ASSUME ServerInv, NEW p \in Processes, NEW r \in Records,
         proc' = [proc EXCEPT ![p] = r],
         migrated => migrated', bucket => bucket',
         migrated' \in BOOLEAN, bucket' \in BOOLEAN, faults' \in 0 .. MaxFaults,
         migrating' \in {migrating, p, NoProcess},
         migrating' = p => r.start = "migrating",
         InPlace(r, migrated', bucket')
  PROVE  ServerInv'
<1>1. proc \in [Processes -> Records] /\ proc' \in [Processes -> Records]
  BY DEF ServerInv, ServerTypeOK, Records
<1>2. \A q \in Processes : proc'[q] = IF q = p THEN r ELSE proc[q]
  BY <1>1
<1>3. ServerTypeOK'
  <2>1. ASSUME migrating' # NoProcess PROVE proc'[migrating'].start = "migrating"
    BY <2>1, <1>2, ServerAssumption DEF ServerInv, ServerTypeOK
  <2> QED
    BY <1>1, <2>1 DEF ServerInv, ServerTypeOK, Records
<1>4. ASSUME NEW q \in Processes, q # p PROVE InPlace(proc'[q], migrated', bucket')
  BY <1>2, <1>4 DEF ServerInv, InPlace, Prepared
<1> QED
  BY <1>2, <1>3, <1>4 DEF ServerInv

\* Stated by itself, since the provers that compare numbers do not see through the
\* conditions of the next lemma.
LEMMA NoneIsNotMore == ~(0 > 0)
OBVIOUS

\* start() goes on to its next await, and nothing else of its process changes.
LEMMA OnInv ==
  ASSUME ServerInv, NEW p \in Processes, NEW step \in Starting \cup {"returned"},
         GoOn(p, step), proc[p].start \in Starting,
         migrated => migrated', bucket => bucket',
         migrated' \in BOOLEAN, bucket' \in BOOLEAN, faults' = faults,
         migrating' \in {migrating, p, NoProcess},
         migrating' = p => step = "migrating",
         step \in {"head bucket", "create bucket"} => migrated',
         step \in {"bootstrap", "listen"} => migrated' /\ bucket'
  PROVE  ServerInv'
<1> DEFINE r == [proc[p] EXCEPT !.start = step]
<1>1. proc[p] \in Records /\ InOrder(proc[p]) /\ Agreed(proc[p])
  BY DEF ServerInv, ServerTypeOK, Records, InPlace
<1>2. r \in Records
  BY <1>1 DEF Records
<1>3. r = [proc[p] EXCEPT !.start = step]
  OBVIOUS
<1>4. /\ r.start = step /\ r.shutdown = proc[p].shutdown /\ r.listening = proc[p].listening
      /\ r.requests = proc[p].requests /\ r.destroyed = proc[p].destroyed
      /\ r.undrained = proc[p].undrained /\ r.exitCode = proc[p].exitCode
  BY <1>1 DEF Records
<1> HIDE DEF r
<1>5. InOrder(r) /\ Agreed(r)
  BY <1>1, <1>4 DEF InOrder, Agreed, Starting
<1>6. ~proc[p].listening
  BY <1>1 DEF InOrder, Starting
<1>7. InPlace(r, migrated', bucket')
  <2>1. proc[p].shutdown \in {"none", "waits"}
    BY <1>1 DEF InOrder, Starting, Records, Shutdowns
  <2>2. proc[p].requests = 0
    BY <1>1, <1>6, <2>1 DEF InOrder
  <2>3. ~r.listening /\ ~(r.requests > 0)
    <3>1. ~r.listening
      BY <1>4, <1>6, Zenon
    <3>2. r.requests = 0
      BY <1>4, <2>2, Zenon
    <3> QED
      BY <3>1, <3>2, NoneIsNotMore, Zenon
  <2>4. r.start \in {"head bucket", "create bucket"} => migrated'
    BY <1>4
  <2>5. r.start \in {"bootstrap", "listen"} => migrated' /\ bucket'
    BY <1>4
  <2>6. Prepared(r, migrated', bucket')
    BY <2>3, <2>4, <2>5, Zenon DEF Prepared
  <2> QED
    BY <1>5, <2>6 DEF InPlace
<1>8. proc' = [proc EXCEPT ![p] = r]
  BY <1>3, <1>1 DEF GoOn, ServerInv, ServerTypeOK
<1>9. faults' \in 0 .. MaxFaults
  BY DEF ServerInv, ServerTypeOK
<1> QED
  BY <1>2, <1>4, <1>7, <1>8, <1>9, OthersKeep

\* Ends leaves nothing of a process, whatever it had in hand.
LEMMA EndsInv ==
  ASSUME ServerInv, NEW p \in Processes, NEW code \in {0, 1, 137}, Ends(p, code),
         UNCHANGED <<migrated, bucket>>, faults' \in 0 .. MaxFaults
  PROVE  ServerInv'
<1> DEFINE r == [Down EXCEPT !.exitCode = code]
<1>1. r \in Records /\ r.start = "down"
  BY DownInPlace DEF Records, Down
<1>2. InPlace(r, migrated, bucket)
  BY ServerAssumption DEF Down, InPlace, Prepared, InOrder, Agreed
<1>3. proc' = [proc EXCEPT ![p] = r] /\ migrating' \in {migrating, NoProcess} /\ migrating' # p
  BY ServerAssumption DEF Ends
<1>4. migrated \in BOOLEAN /\ bucket \in BOOLEAN
  BY DEF ServerInv, ServerTypeOK
<1> HIDE DEF r
<1>5. InPlace(r, migrated', bucket') /\ migrated' \in BOOLEAN /\ bucket' \in BOOLEAN
  BY <1>2, <1>4
<1>6. migrating' \in {migrating, p, NoProcess} /\ (migrating' = p => r.start = "migrating")
  BY <1>3
<1>7. (migrated => migrated') /\ (bucket => bucket')
  OBVIOUS
<1> QED
  BY <1>1, <1>3, <1>5, <1>6, <1>7, OthersKeep

\* Every await of start(), its end and its failure.
LEMMA StartInv ==
  ASSUME ServerInv, NEW p \in Processes, Start(p)
  PROVE  ServerInv'
<1>1. /\ proc[p] \in Records /\ InPlace(proc[p], migrated, bucket)
      /\ migrated \in BOOLEAN /\ bucket \in BOOLEAN /\ faults \in 0 .. MaxFaults
      /\ proc \in [Processes -> Records] /\ MaxFaults \in Nat /\ p # NoProcess
  BY ServerAssumption DEF ServerInv, ServerTypeOK, Records
<1>2. migrating = p => proc[p].start = "migrating"
  BY <1>1 DEF ServerInv, ServerTypeOK
<1>3. CASE Spawn(p)
  <2> DEFINE r == [Down EXCEPT !.start = "qualify"]
  <2>1. r \in Records /\ r.start = "qualify"
    BY DownInPlace DEF Records, Down, Starting
  <2>2. InPlace(r, migrated, bucket)
    BY ServerAssumption DEF Down, InPlace, Prepared, InOrder, Agreed
  <2>3. proc' = [proc EXCEPT ![p] = r] /\ UNCHANGED <<migrated, migrating, bucket, faults>>
    BY <1>3 DEF Spawn
  <2>4. migrating # p
    BY <1>2, <1>3 DEF Spawn, Up
  <2> HIDE DEF r
  <2> QED
    BY <1>1, <2>1, <2>2, <2>3, <2>4, OthersKeep
<1>4. CASE Qualify(p)
  <2>1. PICK step \in {"migrate", "returned"} : GoOn(p, step)
    BY <1>4 DEF Qualify, GoOnUnlessStopped
  <2> QED
    BY <1>1, <1>2, <1>4, <2>1, OnInv DEF Qualify, Starting
<1>5. CASE Lock(p)
  BY <1>1, <1>5, OnInv DEF Lock, Starting
<1>6. CASE Migrate(p)
  BY <1>1, <1>6, OnInv DEF Migrate, Starting
<1>7. CASE HeadBucket(p)
  <2>1. PICK step \in {"bootstrap", "create bucket"} :
          GoOn(p, step) /\ (step = "bootstrap" => bucket)
    BY <1>7 DEF HeadBucket
  <2>2. migrated
    BY <1>1, <1>7 DEF HeadBucket, InPlace, Prepared
  <2> QED
    BY <1>1, <1>2, <1>7, <2>1, <2>2, OnInv DEF HeadBucket, Starting
<1>8. CASE CreateBucket(p)
  <2>1. migrated
    BY <1>1, <1>8 DEF CreateBucket, InPlace, Prepared
  <2> QED
    BY <1>1, <1>2, <1>8, <2>1, OnInv DEF CreateBucket, Starting
<1>9. CASE CreateRootUserAndGroup(p)
  <2>1. PICK step \in {"listen", "returned"} : GoOn(p, step)
    BY <1>9 DEF CreateRootUserAndGroup, GoOnUnlessStopped
  <2>2. migrated /\ bucket
    BY <1>1, <1>9 DEF CreateRootUserAndGroup, InPlace, Prepared
  <2> QED
    BY <1>1, <1>2, <1>9, <2>1, <2>2, OnInv DEF CreateRootUserAndGroup, Starting
<1>10. CASE Listen(p)
  <2> DEFINE r == [proc[p] EXCEPT !.start = "returned", !.listening = TRUE]
  <2>1. r \in Records
    BY <1>1 DEF Records
  <2>2. /\ r.start = "returned" /\ r.shutdown = proc[p].shutdown /\ r.listening
        /\ r.requests = proc[p].requests /\ r.destroyed = proc[p].destroyed
        /\ r.undrained = proc[p].undrained /\ r.exitCode = proc[p].exitCode
    BY <1>1 DEF Records
  <2>3. proc' = [proc EXCEPT ![p] = r] /\ UNCHANGED <<migrated, migrating, bucket, faults>>
        /\ proc[p].start = "listen"
    BY <1>1, <1>10 DEF Listen
  <2> HIDE DEF r
  <2>4. InPlace(r, migrated, bucket)
    BY <1>1, <2>2, <2>3 DEF InPlace, Prepared, InOrder, Agreed, Records, Shutdowns
  <2>5. migrating # p
    BY <1>2, <2>3
  <2> QED
    BY <1>1, <2>1, <2>3, <2>4, <2>5, OthersKeep
<1>11. CASE StartFails(p)
  <2> DEFINE r == [proc[p] EXCEPT !.start = "failed", !.exitCode = 1]
  <2>1. r \in Records
    BY <1>1 DEF Records
  <2>2. /\ r.start = "failed" /\ r.shutdown = proc[p].shutdown
        /\ r.listening = proc[p].listening
        /\ r.requests = proc[p].requests /\ r.destroyed = proc[p].destroyed
        /\ r.undrained = proc[p].undrained /\ r.exitCode = 1
    BY <1>1 DEF Records
  <2>3. /\ proc' = [proc EXCEPT ![p] = r] /\ UNCHANGED <<migrated, bucket>>
        /\ migrating' \in {migrating, NoProcess} /\ migrating' # p
        /\ proc[p].start \in Starting
    BY <1>1, <1>11 DEF StartFails, Throws, Starting
  <2>4. faults' \in 0 .. MaxFaults
    BY <1>1, <1>11 DEF StartFails, Throws
  <2> HIDE DEF r
  <2>5. InPlace(r, migrated, bucket)
    BY <1>1, <2>2, <2>3, ZenonT(60) DEF InPlace, Prepared, InOrder, Agreed, Records, Starting
  <2> QED
    BY <1>1, <2>1, <2>3, <2>4, <2>5, OthersKeep
<1>12. CASE CleanUpStart(p)
  <2> DEFINE r == [proc[p] EXCEPT !.start = "returned", !.destroyed = TRUE]
  <2>1. r \in Records
    BY <1>1 DEF Records
  <2>2. /\ r.start = "returned" /\ r.shutdown = proc[p].shutdown
        /\ r.listening = proc[p].listening
        /\ r.requests = proc[p].requests /\ r.destroyed
        /\ r.undrained = proc[p].undrained /\ r.exitCode = proc[p].exitCode
    BY <1>1 DEF Records
  <2>3. proc' = [proc EXCEPT ![p] = r] /\ UNCHANGED <<migrated, migrating, bucket, faults>>
        /\ proc[p].start = "failed"
    BY <1>1, <1>12 DEF CleanUpStart
  <2> HIDE DEF r
  <2>4. InPlace(r, migrated, bucket)
    BY <1>1, <2>2, <2>3 DEF InPlace, Prepared, InOrder, Agreed, Records, Shutdowns
  <2>5. migrating # p
    BY <1>2, <2>3
  <2> QED
    BY <1>1, <2>1, <2>3, <2>4, <2>5, OthersKeep
<1>13. CASE CleanUpStartFails(p)
  BY <1>1, <1>13, EndsInv DEF CleanUpStartFails
<1> QED
  BY <1>3, <1>4, <1>5, <1>6, <1>7, <1>8, <1>9, <1>10, <1>11, <1>12, <1>13 DEF Start

\* A signal, or a step of shutdown() that only changes how far the shutdown is.
LEMMA ShutdownAtInv ==
  ASSUME ServerInv, NEW p \in Processes, NEW r \in Records,
         proc' = [proc EXCEPT ![p] = r],
         r.start = proc[p].start, r.requests = proc[p].requests,
         r.listening => proc[p].listening,
         InOrder(r), Agreed(r),
         UNCHANGED <<migrated, migrating, bucket>>, faults' \in 0 .. MaxFaults
  PROVE  ServerInv'
<1>1. /\ InPlace(proc[p], migrated, bucket)
      /\ migrated \in BOOLEAN /\ bucket \in BOOLEAN
      /\ migrating = p => proc[p].start = "migrating"
      /\ p # NoProcess
  BY ServerAssumption DEF ServerInv, ServerTypeOK, Records
<1>2. Prepared(r, migrated, bucket)
  BY <1>1 DEF InPlace, Prepared
<1> QED
  BY <1>1, <1>2, OthersKeep DEF InPlace

\* Requests come and go, signals and kills.
LEMMA RequestInv ==
  ASSUME ServerInv, NEW p \in Processes, RequestArrives(p) \/ RequestEnds(p)
  PROVE  ServerInv'
<1>1. /\ proc[p] \in Records /\ InPlace(proc[p], migrated, bucket)
      /\ migrated \in BOOLEAN /\ bucket \in BOOLEAN /\ faults \in 0 .. MaxFaults
      /\ migrating = p => proc[p].start = "migrating"
      /\ p # NoProcess /\ MaxRequests \in Nat
  BY ServerAssumption DEF ServerInv, ServerTypeOK, Records
<1>2. PICK n \in 0 .. MaxRequests :
        /\ proc' = [proc EXCEPT ![p] = [proc[p] EXCEPT !.requests = n]]
        /\ n <= proc[p].requests \/ proc[p].listening
        /\ proc[p].requests > 0 \/ proc[p].listening
  <2>1. CASE RequestArrives(p)
    <3>1. proc[p].requests + 1 \in 0 .. MaxRequests
      BY <1>1, <2>1 DEF RequestArrives, Records
    <3>2. proc' = [proc EXCEPT ![p] = [proc[p] EXCEPT !.requests = proc[p].requests + 1]]
      BY <2>1 DEF RequestArrives, ServerInv, ServerTypeOK
    <3> QED
      BY <2>1, <3>1, <3>2 DEF RequestArrives
  <2>2. CASE RequestEnds(p)
    <3>1. proc[p].requests - 1 \in 0 .. MaxRequests /\ proc[p].requests - 1 <= proc[p].requests
      BY <1>1, <2>2 DEF RequestEnds, Records
    <3>2. proc' = [proc EXCEPT ![p] = [proc[p] EXCEPT !.requests = proc[p].requests - 1]]
      BY <2>2 DEF RequestEnds, ServerInv, ServerTypeOK
    <3> QED
      BY <2>2, <3>1, <3>2 DEF RequestEnds
  <2> QED
    BY <2>1, <2>2
<1>3. UNCHANGED <<migrated, migrating, bucket, faults>>
  BY DEF RequestArrives, RequestEnds
<1> DEFINE r == [proc[p] EXCEPT !.requests = n]
<1>4. r \in Records
  BY <1>1 DEF Records
<1>5. /\ r.start = proc[p].start /\ r.requests = n
      /\ r.shutdown = proc[p].shutdown /\ r.listening = proc[p].listening
      /\ r.destroyed = proc[p].destroyed
      /\ r.undrained = proc[p].undrained /\ r.exitCode = proc[p].exitCode
  BY <1>1 DEF Records
<1>6. proc' = [proc EXCEPT ![p] = r]
  BY <1>2
<1> HIDE DEF r
<1>7. Prepared(r, migrated, bucket)
  BY <1>1, <1>2, <1>5 DEF InPlace, Prepared
<1>8. proc[p].requests = 0 => proc[p].listening
  BY <1>2
<1>9. InOrder(r)
  BY <1>1, <1>5, <1>8 DEF InPlace, InOrder
<1>10. Agreed(r)
  BY <1>1, <1>5 DEF InPlace, Agreed
<1> QED
  BY <1>1, <1>3, <1>4, <1>5, <1>6, <1>7, <1>9, <1>10, OthersKeep DEF InPlace

\* The steps of the shutdown.
LEMMA ShutdownInv ==
  ASSUME ServerInv, NEW p \in Processes, Shutdown(p) \/ Signal(p) \/ Kill(p)
  PROVE  ServerInv'
<1>1. /\ proc[p] \in Records /\ InOrder(proc[p]) /\ Agreed(proc[p])
      /\ faults \in 0 .. MaxFaults /\ MaxFaults \in Nat
  BY ServerAssumption DEF ServerInv, ServerTypeOK, Records, InPlace
<1>2. CASE Signal(p)
  <2> DEFINE r == [proc[p] EXCEPT !.shutdown = "waits"]
  <2>1. r \in Records
    BY <1>1, <1>2 DEF Records, Shutdowns
  <2>2. /\ r.start = proc[p].start /\ r.requests = proc[p].requests
        /\ r.shutdown = "waits"
        /\ r.listening = proc[p].listening /\ r.destroyed = proc[p].destroyed
        /\ r.undrained = proc[p].undrained
        /\ r.exitCode = proc[p].exitCode
    BY <1>1 DEF Records
  <2>3. proc' = [proc EXCEPT ![p] = r]
    BY <1>1, <1>2 DEF Signal
  <2>4. UNCHANGED <<migrated, migrating, bucket>> /\ faults' \in 0 .. MaxFaults
    BY <1>1, <1>2 DEF Signal
  <2> HIDE DEF r
  <2>5. InOrder(r)
    BY <1>1, <1>2, <2>2 DEF Signal, InOrder, Records
  <2>6. Agreed(r)
    BY <1>1, <1>2, <2>2 DEF Signal, Agreed, InOrder
  <2> QED
    BY <2>1, <2>2, <2>3, <2>4, <2>5, <2>6, ShutdownAtInv
<1>3. CASE Close(p)
  <2> DEFINE r == [proc[p] EXCEPT
                    !.shutdown = IF proc[p].listening THEN "closes" ELSE "destroys",
                    !.listening = FALSE]
  <2>1. r \in Records
    BY <1>1, <1>3, ZenonT(60) DEF Records, Shutdowns
  <2>2. /\ r.start = proc[p].start /\ r.requests = proc[p].requests
        /\ r.shutdown = (IF proc[p].listening THEN "closes" ELSE "destroys")
        /\ r.listening = FALSE /\ r.destroyed = proc[p].destroyed
        /\ r.undrained = proc[p].undrained
        /\ r.exitCode = proc[p].exitCode
    BY <1>1 DEF Records
  <2>3. proc' = [proc EXCEPT ![p] = r]
    BY <1>1, <1>3 DEF Close
  <2>4. UNCHANGED <<migrated, migrating, bucket>> /\ faults' \in 0 .. MaxFaults
    BY <1>1, <1>3 DEF Close
  <2> HIDE DEF r
  <2>5. InOrder(r)
    BY <1>1, <1>3, <2>2 DEF Close, InOrder, Records
  <2>6. Agreed(r)
    BY <1>1, <1>3, <2>2 DEF Close, Agreed, InOrder
  <2> QED
    BY <2>1, <2>2, <2>3, <2>4, <2>5, <2>6, ShutdownAtInv
<1>4. CASE Drained(p)
  <2> DEFINE r == [proc[p] EXCEPT !.shutdown = "destroys"]
  <2>1. r \in Records
    BY <1>1, <1>4 DEF Records, Shutdowns
  <2>2. /\ r.start = proc[p].start /\ r.requests = proc[p].requests
        /\ r.shutdown = "destroys"
        /\ r.listening = proc[p].listening /\ r.destroyed = proc[p].destroyed
        /\ r.undrained = proc[p].undrained
        /\ r.exitCode = proc[p].exitCode
    BY <1>1 DEF Records
  <2>3. proc' = [proc EXCEPT ![p] = r]
    BY <1>1, <1>4 DEF Drained
  <2>4. UNCHANGED <<migrated, migrating, bucket>> /\ faults' \in 0 .. MaxFaults
    BY <1>1, <1>4 DEF Drained
  <2> HIDE DEF r
  <2>5. InOrder(r)
    BY <1>1, <1>4, <2>2 DEF Drained, InOrder, Records
  <2>6. Agreed(r)
    BY <1>1, <1>4, <2>2 DEF Drained, Agreed, InOrder
  <2> QED
    BY <2>1, <2>2, <2>3, <2>4, <2>5, <2>6, ShutdownAtInv
<1>5. CASE DrainTimesOut(p)
  <2> DEFINE r == [proc[p] EXCEPT !.shutdown = "destroys", !.undrained = TRUE]
  <2>1. r \in Records
    BY <1>1, <1>5 DEF Records, Shutdowns
  <2>2. /\ r.start = proc[p].start /\ r.requests = proc[p].requests
        /\ r.shutdown = "destroys"
        /\ r.listening = proc[p].listening /\ r.destroyed = proc[p].destroyed
        /\ r.undrained = TRUE
        /\ r.exitCode = proc[p].exitCode
    BY <1>1 DEF Records
  <2>3. proc' = [proc EXCEPT ![p] = r]
    BY <1>1, <1>5 DEF DrainTimesOut
  <2>4. UNCHANGED <<migrated, migrating, bucket>> /\ faults' \in 0 .. MaxFaults
    BY <1>1, <1>5 DEF DrainTimesOut
  <2> HIDE DEF r
  <2>5. InOrder(r)
    BY <1>1, <1>5, <2>2 DEF DrainTimesOut, InOrder, Records
  <2>6. Agreed(r)
    BY <1>1, <1>5, <2>2 DEF DrainTimesOut, Agreed, InOrder
  <2> QED
    BY <2>1, <2>2, <2>3, <2>4, <2>5, <2>6, ShutdownAtInv
<1>6. CASE Destroy(p)
  <2> DEFINE r == [proc[p] EXCEPT
                    !.shutdown = "done", !.destroyed = TRUE,
                    !.exitCode = IF proc[p].undrained THEN 1 ELSE proc[p].exitCode]
  <2>1. r \in Records
    BY <1>1, <1>6, ZenonT(60) DEF Records, Shutdowns
  <2>2. /\ r.start = proc[p].start /\ r.requests = proc[p].requests
        /\ r.shutdown = "done"
        /\ r.listening = proc[p].listening /\ r.destroyed = TRUE
        /\ r.undrained = proc[p].undrained
        /\ r.exitCode = (IF proc[p].undrained THEN 1 ELSE proc[p].exitCode)
    BY <1>1 DEF Records
  <2>3. proc' = [proc EXCEPT ![p] = r]
    BY <1>1, <1>6 DEF Destroy
  <2>4. UNCHANGED <<migrated, migrating, bucket>> /\ faults' \in 0 .. MaxFaults
    BY <1>1, <1>6 DEF Destroy
  <2> HIDE DEF r
  <2>5. InOrder(r)
    BY <1>1, <1>6, <2>2 DEF Destroy, InOrder, Records
  <2>6. Agreed(r)
    BY <1>1, <1>6, <2>2 DEF Destroy, Agreed, InOrder
  <2> QED
    BY <2>1, <2>2, <2>3, <2>4, <2>5, <2>6, ShutdownAtInv
<1>7. CASE DestroyFails(p) \/ ShutdownTimesOut(p) \/ Kill(p)
  BY <1>1, <1>7, EndsInv DEF DestroyFails, ShutdownTimesOut, Kill
<1>8. CASE Exit(p)
  BY <1>1, <1>8, EndsInv DEF Exit, Records
<1> QED
  BY <1>2, <1>3, <1>4, <1>5, <1>6, <1>7, <1>8 DEF Shutdown

\* Every step of every process.
LEMMA ServerNextInv == ServerInv /\ [ServerNext]_serverVars => ServerInv'
<1> SUFFICES ASSUME ServerInv, [ServerNext]_serverVars PROVE ServerInv'
  OBVIOUS
<1>1. CASE ServerNext
  BY <1>1, StartInv, ShutdownInv, RequestInv DEF ServerNext
<1>2. CASE UNCHANGED serverVars
  BY <1>2 DEF serverVars, ServerInv, ServerTypeOK
<1> QED
  BY <1>1, <1>2

\* The invariant the others follow from.
THEOREM ServerInvariant == ServerSpec => []ServerInv
<1>1. ServerInit => ServerInv
  BY ServerInitInv
<1>2. ServerInv /\ [ServerNext]_serverVars => ServerInv'
  BY ServerNextInv
<1> QED
  BY <1>1, <1>2, PTL DEF ServerSpec

\* Every variable keeps its type, and who holds the lock of the migrations runs them.
THEOREM ServerTypesCorrect == ServerSpec => []ServerTypeOK
<1>1. ServerInv => ServerTypeOK
  BY DEF ServerInv
<1> QED
  BY <1>1, ServerInvariant, PTL

\* No request meets a database without its schema or a missing bucket.
THEOREM ListeningIsReady == ServerSpec => []ListensWhenReady
<1>1. ServerInv => ListensWhenReady
  BY DEF ServerInv, InPlace, Prepared, ListensWhenReady
<1> QED
  BY <1>1, ServerInvariant, PTL

\* The storages are not destroyed under a start or a request that is waited for.
THEOREM StoragesOutliveTheirUse == ServerSpec => []DestroyedAfterUse
<1>1. ServerInv => DestroyedAfterUse
  <2> SUFFICES ASSUME ServerInv, NEW p \in Processes, proc[p].destroyed
               PROVE  /\ proc[p].start \notin Starting
                      /\ proc[p].requests > 0 => proc[p].undrained
    BY DEF DestroyedAfterUse
  <2>1. proc[p] \in Records /\ InOrder(proc[p])
    BY DEF ServerInv, ServerTypeOK, Records, InPlace
  <2>2. proc[p].start = "returned" /\ ~proc[p].listening
    BY <2>1 DEF InOrder
  <2>3. proc[p].requests = 0 \/ proc[p].undrained
    BY <2>1, <2>2 DEF Records, InOrder, Shutdowns
  <2>4. proc[p].requests > 0 => proc[p].undrained
    BY <2>3
  <2> QED
    BY <2>2, <2>4 DEF Starting
<1> QED
  BY <1>1, ServerInvariant, PTL

\* Storages are in place from the first request to the last: a process listens
\* only when the start prepared them, and destroys them after their last use.
THEOREM ServerIsInOrder == ServerSpec => []ServerInOrder
<1>1. ListensWhenReady /\ DestroyedAfterUse => ServerInOrder
  BY DEF ServerInOrder
<1> QED
  BY <1>1, ListeningIsReady, StoragesOutliveTheirUse, PTL

\* Only five steps take a process down, and each takes its own process.
LEMMA OnlyEndsTakeDown ==
  ASSUME ServerInv, ServerNext, NEW p \in Processes, Up(p), proc'[p].start = "down"
  PROVE  \/ CleanUpStartFails(p) \/ DestroyFails(p) \/ ShutdownTimesOut(p)
         \/ Exit(p) \/ Kill(p)
<1>1. proc \in [Processes -> Records]
  BY DEF ServerInv, ServerTypeOK, Records
<1>2. PICK q \in Processes :
        Start(q) \/ Shutdown(q) \/ RequestArrives(q) \/ RequestEnds(q) \/ Signal(q) \/ Kill(q)
  BY DEF ServerNext
<1>3. \E r : proc' = [proc EXCEPT ![q] = r]
  <2>1. CASE Start(q)
    BY <1>1, <2>1 DEF Start, Spawn, Qualify, Lock, Migrate, HeadBucket, CreateBucket,
       CreateRootUserAndGroup, Listen, StartFails, CleanUpStart, CleanUpStartFails,
       GoOn, GoOnUnlessStopped, Ends
  <2>2. CASE Shutdown(q)
    BY <1>1, <2>2 DEF Shutdown, Close, Drained, DrainTimesOut, Destroy, DestroyFails,
       ShutdownTimesOut, Exit, Ends
  <2>3. CASE RequestArrives(q) \/ RequestEnds(q) \/ Signal(q) \/ Kill(q)
    BY <1>1, <2>3 DEF RequestArrives, RequestEnds, Signal, Kill, Ends
  <2> QED
    BY <1>2, <2>1, <2>2, <2>3
<1>4. p = q
  BY <1>1, <1>3 DEF Up
<1>5. CASE Start(p)
  <2>1. CASE Spawn(p)
    BY <2>1 DEF Spawn
  <2>2. CASE Qualify(p) \/ CreateRootUserAndGroup(p)
    BY <1>1, <2>2 DEF Qualify, CreateRootUserAndGroup, GoOn, GoOnUnlessStopped, Records
  <2>3. CASE Lock(p) \/ Migrate(p) \/ HeadBucket(p) \/ CreateBucket(p)
    <3>1. CASE Lock(p)
      BY <1>1, <3>1 DEF Lock, GoOn, Records
    <3>2. CASE Migrate(p)
      BY <1>1, <3>2, ZenonT(60) DEF Migrate, GoOn, Records
    <3>3. CASE HeadBucket(p)
      BY <1>1, <3>3, ZenonT(60) DEF HeadBucket, GoOn, Records
    <3>4. CASE CreateBucket(p)
      BY <1>1, <3>4, ZenonT(60) DEF CreateBucket, GoOn, Records
    <3> QED
      BY <2>3, <3>1, <3>2, <3>3, <3>4
  <2>4. CASE Listen(p) \/ StartFails(p) \/ CleanUpStart(p)
    BY <1>1, <2>4 DEF Listen, StartFails, CleanUpStart, Records
  <2> QED
    BY <1>5, <2>1, <2>2, <2>3, <2>4 DEF Start
<1>6. CASE Close(p) \/ Drained(p) \/ DrainTimesOut(p) \/ Destroy(p)
  <2>1. proc[p] \in Records /\ proc[p].start # "down"
    BY <1>1 DEF Up
  <2>2. CASE Close(p)
    BY <1>1, <2>1, <2>2 DEF Close, Records
  <2>3. CASE Drained(p)
    BY <1>1, <2>1, <2>3 DEF Drained, Records
  <2>4. CASE DrainTimesOut(p)
    BY <1>1, <2>1, <2>4 DEF DrainTimesOut, Records
  <2>5. CASE Destroy(p)
    BY <1>1, <2>1, <2>5 DEF Destroy, Records
  <2> QED
    BY <1>6, <2>2, <2>3, <2>4, <2>5
<1>7. CASE RequestArrives(p) \/ RequestEnds(p) \/ Signal(p)
  BY <1>1, <1>7 DEF RequestArrives, RequestEnds, Signal, Records, Up
<1> QED
  BY <1>2, <1>4, <1>5, <1>6, <1>7 DEF Shutdown

\* An exit code of 0 means a stop that was asked for and went well.
THEOREM ZeroTellsTheTruth == ServerSpec => ZeroMeansClean
<1> DEFINE Clean(p) == Up(p) /\ proc'[p].start = "down" /\ proc'[p].exitCode = 0 =>
                         /\ proc[p].shutdown = "done" /\ proc[p].destroyed
                         /\ proc[p].requests = 0 /\ ~proc[p].undrained
<1>1. ServerInv /\ [ServerNext]_serverVars => [\A p \in Processes : Clean(p)]_serverVars
  <2> SUFFICES ASSUME ServerInv, ServerNext, NEW p \in Processes, Up(p),
                      proc'[p].start = "down", proc'[p].exitCode = 0
               PROVE  /\ proc[p].shutdown = "done" /\ proc[p].destroyed
                      /\ proc[p].requests = 0 /\ ~proc[p].undrained
    BY DEF serverVars, Up
  <2>1. proc \in [Processes -> Records] /\ Agreed(proc[p])
    BY DEF ServerInv, ServerTypeOK, Records, InPlace
  <2>2. \A code \in {0, 1, 137} : Ends(p, code) => proc'[p].exitCode = code
    BY <2>1 DEF Ends, Down
  <2>3. Exit(p)
    BY <2>2, OnlyEndsTakeDown DEF CleanUpStartFails, DestroyFails, ShutdownTimesOut, Kill
  <2>4. proc[p].exitCode = 0
    BY <2>1, <2>2, <2>3 DEF Exit, Records
  <2>5. proc[p].shutdown = "done" /\ proc[p].destroyed /\ ~proc[p].undrained
    BY <2>1, <2>3, <2>4 DEF Exit, Agreed
  <2> QED
    BY <2>3, <2>5 DEF Exit
<1> QED
  BY <1>1, ServerInvariant, PTL DEF ServerSpec, ZeroMeansClean

-----------------------------------------------------------------------------
(***************************************************************************)
(* Sums over finite sets.  FoldFunctionOnSet is recursive over sets, so    *)
(* that a fact of all of them follows from a set of the smallest size that *)
(* is an exception to it (EverySubset).                                    *)
(***************************************************************************)
LEMMA SmallestOf ==
  ASSUME NEW T \in SUBSET Nat, T # {}
  PROVE  \E x \in T : \A y \in T : x <= y
<1>1. \E x \in T : \A y \in T : ~(<<y, x>> \in OpToRel(<, Nat))
  BY WFMin, NatLessThanWellFounded
<1>2. \A x, y \in T : <<y, x>> \in OpToRel(<, Nat) <=> y < x
  BY DEF OpToRel
<1>3. \E x \in T : \A y \in T : ~(y < x)
  BY <1>1, <1>2, Zenon
<1> QED
  BY <1>3

\* What holds of 0 and of each next number holds of all.
LEMMA EveryNumber ==
  ASSUME NEW T \in SUBSET Nat, 0 \in T, \A n \in T : n + 1 \in T
  PROVE  T = Nat
<1>1. SUFFICES ASSUME Nat \ T # {}
               PROVE  FALSE
  OBVIOUS
<1>2. PICK n \in Nat \ T : \A m \in Nat \ T : n <= m
  BY <1>1, SmallestOf
<1>3. n # 0 /\ n - 1 \in Nat /\ n - 1 \in T
  BY <1>2
<1> QED
  BY <1>2, <1>3

-----------------------------------------------------------------------------
Some(s) == CHOOSE x \in s : TRUE

\* g is the function that Total takes its value from.
Sums(g, f, S) ==
  g = [s \in SUBSET S |-> IF s = {} THEN 0 ELSE f[Some(s)] + g[s \ {Some(s)}]]

\* A set that is not empty has the element that a sum takes first.
LEMMA SomeIsIn ==
  ASSUME NEW s, s # {}
  PROVE  Some(s) \in s
BY DEF Some

\* What FoldFunctionOnSet comes down to.
LEMMA TotalIs ==
  ASSUME NEW f, NEW S
  PROVE  Total(f, S) = (CHOOSE g : Sums(g, f, S))[S]
BY Zenon DEF Total, FoldFunctionOnSet, MapThenFoldSet, Sums, Some


\* What holds of a set when it holds of those with one element less, holds of S.
LEMMA EverySubset ==
  ASSUME NEW S, IsFiniteSet(S), NEW G,
         \A s \in SUBSET S : (\A x \in s : s \ {x} \in G) => s \in G
  PROVE  S \in G
<1> DEFINE T == {n \in Nat : \A s \in SUBSET S : Cardinality(s) <= n => s \in G}
<1>1. \A s \in SUBSET S : IsFiniteSet(s) /\ Cardinality(s) \in Nat
  BY FS_Subset, FS_CardinalityType
<1>2. \A s \in SUBSET S : \A x \in s :
         s \ {x} \in SUBSET S /\ Cardinality(s \ {x}) = Cardinality(s) - 1
  BY <1>1, FS_RemoveElement
<1>3. 0 \in T
  <2>1. \A s \in SUBSET S : Cardinality(s) <= 0 => s = {}
    BY <1>1, FS_EmptySet
  <2> QED
    BY <2>1
<1>4. ASSUME NEW n \in T, NEW s \in SUBSET S, Cardinality(s) <= n + 1
      PROVE  s \in G
  <2>1. ASSUME NEW x \in s
        PROVE  s \ {x} \in G
    <3> DEFINE t == s \ {x}
    <3>1. t \in SUBSET S /\ Cardinality(t) = Cardinality(s) - 1 /\ n \in Nat
      BY <1>2
    <3>2. Cardinality(t) <= n
      BY <1>1, <1>4, <3>1
    <3> HIDE DEF t
    <3>3. t \in G
      BY <3>1, <3>2
    <3> QED
      BY <3>3 DEF t
  <2> QED
    BY <2>1
<1>5. \A n \in T : n + 1 \in T
  BY <1>4
<1>6. T \subseteq Nat
  OBVIOUS
<1>7. T = Nat
  <2> HIDE DEF T
  <2> QED
    BY <1>3, <1>5, <1>6, EveryNumber
<1> QED
  BY <1>1, <1>7

\* Sets of up to n elements of S.
UpTo(S, n) == {s \in SUBSET S : Cardinality(s) <= n}

\* A finite set has its sums, although they are defined by recursion.
LEMMA SumsExist ==
  ASSUME NEW f, NEW S, IsFiniteSet(S)
  PROVE  \E g : Sums(g, f, S)
<1> DEFINE Next1(g, s) == IF s = {} THEN 0 ELSE f[Some(s)] + g[s \ {Some(s)}]
           T == {n \in Nat : \E g : g = [s \in UpTo(S, n) |-> Next1(g, s)]}
<1>1. \A s \in SUBSET S :
        IsFiniteSet(s) /\ Cardinality(s) \in Nat /\ Cardinality(s) <= Cardinality(S)
  BY FS_Subset, FS_CardinalityType
<1>2. \A s \in SUBSET S : s # {} =>
         s \ {Some(s)} \in SUBSET S /\ Cardinality(s \ {Some(s)}) = Cardinality(s) - 1
  BY <1>1, SomeIsIn, FS_RemoveElement
<1>3. 0 \in T
  <2>1. \A s \in UpTo(S, 0) : s = {}
    BY <1>1, FS_EmptySet DEF UpTo
  <2> DEFINE g == [s \in UpTo(S, 0) |-> 0]
  <2>2. g = [s \in UpTo(S, 0) |-> Next1(g, s)]
    BY <2>1
  <2> QED
    BY <2>2
<1>4. ASSUME NEW n \in T
      PROVE  n + 1 \in T
  <2>1. PICK g : g = [s \in UpTo(S, n) |-> Next1(g, s)]
    OBVIOUS
  <2> DEFINE h == [s \in UpTo(S, n + 1) |-> Next1(g, s)]
  <2>2. ASSUME NEW s \in UpTo(S, n + 1)
        PROVE  Next1(g, s) = Next1(h, s)
    <3>1. CASE s = {}
      BY <3>1
    <3>2. CASE s # {}
      <4> DEFINE t == s \ {Some(s)}
      <4>1. s \in SUBSET S /\ Cardinality(s) <= n + 1 /\ n \in Nat
        BY DEF UpTo
      <4>2. t \in UpTo(S, n) /\ t \in UpTo(S, n + 1)
        BY <1>1, <1>2, <3>2, <4>1 DEF UpTo
      <4> HIDE DEF t, Next1
      <4>3. g[t] = h[t]
        BY <2>1, <4>2
      <4> QED
        BY <3>2, <4>3 DEF t, Next1
    <3> QED
      BY <3>1, <3>2
  <2>3. h = [s \in UpTo(S, n + 1) |-> Next1(h, s)]
    BY <2>2, Zenon
  <2>4. n + 1 \in Nat
    OBVIOUS
  <2> HIDE DEF h, Next1
  <2>5. \E k : k = [s \in UpTo(S, n + 1) |-> Next1(k, s)]
    BY <2>3
  <2> QED
    BY <2>4, <2>5
<1>5. T = Nat
  BY <1>3, <1>4, EveryNumber
<1>6. Cardinality(S) \in T
  BY <1>1, <1>5
<1>7. UpTo(S, Cardinality(S)) = SUBSET S
  BY <1>1 DEF UpTo
<1> QED
  BY <1>6, <1>7 DEF Sums

\* The sums of a set and those of one that it includes agree.
LEMMA SumsAgree ==
  ASSUME NEW f, NEW e, NEW S, IsFiniteSet(S), NEW R \in SUBSET S, NEW g, NEW h,
         Sums(g, f, S), Sums(h, e, R), \A x \in R : f[x] = e[x]
  PROVE  g[R] = h[R]
<1> DEFINE G == {s \in SUBSET R : g[s] = h[s]}
<1>1. g[{}] = 0 /\ h[{}] = 0
  BY DEF Sums
<1>2. ASSUME NEW s \in SUBSET R, \A x \in s : s \ {x} \in G
      PROVE  s \in G
  <2>1. CASE s = {}
    BY <1>1, <2>1
  <2>2. CASE s # {}
    <3> DEFINE t == s \ {Some(s)}
    <3>1. g[s] = f[Some(s)] + g[t] /\ h[s] = e[Some(s)] + h[t]
      BY <2>2 DEF Sums
    <3>2. Some(s) \in s
      BY <2>2, SomeIsIn
    <3> QED
      BY <1>2, <3>1, <3>2
  <2> QED
    BY <2>1, <2>2
<1>3. IsFiniteSet(R)
  BY FS_Subset
<1>4. R \in G
  <2> HIDE DEF G
  <2> QED
    BY <1>2, <1>3, EverySubset
<1> QED
  BY <1>4

\* A sum is found among the sums of the subsets.
LEMMA TotalSums ==
  ASSUME NEW f, NEW S, IsFiniteSet(S)
  PROVE  \E g : Sums(g, f, S) /\ Total(f, S) = g[S]
BY SumsExist, TotalIs

\* No terms, no sum.
LEMMA TotalOfNone ==
  ASSUME NEW f
  PROVE  Total(f, {}) = 0
<1>1. PICK g : Sums(g, f, {}) /\ Total(f, {}) = g[{}]
  BY TotalSums, FS_EmptySet
<1> QED
  BY <1>1 DEF Sums

\* Equal terms have equal sums.
LEMMA TotalSame ==
  ASSUME NEW f, NEW e, NEW S, IsFiniteSet(S), \A x \in S : f[x] = e[x]
  PROVE  Total(f, S) = Total(e, S)
<1>1. PICK g : Sums(g, f, S) /\ Total(f, S) = g[S]
  BY TotalSums
<1>2. PICK h : Sums(h, e, S) /\ Total(e, S) = h[S]
  BY TotalSums
<1>3. S \in SUBSET S
  OBVIOUS
<1> QED
  BY <1>1, <1>2, <1>3, SumsAgree

\* One step of the recursion.
LEMMA TotalOfSome ==
  ASSUME NEW f, NEW S, IsFiniteSet(S), S # {}
  PROVE  Total(f, S) = f[Some(S)] + Total(f, S \ {Some(S)})
<1> DEFINE R == S \ {Some(S)}
<1>1. IsFiniteSet(R) /\ R \in SUBSET S
  BY FS_Subset
<1>2. PICK g : Sums(g, f, S) /\ Total(f, S) = g[S]
  BY TotalSums
<1>3. PICK h : Sums(h, f, R) /\ Total(f, R) = h[R]
  BY <1>1, TotalSums
<1>4. g[S] = f[Some(S)] + g[R]
  BY <1>2 DEF Sums
<1>5. g[R] = h[R]
  BY <1>1, <1>2, <1>3, SumsAgree
<1> QED
  BY <1>2, <1>3, <1>4, <1>5

\* Sums of counts are counts.
LEMMA TotalIsNat ==
  ASSUME NEW S, IsFiniteSet(S), NEW f, \A x \in S : f[x] \in Nat
  PROVE  Total(f, S) \in Nat
<1> DEFINE G == {s \in SUBSET S : Total(f, s) \in Nat}
<1>1. ASSUME NEW s \in SUBSET S, \A x \in s : s \ {x} \in G
      PROVE  s \in G
  <2>1. CASE s = {}
    BY <2>1, TotalOfNone
  <2>2. CASE s # {}
    <3>1. IsFiniteSet(s)
      BY FS_Subset
    <3>2. Total(f, s) = f[Some(s)] + Total(f, s \ {Some(s)})
      BY <2>2, <3>1, TotalOfSome
    <3>3. Some(s) \in s
      BY <2>2, SomeIsIn
    <3> QED
      BY <1>1, <3>2, <3>3
  <2> QED
    BY <2>1, <2>2
<1>2. S \in G
  <2> HIDE DEF G
  <2> QED
    BY <1>1, EverySubset
<1> QED
  BY <1>2

\* Any element may be taken first.
LEMMA TotalTakes ==
  ASSUME NEW S, IsFiniteSet(S), NEW f, \A x \in S : f[x] \in Nat, NEW a \in S
  PROVE  Total(f, S) = f[a] + Total(f, S \ {a})
<1> DEFINE G == {s \in SUBSET S : \A x \in s : Total(f, s) = f[x] + Total(f, s \ {x})}
<1>1. \A s \in SUBSET S : IsFiniteSet(s) /\ Total(f, s) \in Nat
  BY FS_Subset, TotalIsNat
<1>2. ASSUME NEW s \in SUBSET S, \A x \in s : s \ {x} \in G, NEW x \in s
      PROVE  Total(f, s) = f[x] + Total(f, s \ {x})
  <2> DEFINE y == Some(s)
             t == s \ {x, y}
  <2>1. y \in s /\ Total(f, s) = f[y] + Total(f, s \ {y})
    BY <1>1, SomeIsIn, TotalOfSome
  <2> HIDE DEF y
  <2>2. CASE x = y
    BY <2>1, <2>2
  <2>3. CASE x # y
    <3>1. x \in s \ {y} /\ y \in s \ {x} /\ (s \ {y}) \ {x} = t /\ (s \ {x}) \ {y} = t
      BY <2>1, <2>3
    <3>2. Total(f, s \ {y}) = f[x] + Total(f, t) /\ Total(f, s \ {x}) = f[y] + Total(f, t)
      BY <1>2, <2>1, <3>1
    <3>3. f[x] \in Nat /\ f[y] \in Nat /\ Total(f, t) \in Nat
      BY <1>1, <2>1
    <3> QED
      BY <2>1, <3>2, <3>3
  <2> QED
    BY <2>2, <2>3
<1>3. \A s \in SUBSET S : (\A x \in s : s \ {x} \in G) => s \in G
  BY <1>2
<1>4. S \in G
  <2> HIDE DEF G
  <2> QED
    BY <1>3, EverySubset
<1> QED
  BY <1>4

\* One more of one term is one more of the sum.
LEMMA TotalCounts ==
  ASSUME NEW S, IsFiniteSet(S), NEW f, NEW e, \A x \in S : f[x] \in Nat, NEW a \in S,
         e[a] = f[a] + 1, \A x \in S \ {a} : e[x] = f[x]
  PROVE  Total(e, S) = Total(f, S) + 1
<1>1. \A x \in S : e[x] \in Nat
  OBVIOUS
<1>2. IsFiniteSet(S \ {a})
  BY FS_Subset
<1>3. Total(e, S \ {a}) = Total(f, S \ {a}) /\ Total(f, S \ {a}) \in Nat
  BY <1>2, TotalSame, TotalIsNat
<1>4. Total(e, S) = e[a] + Total(e, S \ {a}) /\ Total(f, S) = f[a] + Total(f, S \ {a})
  BY <1>1, TotalTakes
<1> QED
  BY <1>3, <1>4

\* The sum of sums.
LEMMA TotalAdds ==
  ASSUME NEW S, IsFiniteSet(S), NEW f, NEW e, NEW h,
         \A x \in S : e[x] \in Nat /\ h[x] \in Nat /\ f[x] <= e[x] + h[x] /\ f[x] \in Nat
  PROVE  Total(f, S) <= Total(e, S) + Total(h, S)
<1> DEFINE G == {s \in SUBSET S : Total(f, s) <= Total(e, s) + Total(h, s)}
<1>1. \A s \in SUBSET S : /\ IsFiniteSet(s) /\ Total(f, s) \in Nat
                          /\ Total(e, s) \in Nat /\ Total(h, s) \in Nat
  BY FS_Subset, TotalIsNat
<1>2. ASSUME NEW s \in SUBSET S, \A x \in s : s \ {x} \in G
      PROVE  s \in G
  <2>1. CASE s = {}
    BY <2>1, TotalOfNone
  <2>2. CASE s # {}
    <3> DEFINE t == s \ {Some(s)}
    <3>1. Some(s) \in s /\ Some(s) \in S
      BY <2>2, SomeIsIn
    <3>2. /\ Total(f, s) = f[Some(s)] + Total(f, t) /\ Total(e, s) = e[Some(s)] + Total(e, t)
          /\ Total(h, s) = h[Some(s)] + Total(h, t)
      BY <1>1, <2>2, TotalOfSome
    <3>3. Total(f, t) <= Total(e, t) + Total(h, t) /\ t \in SUBSET S
      BY <1>2, <3>1
    <3> HIDE DEF t
    <3>4. Total(f, t) \in Nat /\ Total(e, t) \in Nat /\ Total(h, t) \in Nat
      BY <1>1, <3>3
    <3> QED
      BY <3>1, <3>2, <3>3, <3>4
  <2> QED
    BY <2>1, <2>2
<1>3. S \in G
  <2> HIDE DEF G
  <2> QED
    BY <1>2, EverySubset
<1> QED
  BY <1>3

\* Zeros sum up to zero.
LEMMA TotalOfZeros ==
  ASSUME NEW S, IsFiniteSet(S), NEW f, \A x \in S : f[x] = 0
  PROVE  Total(f, S) = 0
<1> DEFINE G == {s \in SUBSET S : Total(f, s) = 0}
<1>1. ASSUME NEW s \in SUBSET S, \A x \in s : s \ {x} \in G
      PROVE  s \in G
  <2>1. CASE s = {}
    BY <2>1, TotalOfNone
  <2>2. CASE s # {}
    <3>1. IsFiniteSet(s)
      BY FS_Subset
    <3>2. Total(f, s) = f[Some(s)] + Total(f, s \ {Some(s)})
      BY <2>2, <3>1, TotalOfSome
    <3>3. Some(s) \in s
      BY <2>2, SomeIsIn
    <3> QED
      BY <1>1, <3>2, <3>3
  <2> QED
    BY <2>1, <2>2
<1>2. S \in G
  <2> HIDE DEF G
  <2> QED
    BY <1>1, EverySubset
<1> QED
  BY <1>2

\* Smaller terms have a smaller sum.
LEMMA TotalGrows ==
  ASSUME NEW S, IsFiniteSet(S), NEW f, NEW e,
         \A x \in S : f[x] \in Nat /\ e[x] \in Nat /\ f[x] <= e[x]
  PROVE  Total(f, S) <= Total(e, S)
<1> DEFINE zero == [x \in S |-> 0]
<1>1. Total(zero, S) = 0
  BY TotalOfZeros
<1>2. Total(f, S) <= Total(e, S) + Total(zero, S)
  <2>1. \A x \in S : zero[x] = 0
    OBVIOUS
  <2> HIDE DEF zero
  <2> QED
    BY <2>1, TotalAdds
<1>3. Total(e, S) \in Nat
  BY TotalIsNat
<1> QED
  BY <1>1, <1>2, <1>3

\* A sum may be taken in two parts.
LEMMA TotalSplits ==
  ASSUME NEW S, IsFiniteSet(S), NEW f, \A x \in S : f[x] \in Nat, NEW R \in SUBSET S
  PROVE  Total(f, S) = Total(f, R) + Total(f, S \ R)
<1> DEFINE Q == S \ R
           G == {s \in SUBSET Q : Total(f, R \cup s) = Total(f, R) + Total(f, s)}
<1>1. \A s \in SUBSET S : IsFiniteSet(s) /\ Total(f, s) \in Nat
  BY FS_Subset, TotalIsNat
<1>2. ASSUME NEW s \in SUBSET Q, \A x \in s : s \ {x} \in G
      PROVE  s \in G
  <2>1. CASE s = {}
    BY <1>1, <2>1, TotalOfNone
  <2>2. CASE s # {}
    <3>1. PICK x : x \in s
      BY <2>2
    <3> DEFINE t == s \ {x}
    <3>2. x \in S /\ s \in SUBSET S /\ R \cup s \in SUBSET S /\ (R \cup s) \ {x} = R \cup t
      BY <3>1
    <3>3. /\ Total(f, R \cup s) = f[x] + Total(f, R \cup t)
          /\ Total(f, s) = f[x] + Total(f, t)
      BY <1>1, <3>1, <3>2, TotalTakes
    <3>4. Total(f, R \cup t) = Total(f, R) + Total(f, t)
      BY <1>2, <3>1
    <3>5. f[x] \in Nat /\ Total(f, R) \in Nat /\ Total(f, t) \in Nat
      BY <1>1, <3>2
    <3> QED
      BY <3>3, <3>4, <3>5
  <2> QED
    BY <2>1, <2>2
<1>3. Q \in G
  <2>1. IsFiniteSet(Q)
    BY <1>1
  <2> HIDE DEF G, Q
  <2> QED
    BY <1>2, <2>1, EverySubset
<1>4. R \cup Q = S
  OBVIOUS
<1> QED
  BY <1>3, <1>4

\* Fewer terms have a smaller sum.
LEMMA TotalOfFewer ==
  ASSUME NEW S, IsFiniteSet(S), NEW f, \A x \in S : f[x] \in Nat, NEW R \in SUBSET S
  PROVE  Total(f, R) <= Total(f, S)
<1>1. IsFiniteSet(R) /\ IsFiniteSet(S \ R)
  BY FS_Subset
<1>2. Total(f, R) \in Nat /\ Total(f, S \ R) \in Nat
  BY <1>1, TotalIsNat
<1> QED
  BY <1>2, TotalSplits

-----------------------------------------------------------------------------
(***************************************************************************)
(* One window, over a series of counts by time.                            *)
(***************************************************************************)
Windows == [startedAt : Times, count : Nat]
Series == [Times -> Nat]
Opened(n) == [startedAt |-> n, count |-> 0]
Before(w) == {t \in Times : t < w.startedAt}
From(w) == {t \in Times : t >= w.startedAt}

\* Only what is less than a window ago is remembered.
Remembered(f, n) == \A t \in Times : f[t] # 0 => t <= n /\ n < t + Window

\* In a window at moment n the limit holds of what it counts and of what was before.
WindowHolds(f, w, limit, n) ==
  /\ w \in Windows /\ w.startedAt <= n /\ w.count <= limit
  /\ \A t \in Times : f[t] # 0 => t < w.startedAt + Window
  /\ Total(f, Before(w)) <= limit
  /\ Total(f, From(w)) <= w.count

\* Without a window there was at most what one window holds, and nothing just now.
Rested(f, limit, n) == f[n] = 0 /\ Total(f, Times) <= limit

\* The clock has an end.
LEMMA TimesAreFinite ==
  IsFiniteSet(Times) /\ Times \subseteq Nat /\ \A B \in SUBSET Times : IsFiniteSet(B)
<1>1. MaxTime \in Nat
  BY SignInAssumption
<1>2. IsFiniteSet(0 .. MaxTime)
  <2>1. 0 \in Int /\ MaxTime \in Int
    BY <1>1
  <2> QED
    BY <2>1, FS_Interval
<1>3. IsFiniteSet(Times) /\ Times \subseteq Nat
  BY <1>1, <1>2 DEF Times
<1> QED
  BY <1>3, FS_Subset

\* What a series holds in some instants, and in all.
LEMMA SeriesTotal ==
  ASSUME NEW f \in Series, NEW B \in SUBSET Times
  PROVE  Total(f, B) \in Nat /\ Total(f, B) <= Total(f, Times) /\ Total(f, Times) \in Nat
<1>1. \A x \in Times : f[x] \in Nat
  BY DEF Series
<1>2. \A x \in B : f[x] \in Nat
  BY <1>1
<1> QED
  BY <1>1, <1>2, TimesAreFinite, TotalIsNat, TotalOfFewer

\* A window cuts a series in two.
LEMMA WindowTotal ==
  ASSUME NEW f \in Series, NEW w \in Windows
  PROVE  /\ Total(f, Times) = Total(f, Before(w)) + Total(f, From(w))
         /\ Total(f, Before(w)) \in Nat /\ Total(f, From(w)) \in Nat
<1>1. \A x \in Times : f[x] \in Nat
  BY DEF Series
<1>2. w.startedAt \in Nat /\ \A t \in Times : t \in Nat
  BY TimesAreFinite DEF Windows
<1>3. Before(w) \in SUBSET Times /\ From(w) \in SUBSET Times
  BY DEF Before, From
<1>4. Times \ Before(w) = From(w)
  BY <1>2 DEF Before, From
<1>5. Total(f, Times) = Total(f, Before(w)) + Total(f, Times \ Before(w))
  BY <1>1, <1>3, TimesAreFinite, TotalSplits
<1> QED
  BY <1>3, <1>4, <1>5, SeriesTotal

\* A window that is over leaves nothing but what one window holds.
LEMMA OverIsRested ==
  ASSUME NEW f \in Series, NEW w, NEW limit \in Nat, NEW n \in Times,
         WindowHolds(f, w, limit, n), Remembered(f, n), n - w.startedAt >= Window
  PROVE  Rested(f, limit, n)
<1>1. w \in Windows /\ w.startedAt \in Nat /\ w.count \in Nat /\ n \in Nat /\ Window \in Nat
  BY TimesAreFinite, SignInAssumption DEF WindowHolds, Windows
<1>2. f[n] = 0
  BY <1>1 DEF WindowHolds
<1>3. \A t \in Before(w) : f[t] = 0
  BY <1>1, TimesAreFinite DEF Before, Remembered
<1>4. Total(f, Before(w)) = 0
  <2>1. IsFiniteSet(Before(w))
    BY TimesAreFinite DEF Before
  <2> QED
    BY <1>3, <2>1, TotalOfZeros
<1>5. Total(f, Times) = Total(f, Before(w)) + Total(f, From(w)) /\ Total(f, From(w)) \in Nat
  BY <1>1, WindowTotal
<1> QED
  BY <1>1, <1>2, <1>4, <1>5 DEF Rested, WindowHolds

\* Where nothing is left but one window's worth, a new window begins.
LEMMA RestedStarts ==
  ASSUME NEW f \in Series, NEW limit \in Nat, NEW n \in Times,
         Rested(f, limit, n), Remembered(f, n)
  PROVE  WindowHolds(f, Opened(n), limit, n)
<1> DEFINE w == Opened(n)
<1>1. w \in Windows /\ w.startedAt = n /\ w.count = 0 /\ n \in Nat /\ Window \in Nat \ {0}
  BY TimesAreFinite, SignInAssumption DEF Opened, Windows
<1> HIDE DEF w
<1>2. \A t \in Times : f[t] # 0 => t < n
  BY <1>1, TimesAreFinite DEF Remembered, Rested
<1>3. Total(f, From(w)) = 0
  <2>1. \A t \in From(w) : f[t] = 0
    BY <1>1, <1>2, TimesAreFinite DEF From
  <2>2. IsFiniteSet(From(w))
    BY TimesAreFinite DEF From
  <2> QED
    BY <2>1, <2>2, TotalOfZeros
<1>4. Total(f, Before(w)) <= limit
  <2>1. /\ Total(f, Before(w)) \in Nat /\ Total(f, Times) \in Nat
        /\ Total(f, Before(w)) <= Total(f, Times)
    BY SeriesTotal DEF Before
  <2> QED
    BY <2>1 DEF Rested
<1>5. \A t \in Times : f[t] # 0 => t < n + Window
  BY <1>1, <1>2, TimesAreFinite
<1> QED
  BY <1>1, <1>3, <1>4, <1>5 DEF WindowHolds, w

\* One more is counted now.
LEMMA OneMore ==
  ASSUME NEW f \in Series, NEW e \in Series, NEW w, NEW v, NEW limit \in Nat, NEW n \in Times,
         WindowHolds(f, w, limit, n), Remembered(f, n), n - w.startedAt < Window,
         w.count < limit, v = [startedAt |-> w.startedAt, count |-> w.count + 1],
         e[n] = f[n] + 1, \A t \in Times \ {n} : e[t] = f[t]
  PROVE  WindowHolds(e, v, limit, n) /\ Remembered(e, n)
<1>1. /\ w \in Windows /\ w.startedAt \in Nat /\ w.count \in Nat /\ n \in Nat
      /\ Window \in Nat \ {0} /\ w.startedAt <= n /\ \A t \in Times : f[t] \in Nat
  BY TimesAreFinite, SignInAssumption DEF WindowHolds, Windows, Series
<1>2. v \in Windows /\ v.startedAt = w.startedAt /\ v.count = w.count + 1
  BY <1>1 DEF Windows
<1>3. Before(v) = Before(w) /\ From(v) = From(w) /\ n \in From(w) /\ n \notin Before(w)
  BY <1>1, <1>2, TimesAreFinite DEF Before, From
<1>4. /\ IsFiniteSet(Before(w)) /\ IsFiniteSet(From(w))
      /\ Before(w) \subseteq Times /\ From(w) \subseteq Times
  BY TimesAreFinite DEF Before, From
<1>5. Total(e, Before(w)) = Total(f, Before(w))
  BY <1>3, <1>4, TotalSame
<1>6. Total(e, From(w)) = Total(f, From(w)) + 1
  <2>1. \A x \in From(w) : f[x] \in Nat
    BY <1>1, <1>4
  <2>2. \A x \in From(w) \ {n} : e[x] = f[x]
    BY <1>4
  <2> QED
    BY <1>3, <1>4, <2>1, <2>2, TotalCounts
<1>7. Total(f, From(w)) \in Nat
  BY <1>1, WindowTotal
<1>8. \A t \in Times : e[t] # 0 => t < v.startedAt + Window
  BY <1>1, <1>2, TimesAreFinite DEF WindowHolds
<1>9. Remembered(e, n)
  BY <1>1, TimesAreFinite DEF Remembered
<1> QED
  BY <1>1, <1>2, <1>3, <1>5, <1>6, <1>7, <1>8, <1>9 DEF WindowHolds

\* Time passes, and what is a window ago is forgotten.
Forgotten(f, n) == [t \in Times |-> IF t + Window > n THEN f[t] ELSE 0]

\* What is forgotten leaves fewer admissions, and the next instant has none.
LEMMA TimePasses ==
  ASSUME NEW f \in Series, NEW n \in Times, n + 1 \in Times, Remembered(f, n)
  PROVE  /\ Forgotten(f, n + 1) \in Series /\ Remembered(Forgotten(f, n + 1), n + 1)
         /\ \A B \in SUBSET Times : Total(Forgotten(f, n + 1), B) <= Total(f, B)
         /\ Forgotten(f, n + 1)[n + 1] = 0
<1> DEFINE e == Forgotten(f, n + 1)
<1>1. n \in Nat /\ Window \in Nat \ {0} /\ \A t \in Times : t \in Nat /\ f[t] \in Nat
  BY TimesAreFinite, SignInAssumption DEF Series
<1>2. e \in Series /\ \A t \in Times : e[t] = IF t + Window > n + 1 THEN f[t] ELSE 0
  BY <1>1 DEF Forgotten, Series
<1> HIDE DEF e
<1>3. \A t \in Times : e[t] \in Nat /\ e[t] <= f[t]
  BY <1>1, <1>2
<1>4. Remembered(e, n + 1)
  BY <1>1, <1>2 DEF Remembered
<1>5. e[n + 1] = 0
  BY <1>1, <1>2 DEF Remembered
<1>6. ASSUME NEW B \in SUBSET Times
      PROVE  Total(e, B) <= Total(f, B)
  <2>1. IsFiniteSet(B)
    BY TimesAreFinite
  <2>2. \A x \in B : f[x] \in Nat /\ e[x] \in Nat /\ e[x] <= f[x]
    BY <1>1, <1>3
  <2> QED
    BY <2>1, <2>2, TotalGrows
<1> QED
  BY <1>2, <1>4, <1>5, <1>6 DEF e

\* A window goes on in the next instant.
LEMMA TimePassesInWindow ==
  ASSUME NEW f \in Series, NEW n \in Times, n + 1 \in Times, Remembered(f, n),
         NEW w, NEW limit \in Nat, WindowHolds(f, w, limit, n)
  PROVE  WindowHolds(Forgotten(f, n + 1), w, limit, n + 1)
<1> DEFINE e == Forgotten(f, n + 1)
<1>1. e \in Series /\ Remembered(e, n + 1) /\ \A B \in SUBSET Times : Total(e, B) <= Total(f, B)
  BY TimePasses
<1>2. \A t \in Times : e[t] # 0 => f[t] # 0
  BY DEF Forgotten
<1> HIDE DEF e
<1>3. Before(w) \in SUBSET Times /\ From(w) \in SUBSET Times
  BY DEF Before, From
<1>4. w \in Windows /\ w.startedAt \in Nat /\ w.count \in Nat /\ n \in Nat
  BY TimesAreFinite DEF WindowHolds, Windows
<1>5. /\ Total(e, Before(w)) <= Total(f, Before(w)) /\ Total(e, From(w)) <= Total(f, From(w))
      /\ Total(e, Before(w)) \in Nat /\ Total(e, From(w)) \in Nat
      /\ Total(f, Before(w)) \in Nat /\ Total(f, From(w)) \in Nat
  BY <1>1, <1>3, SeriesTotal
<1>6. \A t \in Times : e[t] # 0 => t < w.startedAt + Window
  BY <1>2 DEF WindowHolds
<1> QED
  BY <1>4, <1>5, <1>6 DEF WindowHolds, e

\* And so does a rest.
LEMMA TimePassesAtRest ==
  ASSUME NEW f \in Series, NEW n \in Times, n + 1 \in Times, Remembered(f, n),
         NEW limit \in Nat, Rested(f, limit, n)
  PROVE  Rested(Forgotten(f, n + 1), limit, n + 1)
<1> DEFINE e == Forgotten(f, n + 1)
<1>1. e \in Series /\ e[n + 1] = 0 /\ \A B \in SUBSET Times : Total(e, B) <= Total(f, B)
  BY TimePasses
<1> HIDE DEF e
<1>2. Total(e, Times) <= Total(f, Times) /\ Total(e, Times) \in Nat /\ Total(f, Times) \in Nat
  BY <1>1, SeriesTotal
<1> QED
  BY <1>1, <1>2 DEF Rested, e

\* The admissions remembered are of this window and of one before it.
LEMMA TwoWindows ==
  ASSUME NEW f \in Series, NEW w, NEW limit \in Nat, NEW n \in Times,
         WindowHolds(f, w, limit, n)
  PROVE  Total(f, Times) <= 2 * limit
<1>1. w \in Windows /\ w.count \in Nat
  BY DEF WindowHolds, Windows
<1> QED
  BY <1>1, WindowTotal DEF WindowHolds

-----------------------------------------------------------------------------
(***************************************************************************)
(* What every variable of SignIn may hold.                                 *)
(***************************************************************************)
Offered == Versions \cup {NoDocument}
Fetches(answers) == [state : {"none", "sent", "served"}, sentAt : Times, answer : answers]
SourceWindows == UNION {[D -> Windows] : D \in SUBSET Sources}
Callers ==
  [ kind : {"none", "login", "callback"},
    pc : {"idle", "begin", "insert", "discover", "await document", "exchange", "await keys"},
    observed : Times, since : Times, document : Offered, key : Keys \cup {"none"},
    signedIn : BOOLEAN ]

SignInTyped ==
  /\ now \in Times
  /\ admission \in [global : Windows, sources : SourceWindows, active : Int]
  /\ logins \in Series
  /\ discovery \in [document : Offered, expiresAt : Nat, refresh : Fetches(Offered)]
  /\ jwksRefresh \in Fetches({0} \cup SUBSET Keys)
  /\ provider \in [document : Versions, keys : (SUBSET Keys) \ {{}},
                   replaced : [Versions -> Times], retired : [Keys -> Times]]
  /\ call \in [Calls -> Callers]
  /\ admitted \in [Sources -> Series]

\* Any calls can be counted.
LEMMA CallsAreFinite ==
  \A cs \in SUBSET Calls : IsFiniteSet(cs) /\ Cardinality(cs) \in Nat
BY SignInAssumption, FS_Subset, FS_CardinalityType

\* The limits and the instants are numbers.
LEMMA Amounts ==
  /\ {Window, PerSource, Concurrency, MaxSources, Hour, Capacity} \subseteq Nat \ {0}
  /\ {Global, DiscoveryTtl, HttpTimeout, MaxTime} \subseteq Nat /\ Window \in Times /\ 0 \in Times
  /\ \A t \in Times : t \in Nat /\ t <= MaxTime
BY SignInAssumption DEF Times

\* A call that is idle.
LEMMA NoCallYet ==
  /\ Idle \in Callers /\ Idle.pc = "idle" /\ Idle.since = 0
  /\ Idle.document = NoDocument /\ ~Idle.signedIn
BY Amounts DEF Idle, Callers, Offered

\* A fetch that was not sent.
LEMMA NoFetchYet ==
  \A answers : 0 \in answers => NoFetch \in Fetches(answers) /\ NoFetch.state = "none"
BY Amounts DEF NoFetch, Fetches

\* Ends of calls.
LEMMA FailedTyped ==
  ASSUME SignInTyped, NEW cs
  PROVE  /\ Failed(cs) \in [Calls -> Callers]
         /\ \A c \in Calls : Failed(cs)[c] = IF c \in cs THEN Idle ELSE call[c]
BY NoCallYet DEF SignInTyped, Failed

\* Calls that are given a document: a login ends with it, a callback goes on.
LEMMA ToldTyped ==
  ASSUME SignInTyped, NEW cs, NEW document \in Offered
  PROVE  /\ Told(cs, document) \in [Calls -> Callers]
         /\ \A c \in Calls \ cs : Told(cs, document)[c] = call[c]
         /\ \A c \in cs \cap Calls :
              /\ Told(cs, document)[c].since = 0 /\ Told(cs, document)[c].document = document
              /\ Told(cs, document)[c].kind = call[c].kind /\ ~Told(cs, document)[c].signedIn
              /\ (Told(cs, document)[c].pc = "idle") <=> (call[c].kind = "login")
<1> DEFINE told(c) == [Idle EXCEPT !.document = document, !.kind = call[c].kind,
                         !.pc = IF call[c].kind = "login" THEN "idle" ELSE "exchange"]
<1>1. ASSUME NEW c \in Calls
      PROVE  /\ told(c) \in Callers /\ told(c).since = 0 /\ told(c).document = document
             /\ told(c).kind = call[c].kind /\ ~told(c).signedIn
             /\ (told(c).pc = "idle") <=> (call[c].kind = "login")
  <2>1. call[c].kind \in {"none", "login", "callback"}
    BY DEF SignInTyped, Callers
  <2> QED
    BY <2>1, Amounts DEF Idle, Callers, Offered
<1>2. Told(cs, document) = [c \in Calls |-> IF c \notin cs THEN call[c] ELSE told(c)]
  BY DEF Told
<1> HIDE DEF told
<1> QED
  BY <1>1, <1>2 DEF SignInTyped

\* Calls that give back their places leave the windows alone.
LEMMA ReleasedTyped ==
  ASSUME SignInTyped, NEW cs \in SUBSET Calls
  PROVE  /\ Released(cs) \in [global : Windows, sources : SourceWindows, active : Int]
         /\ Released(cs).global = admission.global /\ Released(cs).sources = admission.sources
         /\ Released(cs).active =
              admission.active - Cardinality({c \in cs : call[c].kind = "login"})
<1> DEFINE n == Cardinality({c \in cs : call[c].kind = "login"})
<1>1. n \in Nat
  BY CallsAreFinite
<1>2. Released(cs) = [admission EXCEPT !.active = @ - n]
  BY DEF Released
<1> HIDE DEF n
<1>3. /\ Released(cs) \in [global : Windows, sources : SourceWindows, active : Int]
      /\ Released(cs).global = admission.global /\ Released(cs).sources = admission.sources
      /\ Released(cs).active = admission.active - n
  BY <1>1, <1>2 DEF SignInTyped
<1> QED
  BY <1>3 DEF n

\* The windows at an admission.
LEMMA WindowsTyped ==
  ASSUME SignInTyped
  PROVE  /\ Fresh = Opened(now) /\ Fresh \in Windows
         /\ Reset(admission.global) \in Windows
         /\ DOMAIN admission.sources \subseteq Sources
         /\ \A s \in DOMAIN admission.sources : admission.sources[s] \in Windows
         /\ DOMAIN Recent = {s \in DOMAIN admission.sources : ~Expired(admission.sources[s])}
         /\ \A s \in DOMAIN Recent : Recent[s] = admission.sources[s]
         /\ \A s \in Sources : WindowOf(s) \in Windows
<1>1. /\ DOMAIN admission.sources \subseteq Sources
      /\ \A s \in DOMAIN admission.sources : admission.sources[s] \in Windows
  BY DEF SignInTyped, SourceWindows
<1>2. Fresh = Opened(now) /\ Fresh \in Windows
  BY Amounts DEF Fresh, Opened, Windows, SignInTyped
<1>3. Reset(admission.global) \in Windows
  BY <1>2 DEF Reset, SignInTyped
<1>4. /\ DOMAIN Recent = {s \in DOMAIN admission.sources : ~Expired(admission.sources[s])}
      /\ \A s \in DOMAIN Recent : Recent[s] = admission.sources[s]
  BY DEF Recent
<1>5. \A s \in Sources : WindowOf(s) \in Windows
  BY <1>1, <1>2, <1>4 DEF WindowOf
<1> QED
  BY <1>1, <1>2, <1>3, <1>4, <1>5

\* A source gets a window.
LEMMA SourcesExtended ==
  ASSUME SignInTyped, NEW s \in Sources, NEW w \in Windows
  PROVE  LET extended == WithWindow(s, w)
         IN  /\ extended \in SourceWindows /\ DOMAIN extended = DOMAIN Recent \cup {s}
             /\ extended[s] = w /\ \A r \in DOMAIN Recent \ {s} : extended[r] = Recent[r]
<1> DEFINE extended == WithWindow(s, w)
<1>1. /\ DOMAIN extended = DOMAIN Recent \cup {s}
      /\ extended = [r \in DOMAIN Recent \cup {s} |-> IF r = s THEN w ELSE Recent[r]]
  BY DEF WithWindow
<1>2. DOMAIN Recent \cup {s} \in SUBSET Sources
  BY WindowsTyped
<1>3. \A r \in DOMAIN Recent : Recent[r] \in Windows
  BY WindowsTyped
<1>4. extended \in [DOMAIN Recent \cup {s} -> Windows]
  BY <1>1, <1>3
<1> QED
  BY <1>1, <1>2, <1>4 DEF SourceWindows

\* The windows that are not over are windows of sources.
LEMMA RecentTyped ==
  ASSUME SignInTyped
  PROVE  Recent \in SourceWindows
<1>1. Recent \in [DOMAIN Recent -> Windows] /\ DOMAIN Recent \in SUBSET Sources
  BY WindowsTyped DEF Recent
<1> QED
  BY <1>1 DEF SourceWindows

-----------------------------------------------------------------------------
AdmissionTypes == [global : Windows, sources : SourceWindows, active : Int]

\* Admissions keep the types.
LEMMA AdmitTyped ==
  ASSUME SignInTyped, NEW c \in Calls, NEW s \in Sources, Admit(c, s) \/ TurnAway(c, s)
  PROVE  SignInTyped'
<1>1. CASE Admit(c, s)
  <2>1. [Reset(admission.global) EXCEPT !.count = @ + 1] \in Windows
    BY WindowsTyped DEF Windows
  <2>2. [WindowOf(s) EXCEPT !.count = @ + 1] \in Windows
    BY WindowsTyped DEF Windows
  <2>3. admission' \in AdmissionTypes
    <3>1. WithWindow(s, [WindowOf(s) EXCEPT !.count = @ + 1]) \in SourceWindows
      BY <2>2, SourcesExtended
    <3>2. admission.active + 1 \in Int
      BY DEF SignInTyped
    <3> QED
      BY <1>1, <2>1, <3>1, <3>2 DEF Admit, AdmissionTypes
  <2>4. admitted' \in [Sources -> Series]
    BY <1>1 DEF Admit, SignInTyped, Series
  <2>5. [Idle EXCEPT !.kind = "login", !.pc = "begin"] \in Callers
    BY Amounts DEF Idle, Callers, Offered
  <2>6. call' \in [Calls -> Callers]
    BY <1>1, <2>5 DEF Admit, SignInTyped
  <2> QED
    BY <1>1, <2>3, <2>4, <2>6 DEF Admit, SignInTyped, AdmissionTypes
<1>2. CASE TurnAway(c, s)
  <2>1. admission' \in AdmissionTypes
    <3>1. (IF Room(s) THEN WithWindow(s, WindowOf(s)) ELSE Recent) \in SourceWindows
      BY SourcesExtended, RecentTyped, WindowsTyped
    <3> QED
      BY <1>2, <3>1, WindowsTyped DEF TurnAway, AdmissionTypes, SignInTyped
  <2> QED
    BY <1>2, <2>1 DEF TurnAway, SignInTyped, AdmissionTypes
<1> QED
  BY <1>1, <1>2

\* The login transaction keeps the types.
LEMMA DatabaseTyped ==
  ASSUME SignInTyped, NEW c \in Calls, ReadClock(c) \/ BeginLogin(c) \/ BeginFails(c)
  PROVE  SignInTyped'
<1>1. CASE ReadClock(c)
  <2>1. [call[c] EXCEPT !.pc = "insert", !.observed = now] \in Callers
    <3>1. call[c] \in Callers /\ now \in Times
      BY DEF SignInTyped
    <3> QED
      BY <3>1 DEF Callers
  <2>2. call' = [call EXCEPT ![c] = [call[c] EXCEPT !.pc = "insert", !.observed = now]]
    BY <1>1 DEF ReadClock, SignInTyped
  <2>3. call' \in [Calls -> Callers]
    BY <2>1, <2>2 DEF SignInTyped
  <2> QED
    BY <1>1, <2>3 DEF ReadClock, SignInTyped
<1>2. CASE BeginLogin(c)
  <2>1. call' \in [Calls -> Callers]
    <3>1. [call[c] EXCEPT !.pc = "discover"] \in Callers
      <4>1. call[c] \in Callers
        BY DEF SignInTyped
      <4> QED
        BY <4>1 DEF Callers
    <3>2. [call EXCEPT ![c].pc = "discover"] \in [Calls -> Callers]
      BY <3>1 DEF SignInTyped
    <3> QED
      BY <1>2, <3>2, FailedTyped DEF BeginLogin
  <2>2. logins' \in Series
    <3>1. call[c].observed \in Times
      BY DEF SignInTyped, Callers
    <3>2. logins[call[c].observed] + 1 \in Nat
      BY <3>1 DEF SignInTyped, Series
    <3> QED
      BY <1>2, <3>1, <3>2 DEF BeginLogin, SignInTyped, Series
  <2>3. admission' \in AdmissionTypes
    <3>1. {c} \in SUBSET Calls
      OBVIOUS
    <3>2. Released({c}) \in AdmissionTypes /\ admission \in AdmissionTypes
      BY <3>1, ReleasedTyped DEF AdmissionTypes, SignInTyped
    <3> QED
      BY <1>2, <3>2 DEF BeginLogin
  <2> QED
    BY <1>2, <2>1, <2>2, <2>3 DEF BeginLogin, SignInTyped, AdmissionTypes
<1>3. CASE BeginFails(c)
  <2>1. {c} \in SUBSET Calls
    OBVIOUS
  <2> QED
    BY <1>3, <2>1, FailedTyped, ReleasedTyped DEF BeginFails, SignInTyped
<1> QED
  BY <1>1, <1>2, <1>3

\* The discovery document keeps the types.
LEMMA DiscoveryTyped ==
  ASSUME SignInTyped,
         \/ \E c \in Calls : KnowDocument(c) \/ FetchDocument(c)
         \/ ServeDocument \/ DocumentArrives \/ DocumentFails
  PROVE  SignInTyped'
<1>1. ASSUME NEW c \in Calls, KnowDocument(c)
      PROVE  SignInTyped'
  <2>1. call' \in [Calls -> Callers]
    BY <1>1, ToldTyped DEF KnowDocument, SignInTyped
  <2>2. admission' \in AdmissionTypes
    BY <1>1, ReleasedTyped DEF KnowDocument, AdmissionTypes
  <2> QED
    BY <1>1, <2>1, <2>2 DEF KnowDocument, SignInTyped, AdmissionTypes
<1>2. ASSUME NEW c \in Calls, FetchDocument(c)
      PROVE  SignInTyped'
  <2>1. call' \in [Calls -> Callers]
    <3>1. [call[c] EXCEPT !.pc = "await document", !.since = now] \in Callers
      <4>1. call[c] \in Callers /\ now \in Times
        BY DEF SignInTyped
      <4> QED
        BY <4>1 DEF Callers
    <3>2. call' = [call EXCEPT ![c] = [call[c] EXCEPT !.pc = "await document", !.since = now]]
      BY <1>2 DEF FetchDocument, SignInTyped
    <3> QED
      BY <3>1, <3>2 DEF SignInTyped
  <2>2. Sent \in Fetches(Offered)
    BY DEF Sent, Fetches, SignInTyped, Offered, NoDocument
  <2>3. discovery' \in [document : Offered, expiresAt : Nat, refresh : Fetches(Offered)]
    BY <1>2, <2>2 DEF FetchDocument, SignInTyped
  <2> QED
    BY <1>2, <2>1, <2>3 DEF FetchDocument, SignInTyped
<1>3. CASE ServeDocument
  <2>1. Served(discovery.refresh, provider.document) \in Fetches(Offered)
    BY DEF Served, Fetches, SignInTyped, Offered
  <2> QED
    BY <1>3, <2>1 DEF ServeDocument, SignInTyped
<1>4. CASE DocumentArrives \/ DocumentFails
  <2>1. Awaiting("await document") \in SUBSET Calls
    BY DEF Awaiting
  <2>2. discovery.refresh.answer \in Offered /\ now \in Nat /\ DiscoveryTtl \in Nat
    BY Amounts DEF SignInTyped, Fetches
  <2>3. NoFetch \in Fetches(Offered)
    BY NoFetchYet DEF Offered, NoDocument
  <2>4. discovery' \in [document : Offered, expiresAt : Nat, refresh : Fetches(Offered)]
    <3>1. CASE DocumentArrives
      <4>1. discovery' = [document |-> discovery.refresh.answer,
                          expiresAt |-> now + DiscoveryTtl, refresh |-> NoFetch]
        BY <3>1 DEF DocumentArrives
      <4>2. now + DiscoveryTtl \in Nat
        BY <2>2
      <4> QED
        BY <2>2, <2>3, <4>1, <4>2
    <3>2. CASE DocumentFails
      BY <2>3, <3>2 DEF DocumentFails, SignInTyped
    <3> QED
      BY <1>4, <3>1, <3>2
  <2>5. call' \in [Calls -> Callers]
    <3>1. Told(Awaiting("await document"), discovery.refresh.answer) \in [Calls -> Callers]
      BY <2>2, ToldTyped
    <3>2. Failed(Awaiting("await document")) \in [Calls -> Callers]
      BY FailedTyped
    <3> QED
      BY <1>4, <3>1, <3>2 DEF DocumentArrives, DocumentFails
  <2>6. admission' \in AdmissionTypes
    BY <1>4, <2>1, ReleasedTyped DEF DocumentArrives, DocumentFails, AdmissionTypes
  <2> QED
    BY <1>4, <2>4, <2>5, <2>6 DEF DocumentArrives, DocumentFails, SignInTyped, AdmissionTypes
<1> QED
  BY <1>1, <1>2, <1>3, <1>4

\* Callbacks and the keys keep the types.
LEMMA KeysFetchTyped ==
  ASSUME SignInTyped,
         \/ \E c \in Calls : Callback(c) \/ Exchange(c) \/ ExchangeFails(c)
         \/ ServeKeys \/ KeysArrive \/ KeysFail
  PROVE  SignInTyped'
<1> DEFINE Answers == {0} \cup SUBSET Keys
<1>1. ASSUME NEW c \in Calls, Callback(c)
      PROVE  SignInTyped'
  <2>1. [Idle EXCEPT !.kind = "callback", !.pc = "discover"] \in Callers
    BY Amounts DEF Idle, Callers, Offered
  <2> QED
    BY <1>1, <2>1 DEF Callback, SignInTyped
<1>2. ASSUME NEW c \in Calls, Exchange(c)
      PROVE  SignInTyped'
  <2>1. \A key \in Keys : [Idle EXCEPT !.kind = "callback", !.pc = "await keys",
                                       !.key = key, !.since = now] \in Callers
    <3>1. now \in Times /\ 0 \in Times
      BY Amounts DEF SignInTyped
    <3> QED
      BY <3>1 DEF Idle, Callers, Offered
  <2>2. Sent \in Fetches(Answers)
    BY DEF Sent, Fetches, SignInTyped
  <2>3. call' \in [Calls -> Callers]
    BY <1>2, <2>1, ZenonT(60) DEF Exchange, SignInTyped
  <2>4. jwksRefresh' \in Fetches(Answers)
    BY <1>2, <2>2 DEF Exchange, SignInTyped
  <2> QED
    BY <1>2, <2>3, <2>4 DEF Exchange, SignInTyped
<1>3. ASSUME NEW c \in Calls, ExchangeFails(c)
      PROVE  SignInTyped'
  BY <1>3, FailedTyped DEF ExchangeFails, SignInTyped
<1>4. CASE ServeKeys
  <2>1. Served(jwksRefresh, provider.keys) \in Fetches(Answers)
    BY DEF Served, Fetches, SignInTyped
  <2> QED
    BY <1>4, <2>1 DEF ServeKeys, SignInTyped
<1>5. CASE KeysArrive
  <2>1. ASSUME NEW c \in Calls
        PROVE  Judged(call[c].key, jwksRefresh.answer) \in Callers
    <3>1. (call[c].key \in jwksRefresh.answer) \in BOOLEAN
      OBVIOUS
    <3> QED
      BY <3>1, Amounts DEF Judged, Idle, Callers, Offered
  <2>2. call' \in [Calls -> Callers]
    BY <1>5, <2>1 DEF KeysArrive, SignInTyped
  <2>3. NoFetch \in Fetches(Answers)
    BY NoFetchYet
  <2> QED
    BY <1>5, <2>2, <2>3 DEF KeysArrive, SignInTyped
<1>6. CASE KeysFail
  <2>1. NoFetch \in Fetches(Answers)
    BY NoFetchYet
  <2> QED
    BY <1>6, <2>1, FailedTyped DEF KeysFail, SignInTyped
<1> QED
  BY <1>1, <1>2, <1>3, <1>4, <1>5, <1>6

\* The provider and the clock keep the types.
LEMMA AroundTyped ==
  ASSUME SignInTyped, ReplaceDocument \/ (\E k \in Keys : RetireKey(k)) \/ Tick
  PROVE  SignInTyped'
<1>1. CASE ReplaceDocument
  <2>1. provider' \in [document : Versions, keys : (SUBSET Keys) \ {{}},
                       replaced : [Versions -> Times], retired : [Keys -> Times]]
    BY <1>1 DEF ReplaceDocument, SignInTyped
  <2> QED
    BY <1>1, <2>1 DEF ReplaceDocument, SignInTyped
<1>2. ASSUME NEW k \in Keys, RetireKey(k)
      PROVE  SignInTyped'
  <2>1. provider' \in [document : Versions, keys : (SUBSET Keys) \ {{}},
                       replaced : [Versions -> Times], retired : [Keys -> Times]]
    <3> DEFINE Left == provider.keys \ {k}
               Retired == [provider.retired EXCEPT ![k] = now]
    <3>1. /\ provider.document \in Versions /\ provider.keys \in SUBSET Keys
          /\ provider.replaced \in [Versions -> Times]
          /\ provider.retired \in [Keys -> Times] /\ now \in Times
      BY DEF SignInTyped
    <3>2. Left \in (SUBSET Keys) \ {{}}
      BY <1>2, <3>1 DEF RetireKey
    <3>3. Retired \in [Keys -> Times]
      BY <3>1
    <3>4. provider' = [provider EXCEPT !.keys = Left, !.retired = Retired]
      BY <1>2 DEF RetireKey
    <3>5. provider' = [document |-> provider.document, keys |-> Left,
                       replaced |-> provider.replaced, retired |-> Retired]
      BY <3>4 DEF SignInTyped
    <3> HIDE DEF Left, Retired
    <3> QED
      BY <3>1, <3>2, <3>3, <3>5
  <2> QED
    BY <1>2, <2>1 DEF RetireKey, SignInTyped
<1>3. CASE Tick
  <2>1. now' \in Times
    BY <1>3, Amounts, SMTT(30) DEF Tick, SignInTyped, Times
  <2>2. admitted' \in [Sources -> Series]
    BY <1>3 DEF Tick, SignInTyped, Series
  <2> QED
    BY <1>3, <2>1, <2>2 DEF Tick, SignInTyped
<1> QED
  BY <1>1, <1>2, <1>3

-----------------------------------------------------------------------------
(***************************************************************************)
(* The windows of admissions.                                              *)
(***************************************************************************)
Together(a) == [t \in Times |-> Total([s \in Sources |-> a[s][t]], Sources)]
Everyone == Together(admitted)

SourceInOrder(s) ==
  IF s \in DOMAIN admission.sources
  THEN WindowHolds(admitted[s], admission.sources[s], PerSource, now)
  ELSE Rested(admitted[s], PerSource, now)

AdmissionInOrder ==
  /\ Cardinality(DOMAIN admission.sources) <= MaxSources
  /\ \A s \in Sources : Remembered(admitted[s], now) /\ SourceInOrder(s)
  /\ WindowHolds(Everyone, admission.global, Global, now)

\* The series of all sources is one, and remembers what they do.
LEMMA TogetherIs ==
  ASSUME NEW a \in [Sources -> Series], NEW n
  PROVE  /\ Together(a) \in Series
         /\ (\A s \in Sources : Remembered(a[s], n)) => Remembered(Together(a), n)
<1> DEFINE counts(t) == [s \in Sources |-> a[s][t]]
<1>1. ASSUME NEW t \in Times
      PROVE  \A s \in Sources : counts(t)[s] = a[s][t] /\ counts(t)[s] \in Nat
  BY DEF Series
<1>2. ASSUME NEW t \in Times
      PROVE  Total(counts(t), Sources) \in Nat
  BY <1>1, TotalIsNat, SignInAssumption
<1>3. \A t \in Times : Together(a)[t] = Total(counts(t), Sources)
  BY DEF Together
<1>4. Together(a) \in Series
  BY <1>2 DEF Together, Series
<1>5. ASSUME \A s \in Sources : Remembered(a[s], n), NEW t \in Times, Together(a)[t] # 0
      PROVE  t <= n /\ n < t + Window
  <2>1. PICK s \in Sources : a[s][t] # 0
    <3>1. SUFFICES ASSUME \A s \in Sources : a[s][t] = 0
                   PROVE  FALSE
      OBVIOUS
    <3>2. \A s \in Sources : counts(t)[s] = 0
      BY <3>1
    <3> HIDE DEF counts
    <3>3. Total(counts(t), Sources) = 0
      BY <3>2, TotalOfZeros, SignInAssumption
    <3> QED
      BY <1>3, <1>5, <3>3
  <2> QED
    BY <1>5, <2>1 DEF Remembered
<1> QED
  BY <1>4, <1>5 DEF Remembered

\* The same, of the admissions.
LEMMA EveryoneIs ==
  ASSUME SignInTyped
  PROVE  /\ Everyone \in Series
         /\ (\A s \in Sources : Remembered(admitted[s], now)) => Remembered(Everyone, now)
BY TogetherIs DEF Everyone, SignInTyped

\* A window of a source that is not over, or a new one.
LEMMA ResetWindow ==
  ASSUME NEW f \in Series, NEW w, NEW limit \in Nat, NEW n \in Times,
         WindowHolds(f, w, limit, n), Remembered(f, n)
  PROVE  WindowHolds(f, IF n - w.startedAt >= Window THEN Opened(n) ELSE w, limit, n)
<1>1. CASE n - w.startedAt >= Window
  BY <1>1, OverIsRested, RestedStarts
<1>2. CASE ~(n - w.startedAt >= Window)
  BY <1>2
<1> QED
  BY <1>1, <1>2

\* The window that an admission finds for a source is right and not over.
LEMMA SourceWindow ==
  ASSUME SignInTyped, AdmissionInOrder, NEW s \in Sources
  PROVE  /\ WindowHolds(admitted[s], WindowOf(s), PerSource, now)
         /\ now - WindowOf(s).startedAt < Window
         /\ s \notin DOMAIN Recent => Rested(admitted[s], PerSource, now)
<1>1. /\ admitted[s] \in Series /\ now \in Times /\ PerSource \in Nat
      /\ Remembered(admitted[s], now) /\ SourceInOrder(s)
  BY Amounts DEF SignInTyped, AdmissionInOrder
<1>2. /\ now \in Nat /\ Window \in Nat \ {0}
      /\ Fresh = Opened(now) /\ Fresh.startedAt = now
  BY Amounts DEF SignInTyped, Opened, Fresh
<1>3. CASE s \in DOMAIN Recent
  <2>1. /\ s \in DOMAIN admission.sources /\ WindowOf(s) = admission.sources[s]
        /\ ~Expired(admission.sources[s]) /\ admission.sources[s].startedAt \in Times
    BY <1>3, WindowsTyped DEF WindowOf, Windows
  <2>2. WindowHolds(admitted[s], WindowOf(s), PerSource, now)
    BY <1>1, <2>1 DEF SourceInOrder
  <2>3. ~(now - WindowOf(s).startedAt >= Window) /\ WindowOf(s).startedAt \in Nat
    BY <2>1, Amounts DEF Expired
  <2> QED
    BY <1>2, <1>3, <2>2, <2>3
<1>4. CASE s \notin DOMAIN Recent
  <2>1. Rested(admitted[s], PerSource, now)
    <3>1. CASE s \in DOMAIN admission.sources
      <4>1. Expired(admission.sources[s])
        BY <1>4, <3>1, WindowsTyped
      <4> QED
        BY <1>1, <3>1, <4>1, OverIsRested DEF SourceInOrder, Expired
    <3>2. CASE s \notin DOMAIN admission.sources
      BY <1>1, <3>2 DEF SourceInOrder
    <3> QED
      BY <3>1, <3>2
  <2>2. WindowOf(s) = Opened(now)
    BY <1>2, <1>4 DEF WindowOf
  <2>3. WindowHolds(admitted[s], Opened(now), PerSource, now)
    BY <1>1, <2>1, RestedStarts
  <2> QED
    BY <1>2, <1>4, <2>1, <2>2, <2>3
<1> QED
  BY <1>3, <1>4

\* So is that of all sources.
LEMMA GlobalWindow ==
  ASSUME SignInTyped, AdmissionInOrder
  PROVE  /\ WindowHolds(Everyone, Reset(admission.global), Global, now)
         /\ now - Reset(admission.global).startedAt < Window
<1>1. /\ Everyone \in Series /\ Remembered(Everyone, now) /\ now \in Times /\ Global \in Nat
      /\ WindowHolds(Everyone, admission.global, Global, now)
  BY EveryoneIs, Amounts DEF SignInTyped, AdmissionInOrder
<1>2. /\ now \in Nat /\ Window \in Nat \ {0} /\ admission.global.startedAt \in Nat
      /\ Fresh = Opened(now) /\ Fresh.startedAt = now
  BY Amounts DEF SignInTyped, Opened, Fresh, Windows
<1>3. Reset(admission.global) =
        IF now - admission.global.startedAt >= Window THEN Opened(now) ELSE admission.global
  BY <1>2 DEF Reset, Expired
<1> QED
  BY <1>1, <1>2, <1>3, ResetWindow

\* Sources that are remembered are not too many.
LEMMA RoomForSources ==
  ASSUME SignInTyped, AdmissionInOrder, NEW s \in Sources, NEW w
  PROVE  /\ Cardinality(DOMAIN Recent) <= MaxSources
         /\ Room(s) => Cardinality(DOMAIN WithWindow(s, w)) <= MaxSources
<1>1. /\ IsFiniteSet(DOMAIN admission.sources) /\ DOMAIN Recent \subseteq DOMAIN admission.sources
      /\ MaxSources \in Nat
  BY WindowsTyped, SignInAssumption, Amounts, FS_Subset
<1>2. /\ IsFiniteSet(DOMAIN Recent)
      /\ Cardinality(DOMAIN Recent) <= Cardinality(DOMAIN admission.sources)
  BY <1>1, FS_Subset
<1>3. Cardinality(DOMAIN Recent) \in Nat /\ Cardinality(DOMAIN admission.sources) \in Nat
  BY <1>1, <1>2, FS_CardinalityType
<1>4. DOMAIN WithWindow(s, w) = DOMAIN Recent \cup {s}
  BY DEF WithWindow
<1>5. Cardinality(DOMAIN Recent \cup {s}) =
        IF s \in DOMAIN Recent THEN Cardinality(DOMAIN Recent) ELSE Cardinality(DOMAIN Recent) + 1
  BY <1>2, FS_AddElement
<1> QED
  BY <1>1, <1>2, <1>3, <1>4, <1>5 DEF Room, AdmissionInOrder

\* An admission is counted once for its source and once for all.
LEMMA AdmitInOrder ==
  ASSUME SignInTyped, AdmissionInOrder, NEW c \in Calls, NEW s \in Sources, Admit(c, s)
  PROVE  AdmissionInOrder'
<1> DEFINE w == [WindowOf(s) EXCEPT !.count = @ + 1]
           v == [Reset(admission.global) EXCEPT !.count = @ + 1]
<1>1. /\ now' = now /\ admission'.global = v /\ admission'.sources = WithWindow(s, w)
      /\ Room(s) /\ BelowLimits(s)
      /\ admitted' = [admitted EXCEPT ![s][now] = @ + 1]
  BY DEF Admit
<1>2. /\ now \in Times /\ PerSource \in Nat /\ Global \in Nat
      /\ \A r \in Sources : admitted[r] \in Series /\ Remembered(admitted[r], now)
  BY Amounts DEF SignInTyped, AdmissionInOrder
<1>3. /\ \A r \in Sources \ {s} : admitted'[r] = admitted[r]
      /\ admitted'[s] \in Series /\ admitted'[s][now] = admitted[s][now] + 1
      /\ \A t \in Times \ {now} : admitted'[s][t] = admitted[s][t]
  BY <1>1, <1>2 DEF SignInTyped, Series
<1>4. /\ WindowOf(s) \in Windows /\ Reset(admission.global) \in Windows
      /\ w = [startedAt |-> WindowOf(s).startedAt, count |-> WindowOf(s).count + 1]
      /\ v = [startedAt |-> Reset(admission.global).startedAt,
              count |-> Reset(admission.global).count + 1]
  BY WindowsTyped DEF Windows
<1> HIDE DEF w, v
<1>5. Cardinality(DOMAIN admission'.sources) <= MaxSources
  BY <1>1, RoomForSources
<1>6. WindowHolds(admitted'[s], w, PerSource, now) /\ Remembered(admitted'[s], now)
  <2>1. /\ WindowHolds(admitted[s], WindowOf(s), PerSource, now)
        /\ now - WindowOf(s).startedAt < Window /\ WindowOf(s).count < PerSource
    BY <1>1, SourceWindow DEF BelowLimits
  <2> QED
    BY <1>2, <1>3, <1>4, <2>1, OneMore
<1>7. /\ DOMAIN admission'.sources = DOMAIN Recent \cup {s} /\ admission'.sources[s] = w
      /\ \A r \in DOMAIN Recent \ {s} : admission'.sources[r] = Recent[r]
  BY <1>1 DEF WithWindow
<1>8. ASSUME NEW r \in Sources
      PROVE  Remembered(admitted'[r], now') /\ SourceInOrder(r)'
  <2>1. CASE r = s
    BY <1>1, <1>6, <1>7, <2>1 DEF SourceInOrder
  <2>2. CASE r # s /\ r \in DOMAIN Recent
    BY <1>1, <1>2, <1>3, <1>7, <2>2, SourceWindow DEF SourceInOrder, WindowOf
  <2>3. CASE r # s /\ r \notin DOMAIN Recent
    BY <1>1, <1>2, <1>3, <1>7, <2>3, SourceWindow DEF SourceInOrder
  <2> QED
    BY <2>1, <2>2, <2>3
<1>9. WindowHolds(Everyone', v, Global, now)
  <2>1. SignInTyped'
    BY AdmitTyped
  <2>2. Everyone' \in Series /\ Everyone \in Series /\ Remembered(Everyone, now)
    BY <1>2, <2>1, TogetherIs DEF Everyone, SignInTyped
  <2>3. ASSUME NEW t \in Times \ {now}
        PROVE  Everyone'[t] = Everyone[t]
    <3>1. \A r \in Sources : admitted'[r][t] = admitted[r][t]
      BY <1>3
    <3>2. [r \in Sources |-> admitted'[r][t]] = [r \in Sources |-> admitted[r][t]]
      BY <3>1
    <3> QED
      BY <3>2 DEF Everyone, Together
  <2>4. Everyone'[now] = Everyone[now] + 1
    <3> DEFINE f == [r \in Sources |-> admitted[r][now]]
               e == [r \in Sources |-> admitted'[r][now]]
    <3>1. /\ \A r \in Sources : f[r] \in Nat
          /\ e[s] = f[s] + 1 /\ \A r \in Sources \ {s} : e[r] = f[r]
      BY <1>2, <1>3 DEF Series
    <3>2. Everyone[now] = Total(f, Sources) /\ Everyone'[now] = Total(e, Sources)
      BY <1>2 DEF Everyone, Together
    <3> HIDE DEF e, f
    <3> QED
      BY <3>1, <3>2, TotalCounts, SignInAssumption
  <2> QED
    BY <1>1, <1>2, <1>4, <2>2, <2>3, <2>4, GlobalWindow, OneMore DEF BelowLimits
<1> QED
  BY <1>1, <1>5, <1>8, <1>9 DEF AdmissionInOrder

\* A refusal resets windows that are over, and counts nothing.
LEMMA TurnAwayInOrder ==
  ASSUME SignInTyped, AdmissionInOrder, NEW c \in Calls, NEW s \in Sources, TurnAway(c, s)
  PROVE  AdmissionInOrder'
<1>1. /\ now' = now /\ admitted' = admitted /\ admission'.global = Reset(admission.global)
      /\ admission'.sources = IF Room(s) THEN WithWindow(s, WindowOf(s)) ELSE Recent
  BY DEF TurnAway, SignInTyped
<1>2. Cardinality(DOMAIN admission'.sources) <= MaxSources
  BY <1>1, RoomForSources
<1>3. WindowHolds(Everyone', admission'.global, Global, now)
  BY <1>1, GlobalWindow DEF Everyone
<1>4. /\ DOMAIN admission'.sources = DOMAIN Recent \cup (IF Room(s) THEN {s} ELSE {})
      /\ \A r \in DOMAIN admission'.sources : admission'.sources[r] = WindowOf(r)
  BY <1>1 DEF WithWindow, WindowOf
<1>5. ASSUME NEW r \in Sources
      PROVE  Remembered(admitted'[r], now') /\ SourceInOrder(r)'
  <2>1. Remembered(admitted'[r], now')
    BY <1>1 DEF AdmissionInOrder
  <2>2. CASE r \in DOMAIN admission'.sources
    BY <1>1, <1>4, <2>1, <2>2, SourceWindow DEF SourceInOrder
  <2>3. CASE r \notin DOMAIN admission'.sources
    BY <1>1, <1>4, <2>1, <2>3, SourceWindow DEF SourceInOrder
  <2> QED
    BY <2>2, <2>3
<1> QED
  BY <1>1, <1>2, <1>3, <1>5 DEF AdmissionInOrder

\* Time passes in every window and over all that have none.
LEMMA TickInOrder ==
  ASSUME SignInTyped, AdmissionInOrder, Tick
  PROVE  AdmissionInOrder'
<1>1. /\ now' = now + 1 /\ admission' = admission /\ now \in Times /\ now + 1 \in Times
      /\ PerSource \in Nat /\ Global \in Nat
      /\ admitted' = [s \in Sources |-> Forgotten(admitted[s], now + 1)]
  BY Amounts DEF Tick, SignInTyped, Times, Forgotten
<1>2. \A s \in Sources : admitted[s] \in Series /\ Remembered(admitted[s], now) /\ SourceInOrder(s)
  BY DEF SignInTyped, AdmissionInOrder
<1>3. ASSUME NEW s \in Sources
      PROVE  Remembered(admitted'[s], now') /\ SourceInOrder(s)'
  <2>1. admitted'[s] = Forgotten(admitted[s], now + 1)
    BY <1>1
  <2>2. Remembered(admitted'[s], now')
    BY <1>1, <1>2, <2>1, TimePasses
  <2>3. CASE s \in DOMAIN admission.sources
    <3>1. WindowHolds(admitted[s], admission.sources[s], PerSource, now)
      BY <1>2, <2>3 DEF SourceInOrder
    <3>2. WindowHolds(admitted'[s], admission.sources[s], PerSource, now + 1)
      BY <1>1, <1>2, <2>1, <3>1, TimePassesInWindow
    <3> QED
      BY <1>1, <2>2, <2>3, <3>2 DEF SourceInOrder
  <2>4. CASE s \notin DOMAIN admission.sources
    <3>1. Rested(admitted[s], PerSource, now)
      BY <1>2, <2>4 DEF SourceInOrder
    <3>2. Rested(admitted'[s], PerSource, now + 1)
      BY <1>1, <1>2, <2>1, <3>1, TimePassesAtRest
    <3> QED
      BY <1>1, <2>2, <2>4, <3>2 DEF SourceInOrder
  <2> QED
    BY <2>3, <2>4
<1>4. WindowHolds(Everyone', admission.global, Global, now + 1)
  <2>1. Everyone \in Series /\ Remembered(Everyone, now)
    BY <1>2, EveryoneIs
  <2>2. Everyone' = Forgotten(Everyone, now + 1)
    <3>1. ASSUME NEW t \in Times
          PROVE  Everyone'[t] = Forgotten(Everyone, now + 1)[t]
      <4> DEFINE e == [s \in Sources |-> admitted'[s][t]]
      <4>1. Everyone'[t] = Total(e, Sources)
        BY DEF Everyone, Together
      <4>2. CASE t + Window > now + 1
        <5>1. e = [s \in Sources |-> admitted[s][t]]
          BY <1>1, <4>2 DEF Forgotten
        <5> QED
          BY <4>1, <4>2, <5>1 DEF Everyone, Together, Forgotten
      <4>3. CASE ~(t + Window > now + 1)
        <5>1. \A s \in Sources : e[s] = 0
          BY <1>1, <4>3 DEF Forgotten
        <5> HIDE DEF e
        <5>2. Total(e, Sources) = 0
          BY <5>1, TotalOfZeros, SignInAssumption
        <5> QED
          BY <4>1, <4>3, <5>2 DEF Forgotten
      <4> QED
        BY <4>2, <4>3
    <3>2. Everyone' = [t \in Times |-> Everyone'[t]]
      BY DEF Everyone, Together
    <3>3. Forgotten(Everyone, now + 1) = [t \in Times |-> Forgotten(Everyone, now + 1)[t]]
      BY DEF Forgotten
    <3> QED
      BY <3>1, <3>2, <3>3
  <2> QED
    BY <1>1, <2>1, <2>2, TimePassesInWindow DEF AdmissionInOrder
<1> QED
  BY <1>1, <1>3, <1>4 DEF AdmissionInOrder

\* Steps that touch neither windows nor admissions.
LEMMA SameWindowsInOrder ==
  ASSUME AdmissionInOrder, now' = now, admitted' = admitted,
         admission'.global = admission.global, admission'.sources = admission.sources
  PROVE  AdmissionInOrder'
BY DEF AdmissionInOrder, SourceInOrder, Everyone

\* The sums over sources and over times may be exchanged.
LEMMA SumsExchange ==
  ASSUME SignInTyped
  PROVE  Total([s \in Sources |-> Total(admitted[s], Times)], Sources) <= Total(Everyone, Times)
<1> DEFINE by(B) == [s \in Sources |-> Total(admitted[s], B)]
           G == {B \in SUBSET Times : Total(by(B), Sources) <= Total(Everyone, B)}
<1>1. \A s \in Sources : admitted[s] \in Series /\ \A t \in Times : admitted[s][t] \in Nat
  BY DEF SignInTyped, Series
<1>2. Everyone \in Series /\ \A t \in Times : Everyone[t] \in Nat
  BY EveryoneIs DEF Series
<1>3. ASSUME NEW B \in SUBSET Times
      PROVE  /\ IsFiniteSet(B)
             /\ \A s \in Sources : by(B)[s] = Total(admitted[s], B) /\ by(B)[s] \in Nat
             /\ Total(by(B), Sources) \in Nat /\ Total(Everyone, B) \in Nat
  <2>1. \A s \in Sources : by(B)[s] = Total(admitted[s], B) /\ by(B)[s] \in Nat
    BY <1>1, SeriesTotal
  <2>2. Total(by(B), Sources) \in Nat
    <3> HIDE DEF by
    <3> QED
      BY <2>1, TotalIsNat, SignInAssumption
  <2> QED
    BY <1>2, <2>1, <2>2, SeriesTotal, TimesAreFinite
<1>4. ASSUME NEW B \in SUBSET Times, \A t \in B : B \ {t} \in G
      PROVE  B \in G
  <2>1. CASE B = {}
    <3>1. \A s \in Sources : by(B)[s] = 0
      BY <2>1, TotalOfNone
    <3> HIDE DEF by
    <3>2. Total(by(B), Sources) = 0 /\ Total(Everyone, B) = 0
      BY <2>1, <3>1, TotalOfZeros, TotalOfNone, SignInAssumption
    <3> QED
      BY <3>2
  <2>2. CASE B # {}
    <3>1. PICK t : t \in B
      BY <2>2
    <3> DEFINE at == [s \in Sources |-> admitted[s][t]]
               C == B \ {t}
    <3>2. t \in Times /\ C \in SUBSET Times
      BY <3>1
    <3>3. ASSUME NEW s \in Sources
          PROVE  by(B)[s] = at[s] + by(C)[s] /\ at[s] \in Nat
      <4>1. \A x \in B : admitted[s][x] \in Nat
        BY <1>1
      <4>2. Total(admitted[s], B) = admitted[s][t] + Total(admitted[s], C)
        BY <1>3, <3>1, <4>1, TotalTakes
      <4> QED
        BY <1>1, <3>2, <4>2
    <3>4. Total(by(B), Sources) <= Total(at, Sources) + Total(by(C), Sources)
      <4>1. ASSUME NEW s \in Sources
            PROVE  /\ at[s] \in Nat /\ by(C)[s] \in Nat /\ by(B)[s] \in Nat
                   /\ by(B)[s] <= at[s] + by(C)[s]
        <5>1. by(C)[s] \in Nat /\ by(B)[s] \in Nat
          BY <1>3, <3>2
        <5>2. by(B)[s] = at[s] + by(C)[s] /\ at[s] \in Nat
          BY <3>3
        <5> HIDE DEF at, by, C
        <5> QED
          BY <5>1, <5>2
      <4> HIDE DEF at, by
      <4> QED
        BY <4>1, TotalAdds, SignInAssumption
    <3>5. Total(at, Sources) = Everyone[t]
      BY <3>2 DEF Everyone, Together
    <3>6. Total(Everyone, B) = Everyone[t] + Total(Everyone, C)
      <4>1. \A x \in B : Everyone[x] \in Nat
        BY <1>2
      <4> QED
        BY <1>3, <3>1, <4>1, TotalTakes
    <3>7. Total(by(C), Sources) <= Total(Everyone, C)
      BY <1>4, <3>1
    <3>8. /\ Total(by(C), Sources) \in Nat /\ Total(Everyone, C) \in Nat /\ Everyone[t] \in Nat
          /\ Total(by(B), Sources) \in Nat
      BY <1>2, <1>3, <3>2
    <3> HIDE DEF at, by, C
    <3>9. Total(by(B), Sources) <= Total(Everyone, B)
      BY <3>4, <3>5, <3>6, <3>7, <3>8
    <3> QED
      BY <3>9
  <2> QED
    BY <2>1, <2>2
<1>5. Times \in G
  <2> HIDE DEF G
  <2> QED
    BY <1>4, TimesAreFinite, EverySubset
<1> QED
  BY <1>5

\* The bounds on bursts follow.
LEMMA BurstsBounded ==
  ASSUME SignInTyped, AdmissionInOrder
  PROVE  BurstsAreBounded
<1>1. /\ now \in Times /\ PerSource \in Nat /\ Global \in Nat
      /\ \A s \in Sources : admitted[s] \in Series
  BY Amounts DEF SignInTyped
<1>2. \A s \in Sources : Total(admitted[s], Times) <= 2 * PerSource
  BY <1>1, SourceWindow, TwoWindows
<1>3. Total(Everyone, Times) <= 2 * Global
  BY <1>1, EveryoneIs, GlobalWindow, TwoWindows
<1>4. Total([s \in Sources |-> Total(admitted[s], Times)], Sources) \in Nat
  <2> DEFINE e == [s \in Sources |-> Total(admitted[s], Times)]
  <2>1. \A s \in Sources : e[s] \in Nat
    BY <1>1, SeriesTotal
  <2> HIDE DEF e
  <2>2. Total(e, Sources) \in Nat
    BY <2>1, TotalIsNat, SignInAssumption
  <2> QED
    BY <2>2 DEF e
<1>5. Total(Everyone, Times) \in Nat
  BY EveryoneIs, SeriesTotal
<1> QED
  BY <1>1, <1>2, <1>3, <1>4, <1>5, SumsExchange DEF BurstsAreBounded

-----------------------------------------------------------------------------
(***************************************************************************)
(* The places of the logins under way.                                     *)
(***************************************************************************)
LoginsOf(calls) == {c \in Calls : calls[c].pc # "idle" /\ calls[c].kind = "login"}

PlacesInOrder ==
  /\ admission.active = Cardinality(LoginsOf(call))
  /\ admission.active <= Concurrency

\* Only callbacks exchange a code.
KindsInOrder == \A c \in Calls : call[c].pc \in {"exchange", "await keys"} => call[c].kind # "login"

\* The places taken are those of the logins under way.
LEMMA ActiveIs == PlacesInOrder => ActiveIsUnderWay
BY DEF PlacesInOrder, ActiveIsUnderWay, LoginsOf, UnderWay

\* A step that takes no place and gives none back.
LEMMA SamePlaces ==
  ASSUME PlacesInOrder, admission'.active = admission.active,
         \A c \in Calls : /\ (call'[c].pc = "idle") <=> (call[c].pc = "idle")
                          /\ call[c].pc # "idle" => call'[c].kind = call[c].kind
  PROVE  PlacesInOrder'
<1>1. LoginsOf(call') = LoginsOf(call)
  BY DEF LoginsOf
<1> QED
  BY <1>1 DEF PlacesInOrder

\* Calls that were under way end, and give back the places of the logins among them.
LEMMA PlacesGivenBack ==
  ASSUME SignInTyped, PlacesInOrder, NEW cs \in SUBSET Calls,
         \A c \in cs : UnderWay(c),
         admission'.active = admission.active - Cardinality({c \in cs : call[c].kind = "login"}),
         \A c \in Calls \ cs : call'[c] = call[c],
         \A c \in cs : call'[c].pc = "idle" \/ call'[c].kind # "login",
         \A c \in cs : call[c].kind = "login" => call'[c].pc = "idle"
  PROVE  PlacesInOrder'
<1> DEFINE L == LoginsOf(call)
           E == {c \in cs : call[c].kind = "login"}
<1>1. E \subseteq L /\ L \subseteq Calls /\ L \cap E = E
  BY DEF LoginsOf, UnderWay
<1>2. LoginsOf(call') = L \ E
  BY DEF LoginsOf
<1>3. IsFiniteSet(L) /\ Cardinality(L) \in Nat /\ Cardinality(E) \in Nat
  BY <1>1, CallsAreFinite
<1>4. Cardinality(L \ E) = Cardinality(L) - Cardinality(L \cap E)
  BY <1>3, FS_Difference
<1>5. admission'.active = Cardinality(LoginsOf(call'))
  BY <1>1, <1>2, <1>4 DEF PlacesInOrder
<1>6. admission.active \in Nat /\ Concurrency \in Nat
  BY <1>3, Amounts DEF PlacesInOrder
<1> QED
  BY <1>3, <1>5, <1>6 DEF PlacesInOrder

\* Calls that fail give back their places.
LEMMA FailedPlaces ==
  ASSUME SignInTyped, PlacesInOrder, NEW cs \in SUBSET Calls, \A c \in cs : UnderWay(c),
         call' = Failed(cs), admission' = Released(cs)
  PROVE  PlacesInOrder'
<1>1. \A c \in Calls : call'[c] = IF c \in cs THEN Idle ELSE call[c]
  BY FailedTyped
<1>2. admission'.active = admission.active - Cardinality({c \in cs : call[c].kind = "login"})
  BY ReleasedTyped
<1> QED
  BY <1>1, <1>2, NoCallYet, PlacesGivenBack

\* Logins that are sent to the provider give back theirs.
LEMMA ToldPlaces ==
  ASSUME SignInTyped, PlacesInOrder, NEW cs \in SUBSET Calls, \A c \in cs : UnderWay(c),
         NEW document \in Offered, call' = Told(cs, document), admission' = Released(cs)
  PROVE  PlacesInOrder'
<1>1. /\ \A c \in Calls \ cs : call'[c] = call[c]
      /\ \A c \in cs : call'[c].kind = call[c].kind /\
                       ((call'[c].pc = "idle") <=> (call[c].kind = "login"))
  BY ToldTyped
<1>2. admission'.active = admission.active - Cardinality({c \in cs : call[c].kind = "login"})
  BY ReleasedTyped
<1>3. /\ \A c \in cs : call'[c].pc = "idle" \/ call'[c].kind # "login"
      /\ \A c \in cs : call[c].kind = "login" => call'[c].pc = "idle"
  BY <1>1
<1> QED
  BY <1>1, <1>2, <1>3, PlacesGivenBack

\* An admission takes a place that was free.
LEMMA AdmitPlaces ==
  ASSUME SignInTyped, PlacesInOrder, NEW c \in Calls, NEW s \in Sources, Admit(c, s)
  PROVE  PlacesInOrder'
<1>1. /\ admission'.active = admission.active + 1 /\ admission.active < Concurrency
      /\ call[c].pc = "idle" /\ call'[c].kind = "login" /\ call'[c].pc = "begin"
      /\ \A d \in Calls \ {c} : call'[d] = call[d]
  BY DEF Admit, BelowLimits, SignInTyped, UnderWay, Idle
<1>2. LoginsOf(call') = LoginsOf(call) \cup {c} /\ c \notin LoginsOf(call)
  BY <1>1 DEF LoginsOf
<1>3. IsFiniteSet(LoginsOf(call)) /\ Cardinality(LoginsOf(call)) \in Nat
  BY CallsAreFinite DEF LoginsOf
<1>4. Cardinality(LoginsOf(call')) = Cardinality(LoginsOf(call)) + 1
  BY <1>2, <1>3, FS_AddElement
<1> QED
  BY <1>1, <1>3, <1>4, Amounts DEF PlacesInOrder

\* All other ways of a call.
LEMMA CallPlaces ==
  ASSUME SignInTyped, PlacesInOrder, KindsInOrder, NEW c \in Calls,
         \/ ReadClock(c) \/ BeginLogin(c) \/ BeginFails(c) \/ KnowDocument(c)
         \/ FetchDocument(c) \/ Callback(c) \/ Exchange(c) \/ ExchangeFails(c)
  PROVE  PlacesInOrder'
<1>1. call \in [Calls -> Callers]
  BY DEF SignInTyped
<1>2. {c} \in SUBSET Calls
  OBVIOUS
<1>3. CASE ReadClock(c)
  BY <1>1, <1>3, SamePlaces DEF ReadClock
<1>4. CASE BeginLogin(c)
  <2>1. CASE call' = [call EXCEPT ![c].pc = "discover"] /\ admission' = admission
    BY <1>1, <1>4, <2>1, SamePlaces DEF BeginLogin
  <2>2. CASE call' = Failed({c}) /\ admission' = Released({c})
    BY <1>2, <1>4, <2>2, FailedPlaces DEF BeginLogin, UnderWay
  <2> QED
    BY <1>4, <2>1, <2>2 DEF BeginLogin
<1>5. CASE BeginFails(c)
  BY <1>2, <1>5, FailedPlaces DEF BeginFails, UnderWay
<1>6. CASE KnowDocument(c)
  <2>1. discovery.document \in Offered
    BY DEF SignInTyped
  <2> QED
    BY <1>2, <1>6, <2>1, ToldPlaces DEF KnowDocument, UnderWay
<1>7. CASE FetchDocument(c)
  <2>1. /\ \A d \in Calls \ {c} : call'[d] = call[d]
        /\ call'[c].kind = call[c].kind /\ call'[c].pc = "await document"
        /\ call[c].pc = "discover" /\ admission' = admission
    BY <1>1, <1>7 DEF FetchDocument, Callers
  <2> QED
    BY <2>1, SamePlaces
<1>8. CASE Callback(c)
  <2>1. /\ \A d \in Calls \ {c} : call'[d] = call[d]
        /\ call'[c].kind = "callback" /\ call[c].pc = "idle" /\ admission' = admission
    BY <1>1, <1>8 DEF Callback, UnderWay, Idle
  <2>2. LoginsOf(call') = LoginsOf(call)
    BY <2>1 DEF LoginsOf
  <2> QED
    BY <2>1, <2>2 DEF PlacesInOrder
<1>9. CASE Exchange(c) \/ ExchangeFails(c)
  <2>1. /\ \A d \in Calls \ {c} : call'[d] = call[d]
        /\ call[c].pc = "exchange" /\ admission' = admission
    <3>1. CASE Exchange(c)
      <4>1. PICK r : call' = [call EXCEPT ![c] = r]
        BY <3>1 DEF Exchange
      <4> QED
        BY <1>1, <3>1, <4>1 DEF Exchange
    <3>2. CASE ExchangeFails(c)
      BY <1>1, <3>2, FailedTyped DEF ExchangeFails
    <3> QED
      BY <1>9, <3>1, <3>2
  <2>2. call'[c].pc = "idle" \/ call'[c].kind # "login"
    <3>1. CASE Exchange(c)
      <4>1. PICK key \in Keys :
              call' = [call EXCEPT ![c] = [Idle EXCEPT !.kind = "callback", !.pc = "await keys",
                                                     !.key = key, !.since = now]]
        BY <3>1 DEF Exchange
      <4>2. call'[c] = [Idle EXCEPT !.kind = "callback", !.pc = "await keys",
                                    !.key = key, !.since = now]
        BY <1>1, <4>1
      <4> QED
        BY <4>2 DEF Idle
    <3>2. CASE ExchangeFails(c)
      <4>1. call'[c] = Idle
        BY <3>2, FailedTyped DEF ExchangeFails
      <4> QED
        BY <4>1, NoCallYet
    <3> QED
      BY <1>9, <3>1, <3>2
  <2>3. LoginsOf(call') = LoginsOf(call)
    BY <2>1, <2>2 DEF LoginsOf, KindsInOrder
  <2> QED
    BY <2>1, <2>3 DEF PlacesInOrder
<1> QED
  BY <1>3, <1>4, <1>5, <1>6, <1>7, <1>8, <1>9

\* The calls that wait for the provider, when it answers or does not.
LEMMA WaitingPlaces ==
  ASSUME SignInTyped, PlacesInOrder, KindsInOrder,
         DocumentArrives \/ DocumentFails \/ KeysArrive \/ KeysFail
  PROVE  PlacesInOrder'
<1> DEFINE A == Awaiting("await document")
           B == Awaiting("await keys")
<1>1. /\ A \in SUBSET Calls /\ B \in SUBSET Calls /\ \A c \in A : UnderWay(c)
      /\ \A c \in B : call[c].pc = "await keys"
  BY DEF Awaiting, UnderWay
<1>2. CASE DocumentArrives
  <2>1. discovery.refresh.answer \in Offered
    BY DEF SignInTyped, Fetches
  <2> QED
    BY <1>1, <1>2, <2>1, ToldPlaces DEF DocumentArrives
<1>3. CASE DocumentFails
  BY <1>1, <1>3, FailedPlaces DEF DocumentFails
<1>4. CASE KeysArrive \/ KeysFail
  <2>1. admission' = admission
    BY <1>4 DEF KeysArrive, KeysFail
  <2>2. \A c \in Calls : /\ call[c].pc # "await keys" => call'[c] = call[c]
                         /\ call[c].pc = "await keys" => call'[c].pc = "idle"
    <3>1. CASE KeysArrive
      BY <3>1 DEF KeysArrive, Judged, Idle
    <3>2. CASE KeysFail
      <4>1. \A c \in Calls : call'[c] = IF c \in B THEN Idle ELSE call[c]
        BY <3>2, FailedTyped DEF KeysFail
      <4> QED
        BY <4>1, NoCallYet DEF Awaiting
    <3> QED
      BY <1>4, <3>1, <3>2
  <2>3. LoginsOf(call') = LoginsOf(call)
    BY <2>2 DEF LoginsOf, KindsInOrder
  <2> QED
    BY <2>1, <2>3 DEF PlacesInOrder
<1> QED
  BY <1>2, <1>3, <1>4

\* No login gets to the exchange of a code.
LEMMA KindsStay ==
  ASSUME SignInTyped, KindsInOrder, [SignInNext]_signInVars
  PROVE  KindsInOrder'
<1>1. call \in [Calls -> Callers] /\ Idle.pc = "idle"
  BY NoCallYet DEF SignInTyped
<1>2. ASSUME NEW c \in Calls, NEW s \in Sources, Admit(c, s) \/ TurnAway(c, s)
      PROVE  KindsInOrder'
  BY <1>1, <1>2, ZenonT(60) DEF Admit, TurnAway, KindsInOrder, Idle
<1>3. ASSUME NEW c \in Calls, ReadClock(c) \/ FetchDocument(c)
      PROVE  KindsInOrder'
  <2>1. /\ \A d \in Calls \ {c} : call'[d] = call[d]
        /\ call'[c].pc \in {"insert", "await document"}
    <3>1. CASE ReadClock(c)
      BY <1>1, <3>1 DEF ReadClock, Callers
    <3>2. CASE FetchDocument(c)
      BY <1>1, <3>2 DEF FetchDocument, Callers
    <3> QED
      BY <1>3, <3>1, <3>2
  <2> QED
    BY <2>1 DEF KindsInOrder
<1>3a. ASSUME NEW cs, call' = Failed(cs)
      PROVE  KindsInOrder'
  <2>1. \A c \in Calls : call'[c] = IF c \in cs THEN Idle ELSE call[c]
    BY <1>3a, FailedTyped
  <2> QED
    BY <1>1, <2>1 DEF KindsInOrder
<1>4. ASSUME NEW c \in Calls, BeginLogin(c) \/ BeginFails(c) \/ ExchangeFails(c)
      PROVE  KindsInOrder'
  <2>1. CASE call' = Failed({c})
    BY <1>3a, <2>1
  <2>2. CASE call' = [call EXCEPT ![c].pc = "discover"]
    <3>1. call'[c].pc = "discover" /\ \A d \in Calls \ {c} : call'[d] = call[d]
      BY <1>1, <2>2 DEF Callers
    <3> QED
      BY <3>1 DEF KindsInOrder
  <2> QED
    BY <1>4, <2>1, <2>2 DEF BeginLogin, BeginFails, ExchangeFails
<1>5. ASSUME NEW cs \in SUBSET Calls, NEW document \in Offered, call' = Told(cs, document)
      PROVE  KindsInOrder'
  <2>1. /\ \A d \in Calls \ cs : call'[d] = call[d]
        /\ \A d \in cs : call'[d].kind = call[d].kind /\
                         ((call'[d].pc = "idle") <=> (call[d].kind = "login"))
    BY <1>5, ToldTyped
  <2> QED
    BY <2>1 DEF KindsInOrder
<1>6. ASSUME NEW c \in Calls, KnowDocument(c)
      PROVE  KindsInOrder'
  BY <1>5, <1>6 DEF KnowDocument, SignInTyped
<1>7. CASE DocumentArrives
  <2>1. discovery.refresh.answer \in Offered /\ Awaiting("await document") \in SUBSET Calls
    BY DEF SignInTyped, Fetches, Awaiting
  <2> QED
    BY <1>5, <1>7, <2>1 DEF DocumentArrives
<1>8. CASE DocumentFails \/ KeysFail
  BY <1>3a, <1>8 DEF DocumentFails, KeysFail
<1>9. ASSUME NEW c \in Calls, Callback(c) \/ Exchange(c)
      PROVE  KindsInOrder'
  BY <1>1, <1>9 DEF Callback, Exchange, KindsInOrder, Idle
<1>10. CASE KeysArrive
  BY <1>1, <1>10 DEF KeysArrive, Judged, KindsInOrder, Idle
<1>11. CASE UNCHANGED call
  BY <1>11 DEF KindsInOrder
<1>12. ServeDocument \/ ServeKeys \/ ReplaceDocument \/ (\E k \in Keys : RetireKey(k)) \/ Tick
         \/ CleanUpLogin \/ UNCHANGED signInVars => UNCHANGED call
  BY DEF ServeDocument, ServeKeys, ReplaceDocument, RetireKey, Tick, CleanUpLogin, signInVars
<1> QED
  BY <1>2, <1>3, <1>4, <1>6, <1>7, <1>8, <1>9, <1>10, <1>11, <1>12 DEF SignInNext

\* Places are given back once in every step.
LEMMA PlacesStay ==
  ASSUME SignInTyped, PlacesInOrder, KindsInOrder, [SignInNext]_signInVars
  PROVE  PlacesInOrder'
<1>1. ASSUME NEW c \in Calls, NEW s \in Sources, Admit(c, s)
      PROVE  PlacesInOrder'
  BY <1>1, AdmitPlaces
<1>2. ASSUME NEW c \in Calls, NEW s \in Sources, TurnAway(c, s)
      PROVE  PlacesInOrder'
  BY <1>2 DEF TurnAway, PlacesInOrder, SignInTyped
<1>3. ServeDocument \/ ServeKeys \/ ReplaceDocument \/ (\E k \in Keys : RetireKey(k)) \/ Tick
         \/ CleanUpLogin \/ UNCHANGED signInVars => UNCHANGED <<call, admission>>
  BY DEF ServeDocument, ServeKeys, ReplaceDocument, RetireKey, Tick, CleanUpLogin, signInVars
<1>4. CASE UNCHANGED <<call, admission>>
  BY <1>4 DEF PlacesInOrder
<1> QED
  BY <1>1, <1>2, <1>3, <1>4, CallPlaces, WaitingPlaces DEF SignInNext

-----------------------------------------------------------------------------
(***************************************************************************)
(* The capacity of an hour.                                                *)
(***************************************************************************)
LEMMA CapacityStays ==
  ASSUME SignInTyped, HourlyCapacityHolds, NEW c \in Calls, BeginLogin(c)
  PROVE  HourlyCapacityHolds'
<1> DEFINE o == call[c].observed
           Hours(t) == {u \in Times : u <= t /\ t < u + Hour}
           Seen == {t \in Times : o < t + Hour}
<1>1. o \in Times /\ Hour \in Nat /\ Capacity \in Nat /\ \A t \in Times : t \in Nat
  BY Amounts DEF SignInTyped, Callers
<1>2. /\ logins \in Series /\ \A t \in Times : logins[t] \in Nat
      /\ logins'[o] = logins[o] + 1 /\ \A t \in Times \ {o} : logins'[t] = logins[t]
      /\ Total(logins, Seen) < Capacity
  BY <1>1 DEF SignInTyped, Series, BeginLogin, Begun
<1> HIDE DEF o
<1>3. ASSUME NEW t \in Times
      PROVE  Total(logins', Hours(t)) <= Capacity
  <2>1. IsFiniteSet(Hours(t)) /\ Hours(t) \in SUBSET Times /\ \A x \in Hours(t) : logins[x] \in Nat
    BY <1>2, TimesAreFinite
  <2>2. CASE o \notin Hours(t)
    <3>1. \A x \in Hours(t) : logins'[x] = logins[x]
      BY <1>2, <2>2
    <3>2. Total(logins', Hours(t)) = Total(logins, Hours(t))
      BY <2>1, <3>1, TotalSame
    <3> QED
      BY <3>2 DEF HourlyCapacityHolds
  <2>3. CASE o \in Hours(t)
    <3>1. Hours(t) \in SUBSET Seen /\ Seen \in SUBSET Times
      BY <1>1, <2>3
    <3>2. \A x \in Seen : logins[x] \in Nat
      BY <1>2
    <3>3. IsFiniteSet(Seen)
      BY <3>1, TimesAreFinite
    <3>4. Total(logins, Hours(t)) <= Total(logins, Seen)
      <4> HIDE DEF Hours, Seen
      <4> QED
        BY <3>1, <3>2, <3>3, TotalOfFewer
    <3>5. Total(logins', Hours(t)) = Total(logins, Hours(t)) + 1
      <4>1. \A x \in Hours(t) \ {o} : logins'[x] = logins[x]
        BY <1>2
      <4> HIDE DEF Hours, Seen
      <4> QED
        BY <1>2, <2>1, <2>3, <4>1, TotalCounts
    <3>6. Total(logins, Hours(t)) \in Nat /\ Total(logins, Seen) \in Nat
      BY <1>2, <2>1, <3>1, SeriesTotal
    <3> HIDE DEF Hours, Seen
    <3> QED
      BY <1>1, <1>2, <3>4, <3>5, <3>6
  <2> QED
    BY <2>2, <2>3
<1> QED
  BY <1>3 DEF HourlyCapacityHolds

\* The cleanup takes rows away, and only that.
LEMMA CleanUpLowers ==
  ASSUME SignInTyped, CleanUpLogin
  PROVE  /\ logins' \in Series
         /\ \A t \in Times : logins[t] \in Nat /\ logins'[t] \in Nat /\ logins'[t] <= logins[t]
<1>1. PICK r \in Times : logins[r] > 0 /\ logins' = [logins EXCEPT ![r] = @ - 1]
  BY DEF CleanUpLogin
<1>2. logins \in Series /\ \A t \in Times : logins[t] \in Nat
  BY DEF SignInTyped, Series
<1>3. /\ logins'[r] = logins[r] - 1 /\ logins'[r] \in Nat
      /\ \A t \in Times \ {r} : logins'[t] = logins[t]
  BY <1>1, <1>2 DEF Series
<1>4. \A t \in Times : logins'[t] \in Nat /\ logins'[t] <= logins[t]
  BY <1>2, <1>3
<1>5. logins' \in Series
  BY <1>1, <1>2, <1>3 DEF Series
<1> QED
  BY <1>2, <1>4, <1>5

\* An hour of which rows are deleted stays within its capacity.
LEMMA CleanUpKeepsHours ==
  ASSUME SignInTyped, HourlyCapacityHolds, CleanUpLogin
  PROVE  HourlyCapacityHolds'
<1>1. ASSUME NEW t \in Times
      PROVE  Total(logins', {u \in Times : u <= t /\ t < u + Hour}) <= Capacity
  <2> DEFINE H == {u \in Times : u <= t /\ t < u + Hour}
  <2>1. H \in SUBSET Times /\ IsFiniteSet(H)
    BY TimesAreFinite
  <2>2. Total(logins, H) <= Capacity
    BY DEF HourlyCapacityHolds
  <2> HIDE DEF H
  <2>3. \A x \in H : logins'[x] \in Nat /\ logins[x] \in Nat /\ logins'[x] <= logins[x]
    BY <2>1, CleanUpLowers
  <2>4. Total(logins', H) <= Total(logins, H)
    BY <2>1, <2>3, TotalGrows
  <2>5. Total(logins', H) \in Nat /\ Total(logins, H) \in Nat /\ Capacity \in Nat
    BY <2>1, SeriesTotal, CleanUpLowers, Amounts DEF SignInTyped
  <2>6. Total(logins', H) <= Capacity
    BY <2>2, <2>4, <2>5
  <2> QED
    BY <2>6 DEF H
<1> QED
  BY <1>1 DEF HourlyCapacityHolds

\* No step takes any hour past its capacity.
LEMMA EveryHourStays ==
  ASSUME SignInTyped, HourlyCapacityHolds, [SignInNext]_signInVars
  PROVE  HourlyCapacityHolds'
<1>1. CASE \E c \in Calls : BeginLogin(c)
  BY <1>1, CapacityStays
<1>2. CASE UNCHANGED logins
  BY <1>2 DEF HourlyCapacityHolds
<1>2a. CASE CleanUpLogin
  BY <1>2a, CleanUpKeepsHours
<1>3. (\E c \in Calls : BeginLogin(c)) \/ CleanUpLogin \/ UNCHANGED logins
  BY DEF SignInNext, signInVars, Admit, TurnAway, ReadClock, BeginFails, KnowDocument,
         FetchDocument, Callback, Exchange, ExchangeFails, ServeDocument, DocumentArrives,
         DocumentFails, ServeKeys, KeysArrive, KeysFail, ReplaceDocument, RetireKey, Tick
<1> QED
  BY <1>1, <1>2, <1>2a, <1>3

\* An instant belongs to the hour that ends with it.
LEMMA LoginsAreFew ==
  ASSUME SignInTyped, HourlyCapacityHolds, NEW t \in Times
  PROVE  logins[t] \in 0 .. Capacity
<1> DEFINE H == {u \in Times : u <= t /\ t < u + Hour}
<1>1. t \in H /\ H \in SUBSET Times /\ logins[t] \in Nat /\ Capacity \in Nat
  BY Amounts DEF SignInTyped, Series
<1>2. \A x \in H : logins[x] \in Nat
  BY DEF SignInTyped, Series
<1>3. IsFiniteSet(H) /\ IsFiniteSet(H \ {t}) /\ \A x \in H \ {t} : logins[x] \in Nat
  BY <1>1, <1>2, TimesAreFinite, FS_Subset
<1>4. Total(logins, H) <= Capacity
  BY DEF HourlyCapacityHolds
<1> HIDE DEF H
<1>5. Total(logins, H) = logins[t] + Total(logins, H \ {t}) /\ Total(logins, H \ {t}) \in Nat
  BY <1>1, <1>2, <1>3, TotalTakes, TotalIsNat
<1> QED
  BY <1>1, <1>4, <1>5

-----------------------------------------------------------------------------
(***************************************************************************)
(* The provider: what it gave up, and when what is kept was last current.  *)
(***************************************************************************)
FetchInTime(fetch) ==
  fetch.state # "none" => fetch.sentAt <= now /\ now <= fetch.sentAt + HttpTimeout

\* The provider served the document, or still does, at time t or later.
ServedSince(document, t) ==
  /\ document \in Versions /\ document <= provider.document
  /\ document = provider.document \/ provider.replaced[document] >= t

WaitsBegan == \A c \in Calls : call[c].since <= now

DocumentInOrder ==
  /\ FetchInTime(discovery.refresh)
  /\ discovery.refresh.state = "served" =>
       ServedSince(discovery.refresh.answer, discovery.refresh.sentAt)
  /\ discovery.document # NoDocument =>
       /\ discovery.document \in Versions /\ discovery.document <= provider.document
       /\ discovery.expiresAt <= now + DiscoveryTtl
       /\ \/ discovery.document = provider.document
          \/ provider.replaced[discovery.document] + HttpTimeout + DiscoveryTtl
               >= discovery.expiresAt

KeysInOrder ==
  /\ FetchInTime(jwksRefresh)
  /\ jwksRefresh.state = "served" =>
       /\ jwksRefresh.answer \subseteq Keys
       /\ \A k \in jwksRefresh.answer :
            k \in provider.keys \/ provider.retired[k] >= jwksRefresh.sentAt

ProviderInOrder == WaitsBegan /\ DocumentInOrder /\ KeysInOrder

\* The numbers in what is known of the provider.
LEMMA ProviderTypes ==
  ASSUME SignInTyped
  PROVE  /\ now \in Nat /\ HttpTimeout \in Nat /\ DiscoveryTtl \in Nat
         /\ discovery.refresh.sentAt \in Nat /\ jwksRefresh.sentAt \in Nat
         /\ discovery.expiresAt \in Nat /\ provider.document \in Versions
         /\ \A v \in Versions : v \in Nat \ {0} /\ provider.replaced[v] \in Nat
         /\ \A k \in Keys : provider.retired[k] \in Nat
BY SignInAssumption, Amounts DEF SignInTyped, Fetches

\* No wait begins in the future.
LEMMA WaitsStay ==
  ASSUME SignInTyped, WaitsBegan, [SignInNext]_signInVars
  PROVE  WaitsBegan'
<1>1. /\ now \in Nat /\ call \in [Calls -> Callers] /\ Idle.since = 0
      /\ \A c \in Calls : call[c].since \in Nat
  BY Amounts, NoCallYet DEF SignInTyped, Callers
<1>2. ASSUME NEW c \in Calls, now' = now, call'[c].since \in {0, now},
             \A d \in Calls \ {c} : call'[d] = call[d]
      PROVE  WaitsBegan'
  BY <1>1, <1>2 DEF WaitsBegan
<1>3. ASSUME NEW cs, now' = now, call' = Failed(cs)
      PROVE  WaitsBegan'
  <2>1. \A c \in Calls : call'[c] = IF c \in cs THEN Idle ELSE call[c]
    BY <1>3, FailedTyped
  <2> QED
    BY <1>1, <1>3, <2>1 DEF WaitsBegan
<1>4. ASSUME NEW cs \in SUBSET Calls, NEW document \in Offered, now' = now,
             call' = Told(cs, document)
      PROVE  WaitsBegan'
  <2>1. /\ \A d \in Calls \ cs : call'[d] = call[d]
        /\ \A d \in cs : call'[d].since = 0
    BY <1>4, ToldTyped
  <2> QED
    BY <1>1, <1>4, <2>1 DEF WaitsBegan
<1>5. ASSUME NEW c \in Calls, NEW s \in Sources, Admit(c, s) \/ TurnAway(c, s)
      PROVE  WaitsBegan'
  <2>1. CASE Admit(c, s)
    BY <1>1, <1>2, <2>1 DEF Admit, Idle
  <2>2. CASE TurnAway(c, s)
    BY <2>2 DEF TurnAway, WaitsBegan
  <2> QED
    BY <1>5, <2>1, <2>2
<1>6. ASSUME NEW c \in Calls, NEW r \in Callers, r.since \in {0, now} \/ r.since = call[c].since,
             now' = now, call' = [call EXCEPT ![c] = r]
      PROVE  WaitsBegan'
  BY <1>1, <1>6 DEF WaitsBegan
<1>7. ASSUME NEW c \in Calls, ReadClock(c)
      PROVE  WaitsBegan'
  <2>1. [call[c] EXCEPT !.pc = "insert", !.observed = now] \in Callers
    <3>1. call[c] \in Callers /\ now \in Times
      BY <1>1 DEF SignInTyped
    <3> QED
      BY <3>1 DEF Callers
  <2>2. call' = [call EXCEPT ![c] = [call[c] EXCEPT !.pc = "insert", !.observed = now]]
    BY <1>1, <1>7 DEF ReadClock
  <2>3. [call[c] EXCEPT !.pc = "insert", !.observed = now].since = call[c].since
    BY <1>1 DEF Callers
  <2> QED
    BY <1>6, <1>7, <2>1, <2>2, <2>3 DEF ReadClock
<1>8. ASSUME NEW c \in Calls, FetchDocument(c)
      PROVE  WaitsBegan'
  <2>1. [call[c] EXCEPT !.pc = "await document", !.since = now] \in Callers
    <3>1. call[c] \in Callers /\ now \in Times
      BY <1>1 DEF SignInTyped
    <3> QED
      BY <3>1 DEF Callers
  <2>2. call' = [call EXCEPT ![c] = [call[c] EXCEPT !.pc = "await document", !.since = now]]
    BY <1>1, <1>8 DEF FetchDocument
  <2>3. [call[c] EXCEPT !.pc = "await document", !.since = now].since = now
    BY <1>1 DEF Callers
  <2> QED
    BY <1>6, <1>8, <2>1, <2>2, <2>3 DEF FetchDocument
<1>9. ASSUME NEW c \in Calls, BeginLogin(c) \/ BeginFails(c) \/ ExchangeFails(c)
      PROVE  WaitsBegan'
  <2>1. now' = now
    BY <1>9 DEF BeginLogin, BeginFails, ExchangeFails
  <2>2. CASE call' = Failed({c})
    BY <1>3, <2>1, <2>2
  <2>3. CASE call' = [call EXCEPT ![c].pc = "discover"]
    <3>1. [call[c] EXCEPT !.pc = "discover"] \in Callers /\
          [call[c] EXCEPT !.pc = "discover"].since = call[c].since
      BY <1>1 DEF Callers
    <3> QED
      BY <1>6, <2>1, <2>3, <3>1
  <2> QED
    BY <1>9, <2>2, <2>3 DEF BeginLogin, BeginFails, ExchangeFails
<1>10. ASSUME NEW c \in Calls, KnowDocument(c)
       PROVE  WaitsBegan'
  BY <1>4, <1>10 DEF KnowDocument, SignInTyped
<1>11. ASSUME NEW c \in Calls, Callback(c) \/ Exchange(c)
       PROVE  WaitsBegan'
  <2>1. CASE Callback(c)
    BY <1>1, <1>2, <2>1 DEF Callback, Idle
  <2>2. CASE Exchange(c)
    BY <1>1, <1>2, <2>2 DEF Exchange, Idle
  <2> QED
    BY <1>11, <2>1, <2>2
<1>12. CASE DocumentArrives
  <2>1. discovery.refresh.answer \in Offered /\ Awaiting("await document") \in SUBSET Calls
    BY DEF SignInTyped, Fetches, Awaiting
  <2> QED
    BY <1>4, <1>12, <2>1 DEF DocumentArrives
<1>13. CASE DocumentFails \/ KeysFail
  BY <1>3, <1>13 DEF DocumentFails, KeysFail
<1>14. CASE KeysArrive
  <2>1. ASSUME NEW c \in Calls
        PROVE  call'[c] = call[c] \/ call'[c].since = 0
    <3>1. Judged(call[c].key, jwksRefresh.answer).since = 0
      BY DEF Judged, Idle
    <3> QED
      BY <1>14, <3>1 DEF KeysArrive
  <2>2. now' = now
    BY <1>14 DEF KeysArrive
  <2> QED
    BY <1>1, <2>1, <2>2 DEF WaitsBegan
<1>15. CASE UNCHANGED <<call, now>>
  BY <1>15 DEF WaitsBegan
<1>16. CASE Tick
  BY <1>1, <1>16 DEF Tick, WaitsBegan
<1>17. ServeDocument \/ ServeKeys \/ ReplaceDocument \/ (\E k \in Keys : RetireKey(k))
         \/ CleanUpLogin \/ UNCHANGED signInVars => UNCHANGED <<call, now>>
  BY DEF ServeDocument, ServeKeys, ReplaceDocument, RetireKey, CleanUpLogin, signInVars
<1> QED
  BY <1>5, <1>7, <1>8, <1>9, <1>10, <1>11, <1>12, <1>13, <1>14, <1>15, <1>16, <1>17
     DEF SignInNext

\* What is kept or fetched of documents stays in order.
LEMMA DocumentStays ==
  ASSUME SignInTyped, DocumentInOrder, [SignInNext]_signInVars
  PROVE  DocumentInOrder'
<1>1. /\ now \in Nat /\ HttpTimeout \in Nat /\ DiscoveryTtl \in Nat
      /\ discovery.refresh.sentAt \in Nat /\ discovery.expiresAt \in Nat
      /\ provider.document \in Versions
      /\ \A v \in Versions : v \in Nat \ {0} /\ provider.replaced[v] \in Nat
      /\ 0 \notin Versions
  BY ProviderTypes
<1>2. discovery \in [document : Offered, expiresAt : Nat, refresh : Fetches(Offered)]
  BY DEF SignInTyped
<1>3. ASSUME NEW c \in Calls, FetchDocument(c)
      PROVE  DocumentInOrder'
  <2>1. /\ now' = now /\ provider' = provider /\ discovery'.document = discovery.document
        /\ discovery'.expiresAt = discovery.expiresAt
        /\ discovery'.refresh = IF discovery.refresh.state = "none" THEN Sent ELSE discovery.refresh
    BY <1>2, <1>3 DEF FetchDocument
  <2>2. Sent.state = "sent" /\ Sent.sentAt = now
    BY DEF Sent
  <2> QED
    BY <1>1, <2>1, <2>2 DEF DocumentInOrder, FetchInTime, ServedSince
<1>4. CASE ServeDocument
  <2>1. /\ now' = now /\ provider' = provider /\ discovery'.document = discovery.document
        /\ discovery'.expiresAt = discovery.expiresAt
        /\ discovery'.refresh = Served(discovery.refresh, provider.document)
        /\ discovery.refresh.state = "sent"
    BY <1>2, <1>4 DEF ServeDocument
  <2>2. /\ Served(discovery.refresh, provider.document).sentAt = discovery.refresh.sentAt
        /\ Served(discovery.refresh, provider.document).answer = provider.document
    BY <1>2 DEF Served, Fetches
  <2> QED
    BY <1>1, <2>1, <2>2 DEF DocumentInOrder, FetchInTime, ServedSince
<1>5. CASE DocumentArrives
  <2>1. /\ now' = now /\ provider' = provider /\ discovery'.document = discovery.refresh.answer
        /\ discovery'.expiresAt = now + DiscoveryTtl
        /\ discovery'.refresh = NoFetch /\ discovery.refresh.state = "served"
    BY <1>5 DEF DocumentArrives
  <2>2. NoFetch.state = "none"
    BY DEF NoFetch
  <2> QED
    BY <1>1, <2>1, <2>2 DEF DocumentInOrder, FetchInTime, ServedSince
<1>6. CASE DocumentFails
  <2>1. /\ now' = now /\ provider' = provider /\ discovery'.document = discovery.document
        /\ discovery'.expiresAt = discovery.expiresAt /\ discovery'.refresh = NoFetch
    BY <1>2, <1>6 DEF DocumentFails
  <2>2. NoFetch.state = "none"
    BY DEF NoFetch
  <2> QED
    BY <1>1, <2>1, <2>2 DEF DocumentInOrder, FetchInTime
<1>7. CASE ReplaceDocument
  <2> DEFINE d == provider.document
  <2>1. /\ now' = now /\ discovery' = discovery
        /\ provider'.document = d + 1 /\ d + 1 \in Versions
        /\ provider'.replaced[d] = now
        /\ \A v \in Versions \ {d} : provider'.replaced[v] = provider.replaced[v]
    BY <1>7 DEF ReplaceDocument, SignInTyped
  <2>2. discovery.refresh.state = "served" =>
          ServedSince(discovery.refresh.answer, discovery.refresh.sentAt)'
    BY <1>1, <2>1 DEF DocumentInOrder, FetchInTime, ServedSince
  <2>3. discovery.document # NoDocument =>
          \/ discovery.document = provider'.document
          \/ provider'.replaced[discovery.document] + HttpTimeout + DiscoveryTtl
               >= discovery.expiresAt
    BY <1>1, <2>1 DEF DocumentInOrder
  <2> QED
    BY <1>1, <2>1, <2>2, <2>3 DEF DocumentInOrder, FetchInTime
<1>8. ASSUME NEW k \in Keys, RetireKey(k)
      PROVE  DocumentInOrder'
  <2>1. /\ now' = now /\ discovery' = discovery /\ provider'.document = provider.document
        /\ provider'.replaced = provider.replaced
    BY <1>8 DEF RetireKey, SignInTyped
  <2> QED
    BY <2>1 DEF DocumentInOrder, FetchInTime, ServedSince
<1>9. CASE Tick
  <2>1. /\ now' = now + 1 /\ UNCHANGED <<discovery, provider>>
        /\ discovery.refresh.state # "none" => ~(now - discovery.refresh.sentAt >= HttpTimeout)
    BY <1>9 DEF Tick, Overdue
  <2> QED
    BY <1>1, <2>1 DEF DocumentInOrder, FetchInTime, ServedSince
<1>10. CASE UNCHANGED <<now, discovery, provider>>
  BY <1>10 DEF DocumentInOrder, FetchInTime, ServedSince
<1>11. ASSUME NEW c \in Calls,
              \/ \E s \in Sources : Admit(c, s) \/ TurnAway(c, s)
              \/ ReadClock(c) \/ BeginLogin(c) \/ BeginFails(c) \/ KnowDocument(c)
              \/ Callback(c) \/ Exchange(c) \/ ExchangeFails(c)
       PROVE  DocumentInOrder'
  BY <1>10, <1>11 DEF Admit, TurnAway, ReadClock, BeginLogin, BeginFails, KnowDocument,
                      Callback, Exchange, ExchangeFails
<1>12. CASE ServeKeys \/ KeysArrive \/ KeysFail \/ CleanUpLogin \/ UNCHANGED signInVars
  BY <1>10, <1>12 DEF ServeKeys, KeysArrive, KeysFail, CleanUpLogin, signInVars
<1> QED
  BY <1>3, <1>4, <1>5, <1>6, <1>7, <1>8, <1>9, <1>11, <1>12 DEF SignInNext

\* What is fetched of keys stays in order.
LEMMA KeysStay ==
  ASSUME SignInTyped, KeysInOrder, [SignInNext]_signInVars
  PROVE  KeysInOrder'
<1>1. /\ now \in Nat /\ HttpTimeout \in Nat /\ jwksRefresh.sentAt \in Nat
      /\ \A k \in Keys : provider.retired[k] \in Nat /\ provider.keys \subseteq Keys
      /\ jwksRefresh \in Fetches({0} \cup SUBSET Keys)
  BY ProviderTypes DEF SignInTyped
<1>2. ASSUME NEW c \in Calls, Exchange(c)
      PROVE  KeysInOrder'
  <2>1. /\ now' = now /\ provider' = provider
        /\ jwksRefresh' = IF jwksRefresh.state = "none" THEN Sent ELSE jwksRefresh
    BY <1>2 DEF Exchange
  <2>2. Sent.state = "sent" /\ Sent.sentAt = now
    BY DEF Sent
  <2> QED
    BY <1>1, <2>1, <2>2 DEF KeysInOrder, FetchInTime
<1>3. CASE ServeKeys
  <2>1. /\ now' = now /\ provider' = provider /\ jwksRefresh.state = "sent"
        /\ jwksRefresh'.sentAt = jwksRefresh.sentAt /\ jwksRefresh'.answer = provider.keys
    BY <1>1, <1>3 DEF ServeKeys, Served, Fetches
  <2>2. provider.keys \subseteq Keys
    BY DEF SignInTyped
  <2> QED
    BY <1>1, <2>1, <2>2 DEF KeysInOrder, FetchInTime
<1>4. CASE KeysArrive \/ KeysFail
  <2>1. jwksRefresh'.state = "none"
    <3>1. NoFetch.state = "none"
      BY DEF NoFetch
    <3> QED
      BY <1>4, <3>1 DEF KeysArrive, KeysFail
  <2> QED
    BY <2>1 DEF KeysInOrder, FetchInTime
<1>5. CASE ReplaceDocument
  <2>1. /\ now' = now /\ jwksRefresh' = jwksRefresh /\ provider'.keys = provider.keys
        /\ provider'.retired = provider.retired
    BY <1>5 DEF ReplaceDocument, SignInTyped
  <2> QED
    BY <2>1 DEF KeysInOrder, FetchInTime
<1>6. ASSUME NEW k \in Keys, RetireKey(k)
      PROVE  KeysInOrder'
  <2>1. /\ now' = now /\ jwksRefresh' = jwksRefresh /\ provider'.keys = provider.keys \ {k}
        /\ provider'.retired[k] = now
        /\ \A l \in Keys \ {k} : provider'.retired[l] = provider.retired[l]
    BY <1>6 DEF RetireKey, SignInTyped
  <2> QED
    BY <1>1, <2>1 DEF KeysInOrder, FetchInTime
<1>7. CASE Tick
  <2>1. /\ now' = now + 1 /\ UNCHANGED <<jwksRefresh, provider>>
        /\ jwksRefresh.state # "none" => ~(now - jwksRefresh.sentAt >= HttpTimeout)
    BY <1>7 DEF Tick, Overdue
  <2> QED
    BY <1>1, <2>1 DEF KeysInOrder, FetchInTime
<1>8. CASE UNCHANGED <<now, jwksRefresh, provider>>
  BY <1>8 DEF KeysInOrder, FetchInTime
<1>9. ASSUME NEW c \in Calls,
             \/ \E s \in Sources : Admit(c, s) \/ TurnAway(c, s)
             \/ ReadClock(c) \/ BeginLogin(c) \/ BeginFails(c) \/ KnowDocument(c)
             \/ FetchDocument(c) \/ Callback(c) \/ ExchangeFails(c)
      PROVE  KeysInOrder'
  BY <1>8, <1>9 DEF Admit, TurnAway, ReadClock, BeginLogin, BeginFails, KnowDocument,
                    FetchDocument, Callback, ExchangeFails
<1>10. CASE ServeDocument \/ DocumentArrives \/ DocumentFails \/ CleanUpLogin
            \/ UNCHANGED signInVars
  BY <1>8, <1>10 DEF ServeDocument, DocumentArrives, DocumentFails, CleanUpLogin, signInVars
<1> QED
  BY <1>2, <1>3, <1>4, <1>5, <1>6, <1>7, <1>9, <1>10 DEF SignInNext

-----------------------------------------------------------------------------
(***************************************************************************)
(* The inductive invariant of SignIn, and what follows from it.            *)
(***************************************************************************)
SignInInv ==
  /\ SignInTyped
  /\ AdmissionInOrder
  /\ PlacesInOrder /\ KindsInOrder
  /\ HourlyCapacityHolds
  /\ ProviderInOrder

\* The windows stay in order in every step.
LEMMA AdmissionStays ==
  ASSUME SignInTyped, AdmissionInOrder, [SignInNext]_signInVars
  PROVE  AdmissionInOrder'
<1>1. ASSUME NEW c \in Calls, NEW s \in Sources, Admit(c, s) \/ TurnAway(c, s)
      PROVE  AdmissionInOrder'
  BY <1>1, AdmitInOrder, TurnAwayInOrder
<1>2. CASE Tick
  BY <1>2, TickInOrder
<1>3. CASE UNCHANGED <<now, admission, admitted>>
  BY <1>3, SameWindowsInOrder
<1>4. ASSUME NEW cs \in SUBSET Calls, admission' = Released(cs), UNCHANGED <<now, admitted>>
      PROVE  AdmissionInOrder'
  BY <1>4, ReleasedTyped, SameWindowsInOrder
<1>5. ASSUME NEW c \in Calls, BeginLogin(c) \/ BeginFails(c) \/ KnowDocument(c)
      PROVE  AdmissionInOrder'
  <2>1. {c} \in SUBSET Calls
    OBVIOUS
  <2>2. (admission' = Released({c}) \/ admission' = admission) /\ UNCHANGED <<now, admitted>>
    BY <1>5 DEF BeginLogin, BeginFails, KnowDocument
  <2> QED
    BY <1>3, <1>4, <2>1, <2>2
<1>6. CASE DocumentArrives \/ DocumentFails
  <2>1. Awaiting("await document") \in SUBSET Calls
    BY DEF Awaiting
  <2>2. admission' = Released(Awaiting("await document")) /\ UNCHANGED <<now, admitted>>
    BY <1>6 DEF DocumentArrives, DocumentFails
  <2> QED
    BY <1>4, <2>1, <2>2
<1>7. ASSUME NEW c \in Calls,
             ReadClock(c) \/ FetchDocument(c) \/ Callback(c) \/ Exchange(c) \/ ExchangeFails(c)
      PROVE  AdmissionInOrder'
  BY <1>3, <1>7 DEF ReadClock, FetchDocument, Callback, Exchange, ExchangeFails
<1>8. CASE \/ ServeDocument \/ ServeKeys \/ KeysArrive \/ KeysFail
           \/ ReplaceDocument \/ (\E k \in Keys : RetireKey(k)) \/ CleanUpLogin
           \/ UNCHANGED signInVars
  BY <1>3, <1>8 DEF ServeDocument, ServeKeys, KeysArrive, KeysFail, ReplaceDocument,
                    RetireKey, CleanUpLogin, signInVars
<1> QED
  BY <1>1, <1>2, <1>5, <1>6, <1>7, <1>8 DEF SignInNext

\* The invariant holds before the first login.
LEMMA SignInInitInv == SignInInit => SignInInv
<1> SUFFICES ASSUME SignInInit PROVE SignInInv
  OBVIOUS
<1> USE DEF SignInInit
<1> DEFINE quiet == [t \in Times |-> 0]
<1>1. quiet \in Series /\ Window \in Times /\ 0 \in Times /\ \A t \in Times : quiet[t] = 0
  BY Amounts DEF Series
<1>2. \A B \in SUBSET Times : Total(quiet, B) = 0
  <2>1. ASSUME NEW B \in SUBSET Times
        PROVE  Total(quiet, B) = 0
    <3>1. IsFiniteSet(B) /\ \A t \in B : quiet[t] = 0
      BY TimesAreFinite
    <3> HIDE DEF quiet
    <3> QED
      BY <3>1, TotalOfZeros
  <2> QED
    BY <2>1
<1>3. \A s \in Sources : admitted[s] = quiet
  OBVIOUS
<1>4. SignInTyped
  <2>1. admission \in [global : Windows, sources : SourceWindows, active : Int]
    <3>1. <<>> \in SourceWindows
      <4>1. <<>> \in [{} -> Windows]
        OBVIOUS
      <4> QED
        BY <4>1 DEF SourceWindows
    <3>2. [startedAt |-> 0, count |-> 0] \in Windows
      BY <1>1 DEF Windows
    <3> QED
      BY <3>1, <3>2
  <2>2. discovery \in [document : Offered, expiresAt : Nat, refresh : Fetches(Offered)]
    BY NoFetchYet DEF Offered, NoDocument
  <2>3. jwksRefresh \in Fetches({0} \cup SUBSET Keys)
    BY NoFetchYet
  <2>4. provider \in [document : Versions, keys : (SUBSET Keys) \ {{}},
                      replaced : [Versions -> Times], retired : [Keys -> Times]]
    <3>1. 0 \in Times /\ 1 \in Versions /\ Keys \in (SUBSET Keys) \ {{}}
      BY <1>1, SignInAssumption
    <3>2. /\ [v \in Versions |-> 0] \in [Versions -> Times]
          /\ [k \in Keys |-> 0] \in [Keys -> Times]
      BY <3>1
    <3>3. provider = [document |-> 1, keys |-> Keys, replaced |-> [v \in Versions |-> 0],
                      retired |-> [k \in Keys |-> 0]]
      OBVIOUS
    <3> HIDE DEF SignInInit
    <3> QED
      BY <3>1, <3>2, <3>3
  <2>5. call \in [Calls -> Callers]
    BY NoCallYet
  <2>6. logins \in Series /\ admitted \in [Sources -> Series]
    BY <1>1
  <2> HIDE DEF SignInInit
  <2>7. now \in Times
    BY <1>1 DEF SignInInit
  <2> QED
    BY <2>1, <2>2, <2>3, <2>4, <2>5, <2>6, <2>7 DEF SignInTyped
<1>5. AdmissionInOrder
  <2>1. DOMAIN admission.sources = {} /\ Cardinality({}) = 0
    BY FS_EmptySet
  <2>2. \A s \in Sources : Remembered(admitted[s], now) /\ SourceInOrder(s)
    BY <1>1, <1>2, <1>3, <2>1, Amounts DEF Remembered, SourceInOrder, Rested
  <2>3. Everyone = quiet
    <3>1. ASSUME NEW t \in Times
          PROVE  Total([s \in Sources |-> admitted[s][t]], Sources) = 0
      <4> DEFINE e == [s \in Sources |-> admitted[s][t]]
      <4>1. \A s \in Sources : e[s] = 0
        BY <1>3
      <4> HIDE DEF e
      <4>2. Total(e, Sources) = 0
        BY <4>1, TotalOfZeros, SignInAssumption
      <4> QED
        BY <4>2 DEF e
    <3> QED
      BY <3>1 DEF Everyone, Together
  <2>4. WindowHolds(quiet, [startedAt |-> 0, count |-> 0], Global, now)
    <3> DEFINE w == [startedAt |-> 0, count |-> 0]
    <3>1. /\ w \in Windows /\ w.startedAt = 0 /\ w.count = 0
          /\ Before(w) \in SUBSET Times /\ From(w) \in SUBSET Times
      BY <1>1 DEF Windows, Before, From
    <3> HIDE DEF w, quiet
    <3>2. now \in Nat /\ Global \in Nat
      BY <1>1, Amounts
    <3> HIDE DEF SignInInit
    <3>3. WindowHolds(quiet, w, Global, now)
      BY <1>1, <1>2, <3>1, <3>2 DEF WindowHolds
    <3> QED
      BY <3>3 DEF w
  <2>5. admission.global = [startedAt |-> 0, count |-> 0]
    OBVIOUS
  <2>6. MaxSources \in Nat
    BY Amounts
  <2> HIDE DEF SignInInit
  <2> QED
    BY <2>1, <2>2, <2>3, <2>4, <2>5, <2>6 DEF AdmissionInOrder
<1>6. PlacesInOrder /\ KindsInOrder
  <2>1. \A c \in Calls : call[c].pc = "idle"
    BY NoCallYet
  <2>2. LoginsOf(call) = {}
    BY <2>1 DEF LoginsOf
  <2>3. admission.active = 0
    OBVIOUS
  <2>4. Concurrency \in Nat /\ Cardinality({}) = 0
    BY FS_EmptySet, Amounts
  <2> HIDE DEF SignInInit
  <2>5. PlacesInOrder
    BY <2>2, <2>3, <2>4 DEF PlacesInOrder
  <2>6. KindsInOrder
    BY <2>1 DEF KindsInOrder
  <2> QED
    BY <2>5, <2>6
<1>7. HourlyCapacityHolds
  <2>1. logins = quiet /\ Capacity \in Nat
    BY Amounts
  <2>2. \A t \in Times : {u \in Times : u <= t /\ t < u + Hour} \in SUBSET Times
    OBVIOUS
  <2>3. \A t \in Times : Total(quiet, {u \in Times : u <= t /\ t < u + Hour}) = 0
    BY <1>2, <2>2
  <2> HIDE DEF quiet, SignInInit
  <2> QED
    BY <2>1, <2>3 DEF HourlyCapacityHolds
<1>8. ProviderInOrder
  <2>1. /\ \A c \in Calls : call[c].since = 0
        /\ now \in Nat /\ discovery.refresh.state = "none" /\ jwksRefresh.state = "none"
        /\ discovery.document = NoDocument
    BY <1>1, NoCallYet, Amounts DEF NoFetch
  <2> HIDE DEF SignInInit
  <2> QED
    BY <2>1 DEF ProviderInOrder, WaitsBegan, DocumentInOrder, KeysInOrder, FetchInTime
<1> QED
  BY <1>4, <1>5, <1>6, <1>7, <1>8 DEF SignInInv

\* Every step keeps the types.
LEMMA EverythingTyped ==
  ASSUME SignInTyped, [SignInNext]_signInVars
  PROVE  SignInTyped'
<1>1. CASE UNCHANGED signInVars
  BY <1>1 DEF SignInTyped, signInVars
<1>2. CASE CleanUpLogin
  BY <1>2, CleanUpLowers DEF CleanUpLogin, SignInTyped
<1> QED
  BY <1>1, <1>2, AdmitTyped, DatabaseTyped, DiscoveryTyped, KeysFetchTyped, AroundTyped
     DEF SignInNext

\* Every step keeps the invariant.
LEMMA SignInStep ==
  ASSUME SignInInv, [SignInNext]_signInVars
  PROVE  SignInInv'
BY EverythingTyped, AdmissionStays, PlacesStay, KindsStay, EveryHourStays, WaitsStay,
   DocumentStays, KeysStay
   DEF SignInInv, ProviderInOrder

\* In every reachable state of signing in: what windows, places and hours hold, and how
\* old what is known of the provider may be.
THEOREM SignInInvHolds == SignInSpec => []SignInInv
<1>1. SignInInit => SignInInv
  BY SignInInitInv
<1>2. SignInInv /\ [SignInNext]_signInVars => SignInInv'
  BY SignInStep
<1> QED
  BY <1>1, <1>2, PTL DEF SignInSpec

\* What LimitsHold takes from the invariant.
LEMMA LimitsFollow == SignInInv => LimitsHold
<1> SUFFICES ASSUME SignInInv PROVE LimitsHold
  OBVIOUS
<1> USE DEF SignInInv
<1>1. ActiveIsUnderWay /\ BurstsAreBounded /\ HourlyCapacityHolds
  BY ActiveIs, BurstsBounded
<1>2. SignInTypeOK
  <2>1. now \in Times /\ DOMAIN admission.sources \subseteq Sources
    BY WindowsTyped DEF SignInTyped
  <2>2. admission.active \in 0 .. Concurrency
    <3>1. Cardinality(LoginsOf(call)) \in Nat
      BY CallsAreFinite DEF LoginsOf
    <3> QED
      BY <3>1, Amounts DEF PlacesInOrder
  <2>3. admission.global \in [startedAt : Times, count : 0 .. Global]
    <3>1. admission.global \in Windows /\ admission.global.count <= Global /\ Global \in Nat
      BY Amounts DEF AdmissionInOrder, WindowHolds
    <3> QED
      BY <3>1 DEF Windows
  <2>4. ASSUME NEW s \in DOMAIN admission.sources
        PROVE  admission.sources[s] \in [startedAt : Times, count : 0 .. PerSource]
    <3>1. /\ admission.sources[s] \in Windows /\ admission.sources[s].count <= PerSource
          /\ PerSource \in Nat
      BY <2>1, Amounts DEF AdmissionInOrder, SourceInOrder, WindowHolds
    <3> QED
      BY <3>1 DEF Windows
  <2>5. /\ discovery.document \in Versions \cup {NoDocument}
        /\ provider.document \in Versions /\ provider.keys \in (SUBSET Keys) \ {{}}
    BY DEF SignInTyped, Offered
  <2>6. \A t \in Times : logins[t] \in 0 .. Capacity
    BY LoginsAreFew
  <2>7. Cardinality(DOMAIN admission.sources) <= MaxSources
    BY DEF AdmissionInOrder
  <2> HIDE DEF SignInInv
  <2> QED
    BY <2>1, <2>2, <2>3, <2>4, <2>5, <2>6, <2>7 DEF SignInTypeOK
<1> HIDE DEF SignInInv
<1> QED
  BY <1>1, <1>2 DEF LimitsHold

\* A control process admits no more logins at once, and in no stretch of time more from one
\* source or from all, than it is configured to (processLoginAdmission), and no hour gets
\* more login transactions than its capacity (v2_begin_oidc_login).
THEOREM NoLimitIsPassed == SignInSpec => []LimitsHold
BY SignInInvHolds, LimitsFollow, PTL

\* A document reaches a call from the cache, or with the fetch that it waits for.
LEMMA DocumentToldIsRecent ==
  ASSUME SignInInv, [SignInNext]_signInVars, NEW c \in Calls,
         call[c].document # call'[c].document,
         call'[c].document \notin {NoDocument, provider.document}
  PROVE  provider.replaced[call'[c].document] + DiscoveryTtl + HttpTimeout >= Since(c)
<1> DEFINE document == call'[c].document
<1> USE DEF SignInInv, ProviderInOrder
<1>1. /\ now \in Nat /\ HttpTimeout \in Nat /\ DiscoveryTtl \in Nat
      /\ discovery.refresh.sentAt \in Nat /\ discovery.expiresAt \in Nat
      /\ \A v \in Versions : provider.replaced[v] \in Nat
      /\ call \in [Calls -> Callers] /\ Idle.document = NoDocument
      /\ NoDocument \notin Versions
  BY ProviderTypes, NoCallYet, SignInAssumption DEF SignInTyped, NoDocument
<1>2. Since(c) <= now /\ Since(c) \in Nat
  <2>1. call[c].since \in Nat /\ call[c].since <= now
    BY <1>1, Amounts DEF WaitsBegan, Callers
  <2> QED
    BY <1>1, <2>1 DEF Since
<1>3. ASSUME NEW cs \in SUBSET Calls, NEW told \in Offered, call' = Told(cs, told)
      PROVE  document = told
  BY <1>3, ToldTyped
<1>4. ASSUME NEW d \in Calls, KnowDocument(d)
      PROVE  provider.replaced[document] + DiscoveryTtl + HttpTimeout >= Since(c)
  <2>1. discovery.document \in Offered /\ {d} \in SUBSET Calls
    BY DEF SignInTyped
  <2>2. document = discovery.document /\ now < discovery.expiresAt
    BY <1>3, <1>4, <2>1 DEF KnowDocument, Kept
  <2> HIDE DEF document
  <2>3. /\ document \in Versions
        /\ provider.replaced[document] + HttpTimeout + DiscoveryTtl >= discovery.expiresAt
    BY <2>2 DEF DocumentInOrder, document
  <2> QED
    BY <1>1, <1>2, <2>2, <2>3
<1>5. CASE DocumentArrives
  <2>1. discovery.refresh.answer \in Offered /\ Awaiting("await document") \in SUBSET Calls
    BY DEF SignInTyped, Fetches, Awaiting
  <2>2. document = discovery.refresh.answer /\ discovery.refresh.state = "served"
    BY <1>3, <1>5, <2>1 DEF DocumentArrives
  <2>3. /\ document \in Versions
        /\ provider.replaced[document] >= discovery.refresh.sentAt
        /\ now <= discovery.refresh.sentAt + HttpTimeout
    BY <2>2 DEF DocumentInOrder, FetchInTime, ServedSince
  <2> HIDE DEF document, SignInInv
  <2>4. provider.replaced[document] \in Nat
    BY <1>1, <2>3
  <2>5. provider.replaced[document] + DiscoveryTtl + HttpTimeout >= Since(c)
    BY <1>1, <1>2, <2>3, <2>4
  <2> QED
    BY <2>5 DEF document
<1>6. ASSUME \A d \in Calls : call'[d].document \in {call[d].document, NoDocument}
      PROVE  FALSE
  BY <1>6
<1>7. ASSUME NEW cs, call' = Failed(cs)
      PROVE  FALSE
  <2>1. \A d \in Calls : call'[d] = IF d \in cs THEN Idle ELSE call[d]
    BY <1>7, FailedTyped
  <2> QED
    BY <1>1, <1>6, <2>1
<1>8. ASSUME NEW d \in Calls, NEW s \in Sources, Admit(d, s) \/ TurnAway(d, s)
      PROVE  FALSE
  <2>1. CASE Admit(d, s)
    <3>1. PICK r : call' = [call EXCEPT ![d] = r] /\ r.document = NoDocument
      BY <2>1 DEF Admit, Idle
    <3> QED
      BY <1>1, <1>6, <3>1
  <2>2. CASE TurnAway(d, s)
    BY <1>6, <2>2 DEF TurnAway
  <2> QED
    BY <1>8, <2>1, <2>2
<1>9. ASSUME NEW d \in Calls, NEW r, r.document \in {call[d].document, NoDocument},
             call' = [call EXCEPT ![d] = r]
      PROVE  FALSE
  BY <1>1, <1>6, <1>9
<1>10. ASSUME NEW d \in Calls, ReadClock(d)
       PROVE  FALSE
  <2>1. call' = [call EXCEPT ![d] = [call[d] EXCEPT !.pc = "insert", !.observed = now]]
    BY <1>1, <1>10 DEF ReadClock
  <2>2. [call[d] EXCEPT !.pc = "insert", !.observed = now].document = call[d].document
    BY <1>1 DEF Callers
  <2> QED
    BY <1>9, <2>1, <2>2
<1>11. ASSUME NEW d \in Calls, FetchDocument(d)
       PROVE  FALSE
  <2>1. call' = [call EXCEPT ![d] = [call[d] EXCEPT !.pc = "await document", !.since = now]]
    BY <1>1, <1>11 DEF FetchDocument
  <2>2. [call[d] EXCEPT !.pc = "await document", !.since = now].document = call[d].document
    BY <1>1 DEF Callers
  <2> QED
    BY <1>9, <2>1, <2>2
<1>12. ASSUME NEW d \in Calls, BeginLogin(d) \/ BeginFails(d) \/ ExchangeFails(d)
       PROVE  FALSE
  <2>1. CASE call' = Failed({d})
    BY <1>7, <2>1
  <2>2. CASE call' = [call EXCEPT ![d].pc = "discover"]
    <3>1. [call[d] EXCEPT !.pc = "discover"].document = call[d].document
      BY <1>1 DEF Callers
    <3> QED
      BY <1>9, <2>2, <3>1
  <2> QED
    BY <1>12, <2>1, <2>2 DEF BeginLogin, BeginFails, ExchangeFails
<1>13. ASSUME NEW d \in Calls, Callback(d) \/ Exchange(d)
       PROVE  FALSE
  <2>1. CASE Callback(d)
    BY <1>1, <1>6, <2>1 DEF Callback, Idle
  <2>2. CASE Exchange(d)
    BY <1>1, <1>6, <2>2 DEF Exchange, Idle
  <2> QED
    BY <1>13, <2>1, <2>2
<1>14. CASE DocumentFails \/ KeysFail
  BY <1>7, <1>14 DEF DocumentFails, KeysFail
<1>15. CASE KeysArrive
  <2>1. ASSUME NEW d \in Calls
        PROVE  call'[d].document \in {call[d].document, NoDocument}
    <3>1. Judged(call[d].key, jwksRefresh.answer).document = NoDocument
      BY DEF Judged, Idle
    <3> QED
      BY <1>15, <3>1 DEF KeysArrive
  <2> QED
    BY <1>6, <2>1
<1>16. CASE UNCHANGED call
  BY <1>16
<1>17. ServeDocument \/ ServeKeys \/ ReplaceDocument \/ (\E k \in Keys : RetireKey(k)) \/ Tick
         \/ CleanUpLogin \/ UNCHANGED signInVars => UNCHANGED call
  BY DEF ServeDocument, ServeKeys, ReplaceDocument, RetireKey, Tick, CleanUpLogin, signInVars
<1> HIDE DEF SignInInv, document
<1> QED
  BY <1>4, <1>5, <1>8, <1>10, <1>11, <1>12, <1>13, <1>14, <1>15, <1>16, <1>17
     DEF SignInNext, document

\* A token is judged with the keys of the fetch that its call waits for.
LEMMA KeyAcceptedIsRecent ==
  ASSUME SignInInv, [SignInNext]_signInVars, NEW c \in Calls, NEW k \in Keys,
         ~call[c].signedIn, call'[c].signedIn, k \in {call[c].key, call'[c].key}
  PROVE  k \in provider.keys \/ provider.retired[k] + HttpTimeout >= Since(c)
<1> USE DEF SignInInv, ProviderInOrder
<1>1. /\ now \in Nat /\ HttpTimeout \in Nat /\ jwksRefresh.sentAt \in Nat
      /\ \A l \in Keys : provider.retired[l] \in Nat
      /\ call \in [Calls -> Callers] /\ ~Idle.signedIn
  BY ProviderTypes, NoCallYet DEF SignInTyped
<1>2. Since(c) <= now /\ Since(c) \in Nat
  <2>1. call[c].since \in Nat /\ call[c].since <= now
    BY <1>1, Amounts DEF WaitsBegan, Callers
  <2> QED
    BY <1>1, <2>1 DEF Since
<1>3. CASE KeysArrive
  <2>1. call'[c] = Judged(call[c].key, jwksRefresh.answer) /\ jwksRefresh.state = "served"
    BY <1>3 DEF KeysArrive
  <2>2. /\ Judged(call[c].key, jwksRefresh.answer).key = "none"
        /\ Judged(call[c].key, jwksRefresh.answer).signedIn = (call[c].key \in jwksRefresh.answer)
    BY DEF Judged, Idle
  <2>3. k = call[c].key /\ k \in jwksRefresh.answer
    BY <2>1, <2>2, SignInAssumption
  <2>4. k \in provider.keys \/ provider.retired[k] >= jwksRefresh.sentAt
    BY <2>1, <2>3 DEF KeysInOrder
  <2>5. now <= jwksRefresh.sentAt + HttpTimeout
    BY <2>1 DEF KeysInOrder, FetchInTime
  <2> QED
    BY <1>1, <1>2, <2>4, <2>5
<1>4. ASSUME \A d \in Calls : call'[d].signedIn => call[d].signedIn
      PROVE  FALSE
  BY <1>4
<1>5. ASSUME NEW cs, call' = Failed(cs)
      PROVE  FALSE
  <2>1. \A d \in Calls : call'[d] = IF d \in cs THEN Idle ELSE call[d]
    BY <1>5, FailedTyped
  <2> QED
    BY <1>1, <1>4, <2>1
<1>6. ASSUME NEW cs \in SUBSET Calls, NEW told \in Offered, call' = Told(cs, told)
      PROVE  FALSE
  <2>1. \A d \in Calls : call'[d] = call[d] \/ ~call'[d].signedIn
    BY <1>6, ToldTyped
  <2> QED
    BY <1>4, <2>1
<1>7. ASSUME NEW d \in Calls, NEW s \in Sources, Admit(d, s) \/ TurnAway(d, s)
      PROVE  FALSE
  BY <1>1, <1>4, <1>7 DEF Admit, TurnAway, Idle
<1>8. ASSUME NEW d \in Calls, NEW r, r.signedIn => call[d].signedIn,
             call' = [call EXCEPT ![d] = r]
      PROVE  FALSE
  BY <1>1, <1>4, <1>8
<1>9. ASSUME NEW d \in Calls, ReadClock(d)
      PROVE  FALSE
  <2>1. call' = [call EXCEPT ![d] = [call[d] EXCEPT !.pc = "insert", !.observed = now]]
    BY <1>1, <1>9 DEF ReadClock
  <2>2. [call[d] EXCEPT !.pc = "insert", !.observed = now].signedIn = call[d].signedIn
    BY <1>1, ZenonT(60) DEF Callers
  <2> QED
    BY <1>8, <2>1, <2>2
<1>10. ASSUME NEW d \in Calls, FetchDocument(d)
       PROVE  FALSE
  <2>1. call' = [call EXCEPT ![d] = [call[d] EXCEPT !.pc = "await document", !.since = now]]
    BY <1>1, <1>10 DEF FetchDocument
  <2>2. [call[d] EXCEPT !.pc = "await document", !.since = now].signedIn = call[d].signedIn
    BY <1>1, ZenonT(60) DEF Callers
  <2> QED
    BY <1>8, <2>1, <2>2
<1>11. ASSUME NEW d \in Calls, BeginLogin(d) \/ BeginFails(d) \/ ExchangeFails(d)
       PROVE  FALSE
  <2>1. CASE call' = Failed({d})
    BY <1>5, <2>1
  <2>2. CASE call' = [call EXCEPT ![d].pc = "discover"]
    <3>1. [call[d] EXCEPT !.pc = "discover"].signedIn = call[d].signedIn
      BY <1>1 DEF Callers
    <3> QED
      BY <1>8, <2>2, <3>1
  <2> QED
    BY <1>11, <2>1, <2>2 DEF BeginLogin, BeginFails, ExchangeFails
<1>12. ASSUME NEW d \in Calls, KnowDocument(d)
       PROVE  FALSE
  <2>1. discovery.document \in Offered /\ {d} \in SUBSET Calls
    BY DEF SignInTyped
  <2> QED
    BY <1>6, <1>12, <2>1 DEF KnowDocument
<1>13. ASSUME NEW d \in Calls, Callback(d) \/ Exchange(d)
       PROVE  FALSE
  <2>1. CASE Callback(d)
    BY <1>1, <1>4, <2>1 DEF Callback, Idle
  <2>2. CASE Exchange(d)
    BY <1>1, <1>4, <2>2 DEF Exchange, Idle
  <2> QED
    BY <1>13, <2>1, <2>2
<1>14. CASE DocumentArrives
  <2>1. discovery.refresh.answer \in Offered /\ Awaiting("await document") \in SUBSET Calls
    BY DEF SignInTyped, Fetches, Awaiting
  <2> QED
    BY <1>6, <1>14, <2>1 DEF DocumentArrives
<1>15. CASE DocumentFails \/ KeysFail
  BY <1>5, <1>15 DEF DocumentFails, KeysFail
<1>16. CASE UNCHANGED call
  BY <1>16
<1>17. ServeDocument \/ ServeKeys \/ ReplaceDocument \/ (\E l \in Keys : RetireKey(l)) \/ Tick
         \/ CleanUpLogin \/ UNCHANGED signInVars => UNCHANGED call
  BY DEF ServeDocument, ServeKeys, ReplaceDocument, RetireKey, Tick, CleanUpLogin, signInVars
<1> HIDE DEF SignInInv
<1> QED
  BY <1>3, <1>7, <1>9, <1>10, <1>11, <1>12, <1>13, <1>14, <1>15, <1>16, <1>17 DEF SignInNext

\* No browser is sent by a discovery document that the provider gave up longer ago than a
\* cache lifetime and a request, and nobody signs in with a key that was retired longer ago
\* than a request, whoever sent the fetch that is shared (discovery(), verifyIdToken()).
THEOREM NothingOldIsUsed == SignInSpec => ProviderIsRecent
<1>1. SignInInv /\ [SignInNext]_signInVars =>
        [\A c \in Calls :
           LET document == call'[c].document
           IN  call[c].document # document /\ document \notin {NoDocument, provider.document} =>
                 provider.replaced[document] + DiscoveryTtl + HttpTimeout >= Since(c)]_signInVars
  BY DocumentToldIsRecent
<1>2. SignInInv /\ [SignInNext]_signInVars =>
        [\A c \in Calls, k \in Keys :
           ~call[c].signedIn /\ call'[c].signedIn /\ k \in {call[c].key, call'[c].key} =>
             k \in provider.keys \/ provider.retired[k] + HttpTimeout >= Since(c)]_signInVars
  BY KeyAcceptedIsRecent
<1> QED
  BY <1>1, <1>2, SignInInvHolds, PTL
     DEF SignInSpec, ProviderIsRecent, DiscoveryIsRecent, RetiredKeysStayOut

=============================================================================
