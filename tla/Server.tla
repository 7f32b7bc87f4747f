------------------------------- MODULE Server -------------------------------
(***************************************************************************)
(* The life of server processes (server.ts) that a supervisor keeps alive  *)
(* over one database and one bucket: a start that prepares both, a signal  *)
(* at any moment, the bounded shutdown, the exit and its code.             *)
(*                                                                         *)
(* start() and shutdown() are two asynchronous flows of one process; the   *)
(* second waits for the first.  Timers are steps that may come at any time *)
(* once they are set.  The migrations run in one transaction behind a row  *)
(* lock of knex, which ends with its connection.                           *)
(***************************************************************************)
EXTENDS Naturals

CONSTANTS
  Processes,
  OidcProcesses,  \* those with server-side sessions configured
  NoProcess,
  MaxRequests,    \* bound: requests in progress at a process
  MaxFaults       \* bound: signals, kills and awaits of start() that throw

ASSUME ServerAssumption ==
  /\ OidcProcesses \subseteq Processes /\ NoProcess \notin Processes
  /\ MaxRequests \in Nat /\ MaxFaults \in Nat

VARIABLES
  migrated,   \* the schema is up to date
  migrating,  \* who holds the lock of the migrations
  bucket,     \* it exists
  proc,
  faults

serverVars == <<migrated, migrating, bucket, proc, faults>>

Starting == {"qualify", "migrate", "migrating", "head bucket", "create bucket",
             "bootstrap", "listen"}
Shutdowns == {"none", "waits", "closes", "destroys", "done"}

\* start: where start() is, "returned" once its promise is settled.
Down == [start |-> "down", shutdown |-> "none", listening |-> FALSE, requests |-> 0,
         destroyed |-> FALSE, undrained |-> FALSE, exitCode |-> 0]

Up(p) == proc[p].start # "down"
ShutdownRequested(p) == proc[p].shutdown # "none"

GoOn(p, step) == proc' = [proc EXCEPT ![p].start = step]

\* if (shutdownRequested) return;
GoOnUnlessStopped(p, step) == GoOn(p, IF ShutdownRequested(p) THEN "returned" ELSE step)

\* The process ends, and with it its transaction.
Ends(p, code) ==
  /\ proc' = [proc EXCEPT ![p] = [Down EXCEPT !.exitCode = code]]
  /\ migrating' = IF migrating = p THEN NoProcess ELSE migrating

-----------------------------------------------------------------------------
(* start() *)

Spawn(p) ==
  /\ ~Up(p)
  /\ proc' = [proc EXCEPT ![p] = [Down EXCEPT !.start = "qualify"]]
  /\ UNCHANGED <<migrated, migrating, bucket, faults>>

\* verifyReady() of the sessions and of the authorization asks for functions that
\* only the migrations make.
Qualify(p) ==
  /\ proc[p].start = "qualify"
  /\ p \in OidcProcesses => migrated
  /\ GoOnUnlessStopped(p, "migrate")
  /\ UNCHANGED <<migrated, migrating, bucket, faults>>

Lock(p) ==
  /\ proc[p].start = "migrate"
  /\ migrating = NoProcess
  /\ migrating' = p
  /\ GoOn(p, "migrating")
  /\ UNCHANGED <<migrated, bucket, faults>>

Migrate(p) ==
  /\ proc[p].start = "migrating"
  /\ migrated' = TRUE
  /\ migrating' = NoProcess
  /\ GoOn(p, "head bucket")
  /\ UNCHANGED <<bucket, faults>>

HeadBucket(p) ==
  /\ proc[p].start = "head bucket"
  /\ GoOn(p, IF bucket THEN "bootstrap" ELSE "create bucket")
  /\ UNCHANGED <<migrated, migrating, bucket, faults>>

\* Who comes second is told so, as an error or not.
CreateBucket(p) ==
  /\ proc[p].start = "create bucket"
  /\ bucket' = TRUE
  /\ GoOn(p, "bootstrap")
  /\ UNCHANGED <<migrated, migrating, faults>>

CreateRootUserAndGroup(p) ==
  /\ proc[p].start = "bootstrap"
  /\ GoOnUnlessStopped(p, "listen")
  /\ UNCHANGED <<migrated, migrating, bucket, faults>>

Listen(p) ==
  /\ proc[p].start = "listen"
  /\ proc' = [proc EXCEPT ![p].start = "returned", ![p].listening = TRUE]
  /\ UNCHANGED <<migrated, migrating, bucket, faults>>

\* Qualification is refused for certain, anything else that start() awaits may throw.
Throws(p) ==
  \/ proc[p].start = "qualify" /\ p \in OidcProcesses /\ ~migrated /\ UNCHANGED faults
  \/ proc[p].start \in Starting /\ faults < MaxFaults /\ faults' = faults + 1

\* Mutated form: the lock outlives a migration that fails.
StartFailsLocked(p) ==
  /\ Throws(p)
  /\ proc' = [proc EXCEPT ![p].start = "failed", ![p].exitCode = 1]
  /\ UNCHANGED <<migrated, migrating, bucket>>

StartFails(p) ==
  /\ Throws(p)
  /\ proc' = [proc EXCEPT ![p].start = "failed", ![p].exitCode = 1]
  /\ migrating' = IF migrating = p THEN NoProcess ELSE migrating
  /\ UNCHANGED <<migrated, bucket>>

\* Mutated form: the pool stays open and keeps the process alive.
CleanUpStartPartly(p) ==
  /\ proc[p].start = "failed"
  /\ proc' = [proc EXCEPT ![p].start = "returned"]
  /\ UNCHANGED <<migrated, migrating, bucket, faults>>

\* The catch block: what was made so far is destroyed; nothing listens yet.
CleanUpStart(p) ==
  /\ proc[p].start = "failed"
  /\ proc' = [proc EXCEPT ![p].start = "returned", ![p].destroyed = TRUE]
  /\ UNCHANGED <<migrated, migrating, bucket, faults>>

CleanUpStartFails(p) ==
  /\ proc[p].start = "failed"
  /\ Ends(p, 1)
  /\ UNCHANGED <<migrated, bucket, faults>>

-----------------------------------------------------------------------------
(* Requests *)

RequestArrives(p) ==
  /\ proc[p].listening
  /\ proc[p].requests < MaxRequests
  /\ proc' = [proc EXCEPT ![p].requests = @ + 1]
  /\ UNCHANGED <<migrated, migrating, bucket, faults>>

RequestEnds(p) ==
  /\ proc[p].requests > 0
  /\ proc' = [proc EXCEPT ![p].requests = @ - 1]
  /\ UNCHANGED <<migrated, migrating, bucket, faults>>

-----------------------------------------------------------------------------
(* shutdown() *)

\* SIGINT or SIGTERM; a second one finds the shutdown under way.
Signal(p) ==
  /\ Up(p) /\ faults < MaxFaults
  /\ proc[p].shutdown = "none"
  /\ proc' = [proc EXCEPT ![p].shutdown = "waits"]
  /\ faults' = faults + 1
  /\ UNCHANGED <<migrated, migrating, bucket>>

\* Mutated form: the shutdown does not wait for the start.
CloseAtOnce(p) ==
  /\ proc[p].shutdown = "waits"
  /\ proc' = [proc EXCEPT ![p].shutdown = IF proc[p].listening THEN "closes" ELSE "destroys",
                          ![p].listening = FALSE]
  /\ UNCHANGED <<migrated, migrating, bucket, faults>>

\* await startupPromise; closeServer() stops accepting, if there is a server.
Close(p) ==
  /\ proc[p].shutdown = "waits" /\ proc[p].start = "returned"
  /\ proc' = [proc EXCEPT ![p].shutdown = IF proc[p].listening THEN "closes" ELSE "destroys",
                          ![p].listening = FALSE]
  /\ UNCHANGED <<migrated, migrating, bucket, faults>>

Drained(p) ==
  /\ proc[p].shutdown = "closes" /\ proc[p].requests = 0
  /\ proc' = [proc EXCEPT ![p].shutdown = "destroys"]
  /\ UNCHANGED <<migrated, migrating, bucket, faults>>

\* closeAllConnections() ends the connections; what their handlers do goes on.
DrainTimesOut(p) ==
  /\ proc[p].shutdown = "closes"
  /\ proc' = [proc EXCEPT ![p].shutdown = "destroys", ![p].undrained = TRUE]
  /\ UNCHANGED <<migrated, migrating, bucket, faults>>

\* Mutated form: the drain that timed out is logged and forgotten.
DestroyAnyhow(p) ==
  /\ proc[p].shutdown = "destroys"
  /\ proc' = [proc EXCEPT ![p].shutdown = "done", ![p].destroyed = TRUE]
  /\ UNCHANGED <<migrated, migrating, bucket, faults>>

\* destroyStorages(); a drain that timed out fails the cleanup after all.
Destroy(p) ==
  /\ proc[p].shutdown = "destroys"
  /\ proc' = [proc EXCEPT ![p].shutdown = "done", ![p].destroyed = TRUE,
                          ![p].exitCode = IF proc[p].undrained THEN 1 ELSE @]
  /\ UNCHANGED <<migrated, migrating, bucket, faults>>

\* Something cannot be destroyed: forceExit.
DestroyFails(p) ==
  /\ proc[p].shutdown = "destroys"
  /\ Ends(p, 1)
  /\ UNCHANGED <<migrated, bucket, faults>>

\* withTimeout(): the start, the close or the destruction takes too long.
ShutdownTimesOut(p) ==
  /\ proc[p].shutdown \in {"waits", "closes", "destroys"}
  /\ Ends(p, 1)
  /\ UNCHANGED <<migrated, bucket, faults>>

\* By itself once nothing is left to do, or forced after a drain that failed.
Exit(p) ==
  /\ proc[p].start = "returned" /\ proc[p].destroyed
  /\ proc[p].shutdown \in {"none", "done"}
  /\ proc[p].requests = 0 \/ proc[p].undrained
  /\ Ends(p, proc[p].exitCode)
  /\ UNCHANGED <<migrated, bucket, faults>>

\* SIGKILL, or the machine goes down.
Kill(p) ==
  /\ Up(p) /\ faults < MaxFaults
  /\ faults' = faults + 1
  /\ Ends(p, 137)
  /\ UNCHANGED <<migrated, bucket>>

-----------------------------------------------------------------------------
ServerInit ==
  /\ migrated = FALSE /\ migrating = NoProcess
  /\ bucket \in BOOLEAN
  /\ proc = [p \in Processes |-> Down]
  /\ faults = 0

Start(p) ==
  \/ Spawn(p)
  \/ Qualify(p) \/ Lock(p) \/ Migrate(p) \/ HeadBucket(p) \/ CreateBucket(p)
  \/ CreateRootUserAndGroup(p) \/ Listen(p)
  \/ StartFails(p) \/ CleanUpStart(p) \/ CleanUpStartFails(p)

Shutdown(p) ==
  \/ Close(p) \/ Drained(p) \/ DrainTimesOut(p) \/ Destroy(p) \/ DestroyFails(p)
  \/ ShutdownTimesOut(p) \/ Exit(p)

ServerNext ==
  \E p \in Processes :
    \/ Start(p) \/ Shutdown(p)
    \/ RequestArrives(p) \/ RequestEnds(p)
    \/ Signal(p) \/ Kill(p)

\* The supervisor starts what is down, start() goes on until it is settled, and
\* timers fire.  A request may hang, and so may what a shutdown waits for.
ServerFairness ==
  \A p \in Processes :
    WF_serverVars(Start(p)) /\ WF_serverVars(ShutdownTimesOut(p) \/ Exit(p))

ServerSpec == ServerInit /\ [][ServerNext]_serverVars /\ ServerFairness

-----------------------------------------------------------------------------
(* Properties *)

\* Every variable keeps its type, and who holds the lock of the migrations is
\* running them.
ServerTypeOK ==
  /\ migrated \in BOOLEAN /\ bucket \in BOOLEAN
  /\ migrating \in Processes \cup {NoProcess}
  /\ migrating # NoProcess => proc[migrating].start = "migrating"
  /\ faults \in 0 .. MaxFaults
  /\ proc \in [Processes ->
       [start : Starting \cup {"down", "failed", "returned"}, shutdown : Shutdowns,
        listening : BOOLEAN, requests : 0 .. MaxRequests, destroyed : BOOLEAN,
        undrained : BOOLEAN, exitCode : {0, 1, 137}]]

\* No request meets a database without its schema or a missing bucket, whichever
\* process prepared them and however many starts were cut off before.
ListensWhenReady ==
  \A p \in Processes : proc[p].listening \/ proc[p].requests > 0 => migrated /\ bucket

\* The storages are not destroyed under a start that uses them, nor under a request
\* unless it would not end in time.
DestroyedAfterUse ==
  \A p \in Processes :
    proc[p].destroyed =>
      /\ proc[p].start \notin Starting
      /\ proc[p].requests > 0 => proc[p].undrained

\* Storages are there for all who use them, from the first request to the last.
ServerInOrder == ListensWhenReady /\ DestroyedAfterUse

\* A process that exits with 0 was told to stop and did so in good order: every
\* request answered, everything destroyed, nothing that failed on the way.
ZeroMeansClean ==
  [][\A p \in Processes :
       Up(p) /\ proc'[p].start = "down" /\ proc'[p].exitCode = 0 =>
         /\ proc[p].shutdown = "done" /\ proc[p].destroyed
         /\ proc[p].requests = 0 /\ ~proc[p].undrained]_serverVars

\* A process that was told to stop stops, whatever hangs: a request or
\* the destruction of a storage.
SignalledProcessesEnd ==
  \A p \in Processes : ShutdownRequested(p) ~> ~ShutdownRequested(p)

\* Once processes are no longer stopped from outside, each of them comes to serve
\* and goes on, though they all start at once on an empty database and those with
\* sessions cannot start before another has migrated it.
AllComeToServe ==
  OidcProcesses # Processes => \A p \in Processes : <>[]proc[p].listening

\* Processes end when told to and serve in the end, whatever failed or hung.
ServersEndAndServe == SignalledProcessesEnd /\ AllComeToServe

=============================================================================
