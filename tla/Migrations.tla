----------------------------- MODULE Migrations -----------------------------
(***************************************************************************)
(* Migrations 03 to 08 of the v2 tables: the server applies what is        *)
(* pending when it starts, and an operator takes them back one at a time,  *)
(* while transactions write.  Every down locks tables, refuses when one of *)
(* them retains data, and then drops what its up created and puts the      *)
(* bodies back that its up replaced, copied from the older migration.      *)
(*                                                                         *)
(* A table is the set of kinds of rows that its guards and constraints     *)
(* tell apart, and a row is there or not.  The guard tables of module      *)
(* PublicationOutbox and ReleaseJobs are empty between transactions.       *)
(* Privileges, indexes and the functions only one migration defines leave  *)
(* and come with their migration and are not shown.                        *)
(***************************************************************************)
EXTENDS Naturals, FiniteSets

CONSTANT Writers    \* transactions that may write at once

Oldest == 2         \* the legacy tables
Newest == 8
Versions3To8 == Oldest + 1 .. Newest

VARIABLES
  version,    \* the newest migration that is applied
  kinds,      \* of the rows in the tables
  writing,    \* what every open transaction has written
  inForce,    \* the migration whose body every replaceable object has, 0: none
  down        \* the down under way

migrationVars == <<version, kinds, writing, inForce, down>>

TableOf ==
  [ application |-> "v2_applications", rebound |-> "v2_applications",
    release |-> "v2_releases", file |-> "v2_upload_files", binding |-> "v2_bindings",
    event |-> "v2_audit_events", publicationEvent |-> "v2_audit_events",
    session |-> "v2_sessions", record |-> "v2_idempotency", lateRecord |-> "v2_idempotency",
    job |-> "v2_release_jobs", request |-> "v2_publication_outbox",
    login |-> "v2_login_transactions", bindingRequest |-> "v2_binding_requests",
    policy |-> "v2_authorization_policy" ]
Kinds == DOMAIN TableOf

\* Foreign keys.  Those of files and bindings cascade, the others restrict.
Needs(kind) ==
  CASE kind \in {"release", "binding", "bindingRequest", "rebound", "request", "publicationEvent"} ->
         {"application"}
    [] kind \in {"file", "job"} -> {"release"}
    [] OTHER -> {}
Cascading == {"file", "binding"}

CreatedBy(table) ==
  CASE table \in {"v2_applications", "v2_releases", "v2_upload_files", "v2_bindings",
                  "v2_audit_events"} -> 3
    [] table \in {"v2_sessions", "v2_idempotency", "v2_release_jobs",
                  "v2_publication_outbox"} -> 4
    [] table = "v2_login_transactions" -> 6
    [] OTHER -> 7

-----------------------------------------------------------------------------
(* What a migration replaces and another one had defined.                  *)

Objects == {"v2_guard_session", "v2_create_or_replace_session", "v2_revoke_session",
            "v2_guard_audit_event", "v2_audit_events_append_only",
            "v2_audit_events_closed_action_check",
            "v2_guard_idempotency", "v2_idempotency_expiry_check"}

SessionEntries == {"v2_create_or_replace_session", "v2_revoke_session"}
AuditGuards == {"v2_guard_audit_event", "v2_audit_events_append_only"}
IdempotencyGuards == {"v2_guard_idempotency", "v2_idempotency_expiry_check"}

\* up: the tables it alters, which nobody may be writing, and the bodies it brings.
Up03 == [alters |-> {}, brings |-> AuditGuards]
Up04 == [alters |-> {"v2_applications"}, brings |-> {"v2_guard_session"} \cup IdempotencyGuards]
Up05 == [alters |-> {"v2_release_jobs"}, brings |-> {}]
Up06 == [alters |-> {}, brings |-> {"v2_guard_session"} \cup SessionEntries]
Up07 == [ alters |-> {"v2_applications", "v2_audit_events", "v2_bindings"},
          brings |-> AuditGuards \cup SessionEntries \cup {"v2_audit_events_closed_action_check"} ]

Up08 ==
  [ alters |-> {"v2_applications", "v2_publication_outbox", "v2_idempotency", "v2_audit_events"},
    brings |-> {"v2_guard_audit_event", "v2_audit_events_closed_action_check"}
                 \cup IdempotencyGuards ]

Up == [v \in Versions3To8 |->
         CASE v = 3 -> Up03 [] v = 4 -> Up04 [] v = 5 -> Up05
           [] v = 6 -> Up06 [] v = 7 -> Up07 [] OTHER -> Up08]

\* down: the tables it locks, the rows it refuses, those it would lose with their
\* tables and columns, the bodies it puts back and those it drops, and the rows that
\* the constraints it puts back do not admit.
Bodies(objects, v) == [o \in objects |-> v]

Down03 ==
  LET rows == {"application", "release", "file", "binding", "event", "publicationEvent"}
  IN  [ locks |-> {TableOf[k] : k \in rows}, refuses |-> rows, loses |-> rows,
        puts |-> Bodies(AuditGuards, 0), admitsNot |-> {} ]

Rows04 == {"session", "record", "lateRecord", "job", "request"}

\* Mutated form: a table that is dropped is not locked first.
Down04Unlocked ==
  [ locks |-> {"v2_applications", "v2_idempotency", "v2_release_jobs", "v2_publication_outbox"},
    refuses |-> Rows04, loses |-> Rows04,
    puts |-> Bodies({"v2_guard_session"} \cup IdempotencyGuards, 0), admitsNot |-> {} ]

Down04 ==
  [ locks |-> {"v2_applications"} \cup {TableOf[k] : k \in Rows04},
    refuses |-> Rows04, loses |-> Rows04,
    puts |-> Bodies({"v2_guard_session"} \cup IdempotencyGuards, 0), admitsNot |-> {} ]

\* What is lost are the identities of the work of a job.
Down05 == [locks |-> {"v2_release_jobs", "v2_releases", "v2_upload_files"},
           refuses |-> {"job"}, loses |-> {"job"}, puts |-> Bodies({}, 0), admitsNot |-> {}]

Down06 ==
  [ locks |-> {"v2_login_transactions", "v2_sessions"},
    refuses |-> {"login", "session"}, loses |-> {"login"},
    puts |-> [o \in SessionEntries \cup {"v2_guard_session"} |->
               IF o \in SessionEntries THEN 0 ELSE 4],
    admitsNot |-> {} ]

\* rebound: an application whose binding_version is not the 1 it began with.
Down07 ==
  [ locks |-> {"v2_binding_requests", "v2_authorization_policy", "v2_applications", "v2_bindings"},
    refuses |-> {"bindingRequest", "policy", "rebound"},
    loses |-> {"bindingRequest", "policy", "rebound"},
    puts |-> [o \in AuditGuards \cup SessionEntries \cup {"v2_audit_events_closed_action_check"} |->
               CASE o \in AuditGuards -> 3 [] o \in SessionEntries -> 6 [] OTHER -> 0],
    admitsNot |-> {} ]

Down08Puts ==
  [o \in {"v2_guard_audit_event", "v2_audit_events_closed_action_check"} \cup IdempotencyGuards |->
     IF o \in IdempotencyGuards THEN 4 ELSE 7]

\* Mutated form: the guard was forgotten.
Down08Unasked ==
  [ locks |-> {"v2_applications", "v2_publication_outbox", "v2_audit_events", "v2_idempotency"},
    refuses |-> {}, loses |-> {"request"},
    puts |-> Down08Puts, admitsNot |-> {"lateRecord", "publicationEvent"} ]

Down08 ==
  [ locks |-> {"v2_applications", "v2_publication_outbox", "v2_audit_events", "v2_idempotency"},
    refuses |-> {"request", "publicationEvent"}, loses |-> {"request"},
    puts |-> Down08Puts, admitsNot |-> {"lateRecord", "publicationEvent"} ]

Down == [v \in Versions3To8 |->
           CASE v = 3 -> Down03 [] v = 4 -> Down04 [] v = 5 -> Down05
             [] v = 6 -> Down06 [] v = 7 -> Down07 [] OTHER -> Down08]

-----------------------------------------------------------------------------
(* Who writes what.                                                        *)

\* What one transaction may insert: with plain statements before a migration brings
\* the functions for it, with one of the functions after that.
Inserts ==
  {{k} : k \in {"application", "release", "file", "job", "record"}}
    \cup (IF version < 6 THEN {{"session"}} ELSE {{"login"}, {"session", "event"}})
    \cup (IF version < 7 THEN {{"binding"}}
          ELSE {{"policy"}, {"event"}, {"bindingRequest", "event"},
                {"bindingRequest", "rebound", "binding", "event"}})
    \cup (IF version < 8 THEN {{"request"}} ELSE {{"request", "publicationEvent"}})
    \cup (IF version >= 8 /\ "request" \in kinds
          THEN {{"publicationEvent"}, {"publicationEvent", "lateRecord"}} ELSE {})

\* The events that the functions in force write.
Written ==
  (IF inForce["v2_create_or_replace_session"] # 0 THEN {"AUTH_LOGIN"} ELSE {})
    \cup (IF inForce["v2_revoke_session"] # 0 THEN {"AUTH_LOGOUT", "AUTH_SESSION_REVOKED"} ELSE {})
    \cup (IF version >= 7 THEN {"AUTHORIZATION_DECISION", "BINDINGS_REPLACE"} ELSE {})
    \cup (IF version >= 8
          THEN {"PUBLISH_REQUESTED", "RESTORE_REQUESTED", "UNPUBLISH_REQUESTED",
                "PUBLISHED", "RESTORED", "UNPUBLISHED", "PUBLICATION_FAILED"} ELSE {})

\* The events that a body of migration v lets in; before 07 an insert is not guarded.
LetsIn(v) ==
  {"AUTH_LOGIN", "AUTH_LOGOUT", "AUTH_SESSION_REVOKED", "AUTHORIZATION_DECISION",
   "BINDINGS_REPLACE"}
    \cup (IF v = 7 THEN {}
          ELSE {"PUBLISH_REQUESTED", "RESTORE_REQUESTED", "UNPUBLISH_REQUESTED",
                "PUBLISHED", "RESTORED", "UNPUBLISHED", "PUBLICATION_FAILED"})

Locked == IF down = "idle" THEN {} ELSE Down[version].locks
Busy == UNION {{TableOf[k] : k \in writing[w]} : w \in Writers}

\* Guards let nobody delete events, jobs and requests; for binding requests, the
\* policy and the version of the bindings there is no statement that does.
Deletable == {"application", "release", "file", "binding", "session", "login", "record", "lateRecord"}

MayGo(kind) ==
  /\ kind \in Deletable
  /\ \A k \in kinds \ Cascading : kind \notin Needs(k)
  /\ \A w \in Writers, k \in Kinds : k \in writing[w] => kind \notin Needs(k)

Insert(w) ==
  /\ writing[w] = {}
  /\ \E written \in Inserts :
       /\ \A k \in written :
            /\ version >= CreatedBy(TableOf[k]) /\ TableOf[k] \notin Locked
            /\ Needs(k) \subseteq kinds
       /\ writing' = [writing EXCEPT ![w] = written]
  /\ UNCHANGED <<version, kinds, inForce, down>>

Commit(w) ==
  /\ writing[w] # {}
  /\ kinds' = kinds \cup writing[w]
  /\ writing' = [writing EXCEPT ![w] = {}]
  /\ UNCHANGED <<version, inForce, down>>

RollBack(w) ==
  /\ writing[w] # {}
  /\ writing' = [writing EXCEPT ![w] = {}]
  /\ UNCHANGED <<version, kinds, inForce, down>>

Delete(kind) ==
  /\ kind \in kinds /\ MayGo(kind)
  /\ TableOf[kind] \notin Locked
  /\ kinds' = {k \in kinds : k # kind /\ ~(k \in Cascading /\ kind \in Needs(k))}
  /\ UNCHANGED <<version, writing, inForce, down>>

-----------------------------------------------------------------------------
(* knex: migrate.latest applies what is pending in one transaction, and    *)
(* migrate.down takes the newest one back in another.                      *)

Pending == version + 1 .. Newest

Latest ==
  /\ Pending # {} /\ down = "idle"
  /\ \A v \in Pending : Up[v].alters \cap Busy = {}
  /\ version' = Newest
  /\ inForce' = [o \in Objects |->
       LET by == {v \in Pending : o \in Up[v].brings}
       IN  IF by = {} THEN inForce[o] ELSE CHOOSE v \in by : \A u \in by : u <= v]
  /\ UNCHANGED <<kinds, writing, down>>

\* LOCK TABLE waits for whoever writes.
LockTables ==
  /\ version > Oldest /\ down = "idle"
  /\ Down[version].locks \cap Busy = {}
  /\ down' = "locked"
  /\ UNCHANGED <<version, kinds, writing, inForce>>

RefuseRetained ==
  /\ down = "locked"
  /\ Down[version].refuses \cap kinds # {}
  /\ down' = "idle"
  /\ UNCHANGED <<version, kinds, writing, inForce>>

PassGuard ==
  /\ down = "locked"
  /\ Down[version].refuses \cap kinds = {}
  /\ down' = "passed"
  /\ UNCHANGED <<version, kinds, writing, inForce>>

\* DROP and ALTER wait for whoever writes a table that was not locked.  A column
\* goes, and its row stays with nothing of it.
DropAndPutBack ==
  LET lost == Down[version].loses
  IN  /\ down = "passed"
      /\ {TableOf[k] : k \in lost} \cap Busy = {}
      /\ Down[version].admitsNot \cap kinds = {}
      /\ kinds' = kinds \ lost
      /\ inForce' = [o \in Objects |-> IF o \in DOMAIN Down[version].puts
                                        THEN Down[version].puts[o] ELSE inForce[o]]
      /\ version' = version - 1
      /\ down' = "idle"
      /\ UNCHANGED writing

MigrationsInit ==
  /\ version = Oldest /\ kinds = {} /\ down = "idle"
  /\ writing = [w \in Writers |-> {}]
  /\ inForce = [o \in Objects |-> 0]

MigrationsNext ==
  \/ Latest \/ LockTables \/ RefuseRetained \/ PassGuard \/ DropAndPutBack
  \/ \E w \in Writers : Insert(w) \/ Commit(w) \/ RollBack(w)
  \/ \E kind \in Kinds : Delete(kind)

MigrationsSpec == MigrationsInit /\ [][MigrationsNext]_migrationVars

-----------------------------------------------------------------------------
\* The tables of all rows exist, and so do the rows that they refer to.
MigrationsTypeOK ==
  /\ version \in Oldest .. Newest /\ down \in {"idle", "locked", "passed"}
  /\ kinds \subseteq Kinds /\ inForce \in [Objects -> {0} \cup Versions3To8]
  /\ \A k \in kinds : CreatedBy(TableOf[k]) <= version /\ Needs(k) \subseteq kinds

\* After any sequence of ups and downs every guard, function and constraint that was
\* ever replaced is the one of the newest migration applied: none of the bodies that
\* a down copies from an older migration is missing or is of the wrong one.
BodiesFitVersion ==
  \A o \in Objects :
    LET by == {v \in Versions3To8 : v <= version /\ o \in Up[v].brings}
    IN  inForce[o] = IF by = {} THEN 0 ELSE CHOOSE v \in by : \A u \in by : u <= v

\* A down that is not refused takes no data with it, not even what a transaction
\* wrote that was open while the guard looked.
RetainedDataStays == [][version' < version => kinds' = kinds]_migrationVars

\* A down whose guard has passed can be carried out: nothing that the retained tables
\* still hold contradicts a constraint that it puts back, though records may be
\* completed after they expired while migration 08 is in force.
PassedDownSucceeds == down = "passed" => Down[version].admitsNot \cap kinds = {}

\* In every schema on the way the functions that are there can write their events:
\* no guard or constraint is older than a function that it would then break.
AuditGuardLetsIn ==
  \A o \in {"v2_guard_audit_event", "v2_audit_events_closed_action_check"} :
    inForce[o] # 0 => Written \subseteq LetsIn(inForce[o])

\* The schema in force is that of its version, and its rows may live under it and
\* under the one that a down goes back to.
SchemaFitsVersion ==
  /\ MigrationsTypeOK
  /\ BodiesFitVersion
  /\ PassedDownSucceeds
  /\ AuditGuardLetsIn

=============================================================================
