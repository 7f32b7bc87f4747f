---------------------------- MODULE Authorization ----------------------------
(***************************************************************************)
(* Authorization over the policy, session, application and binding rows    *)
(* (migrations 07 and 08 behind V2Authorization.ts): a decision alone, a   *)
(* decision that a publication request acts on, and the replacement of an  *)
(* application's bindings.  A call is one transaction and takes its row    *)
(* locks in the order policy, session, application; each lock is a step,   *)
(* and the locks a call holds follow from where it is.                     *)
(*                                                                         *)
(* Abstracted: a request is named by what its digest covers; the sessions  *)
(* of module Sessions are kept as whether and until when each is alive;    *)
(* the audit event that every completed call inserts says what its answer  *)
(* says.  Of v2_request_publication the locks and the decision are here,   *)
(* the outbox is in PublicationOutbox.                                     *)
(***************************************************************************)
EXTENDS Roles, FiniteSets

CONSTANTS
    Processes,      \* control processes, with their configuration
    Configuration,  \* Configuration[p]: administrator groups given to p
    Calls,          \* transactions that may be in progress at once
    SessionIds,
    ActorOf,        \* ActorOf[s]: the subject of session s
    GroupsOf,       \* GroupsOf[s]: its groups, as its claims name them
    Groups,
    Applications,
    Operations,     \* capabilities that authorize() is asked about
    Requests,       \* replacements asked for: idempotency key, expected
                    \* version and bindings
    Lifetime,       \* of a session
    MaxClock,       \* bound: the clock stops there
    MaxVersion      \* bound: version of the bindings of an application

Actors == {ActorOf[s] : s \in SessionIds}
Configurations == {Configuration[p] : p \in Processes}
Keys == {ask.key : ask \in Requests}
Desired == {ask.desired : ask \in Requests} \cup {<<>>}
None == "none"

ASSUME AuthorizationAssumption ==
    /\ MaxClock \in Nat \ {0}
    /\ MaxVersion \in Nat \ {0}
    /\ Lifetime \in Nat \ {0}
    /\ {} \notin Configurations
    /\ \A s \in SessionIds : GroupsOf[s] \subseteq Groups
    /\ Requests \subseteq
          [key : Keys, expected : 1..MaxVersion, desired : Bindings(Groups)]
    /\ Operations \subseteq Capabilities
    /\ None \notin SessionIds \cup Applications \cup Keys

VARIABLES
    clock,
    policy,     \* administrator groups of v2_authorization_policy, or {}
    process,    \* [Processes -> how far they have started]
    session,    \* rows of v2_sessions
    exists,     \* applications that are
    bound,      \* their binding_version and bindings
    request,    \* rows of v2_binding_requests
    call        \* transactions in progress, and how the last one ended

vars == <<clock, policy, process, session, exists, bound, request, call>>
-----------------------------------------------------------------------------
Unasked == [outcome |-> "NONE", expected |-> 0, desired |-> <<>>, version |-> 0]

NoAsk == [key |-> None, expected |-> 0, desired |-> <<>>]

\* NONE: an error, whose call has changed nothing.
Answers == {"NONE", "ALLOWED", "DENIED", "APPLIED", "VERSION_CONFLICT"}

Call ==
    [pc : {"idle", "advisory", "begin", "session", "application", "decide",
           "upgrade"},
     kind : {"authorize", "publish", "replace"},
     session : SessionIds \cup {None}, app : Applications \cup {None},
     capability : Capabilities, ask : Requests \cup {NoAsk},
     observed : Nat,     \* clock_timestamp() as the call read it
     version : Nat,      \* binding_version of the row it locked
     answer : Answers]

NoCall ==
    [pc |-> "idle", kind |-> "authorize", session |-> None, app |-> None,
     capability |-> "APPLICATION_READ", ask |-> NoAsk, observed |-> 0,
     version |-> 0, answer |-> "NONE"]

Step(c, pc) == call' = [call EXCEPT ![c].pc = pc]

\* The transaction ends, and its locks with it.
End(c, answer, version) ==
    call' = [call EXCEPT ![c] =
        [NoCall EXCEPT !.answer = answer, !.version = version]]

\* A row that is not there locks nothing.
Found(c) == call[c].version # 0

\* The locks that call c holds.
HoldsSession(c, s) ==
    /\ call[c].session = s
    /\ call[c].pc \in {"application", "decide", "upgrade"}
HoldsApplication(c, a) ==
    /\ call[c].app = a
    /\ call[c].pc \in {"decide", "upgrade"}
    /\ Found(c)
Exclusive(c) == call[c].kind = "replace"

\* pg_advisory_xact_lock on the application, until the transaction ends.
HoldsAdvisory(c, a) ==
    /\ call[c].kind = "publish"
    /\ call[c].app = a
    /\ call[c].pc \notin {"idle", "advisory"}

RoleOf(s, a) == EffectiveRole(bound[a].bindings, GroupsOf[s], policy)
-----------------------------------------------------------------------------
Init ==
    /\ clock = 1
    /\ policy = {}
    /\ process = [p \in Processes |-> "down"]
    /\ session = [s \in SessionIds |-> [state |-> "unborn", expires |-> 0]]
    /\ exists = {}
    /\ bound = [a \in Applications |-> [version |-> 1, bindings |-> <<>>]]
    /\ request = [k \in Applications \X Actors \X Keys |-> Unasked]
    /\ call = [c \in Calls |-> NoCall]

\* v2_initialize_authorization_policy, called by verifyReady: the first
\* configuration is kept for good, another one raises and ends the process.
InitializePolicy(p) ==
    /\ process[p] = "down"
    /\ policy \in {{}, Configuration[p]}
    /\ policy' = Configuration[p]
    /\ process' = [process EXCEPT ![p] = "initialized"]
    /\ UNCHANGED <<clock, session, exists, bound, request, call>>

\* The rest of verifyReady: the stored policy is compared with its own.
VerifyReady(p) ==
    /\ process[p] = "initialized"
    /\ process' = [process EXCEPT ![p] =
          IF policy = Configuration[p] THEN "ready" ELSE "down"]
    /\ UNCHANGED <<clock, policy, session, exists, bound, request, call>>

Stop(p) ==
    /\ process[p] # "down"
    /\ process' = [process EXCEPT ![p] = "down"]
    /\ UNCHANGED <<clock, policy, session, exists, bound, request, call>>

\* v2_create_or_replace_session; and v2_use_session, which extends an active
\* session and locks its row FOR UPDATE.
Active(s) == session[s].state = "live" /\ clock < session[s].expires

TouchSession(s) ==
    /\ session[s].state = "unborn" \/ Active(s)
    /\ \A c \in Calls : ~HoldsSession(c, s)
    /\ session' = [session EXCEPT ![s] =
          [state |-> "live", expires |-> clock + Lifetime]]
    /\ UNCHANGED <<clock, policy, process, exists, bound, request, call>>

\* Mutated form: the session was read without FOR SHARE.
EndSessionUnlocked(s) ==
    /\ Active(s)
    /\ session' = [session EXCEPT ![s] = [state |-> "ended", expires |-> 0]]
    /\ UNCHANGED <<clock, policy, process, exists, bound, request, call>>

\* v2_revoke_session, or a login that replaces the session.
EndSession(s) ==
    /\ Active(s)
    /\ \A c \in Calls : ~HoldsSession(c, s)
    /\ session' = [session EXCEPT ![s] = [state |-> "ended", expires |-> 0]]
    /\ UNCHANGED <<clock, policy, process, exists, bound, request, call>>

\* No code in src/ inserts an application yet.
CreateApplication(a) ==
    /\ a \notin exists
    /\ exists' = exists \cup {a}
    /\ UNCHANGED <<clock, policy, process, session, bound, request, call>>

\* authorize, authorizeApplicationCreate, replaceBindings and the publication
\* queue's request, for the principal of a session that a request came with.
Serving == \E p \in Processes : process[p] = "ready"

Begin(c, kind, s, a, capability, ask) ==
    /\ Serving
    /\ call[c].pc = "idle"
    /\ session[s].state # "unborn"
    /\ (capability = "APPLICATION_CREATE") <=> (a = None)
    /\ call' = [call EXCEPT ![c] =
          [NoCall EXCEPT !.pc = IF kind = "publish" THEN "advisory" ELSE "begin",
                         !.kind = kind, !.session = s, !.app = a,
                         !.capability = capability, !.ask = ask]]
    /\ UNCHANGED <<clock, policy, process, session, exists, bound, request>>

BeginAuthorize(c, s, a, capability) ==
    Begin(c, "authorize", s, a, capability, NoAsk)
BeginReplace(c, s, a, ask) ==
    Begin(c, "replace", s, a, "BINDINGS_REPLACE", ask)
BeginPublish(c, s, a) == Begin(c, "publish", s, a, "PUBLISH", NoAsk)

\* Mutated form: publication requests go straight to the decision.
AdvisoryLockSkipped(c) ==
    /\ call[c].pc = "advisory"
    /\ Step(c, "begin")
    /\ UNCHANGED <<clock, policy, process, session, exists, bound, request>>

\* v2_request_publication, before it authorizes.
AdvisoryLock(c) ==
    /\ call[c].pc = "advisory"
    /\ \A d \in Calls \ {c} : ~HoldsAdvisory(d, call[c].app)
    /\ Step(c, "begin")
    /\ UNCHANGED <<clock, policy, process, session, exists, bound, request>>

\* The policy is locked FOR SHARE and the clock is read, before the session's
\* row is waited for.
LockPolicy(c) ==
    /\ call[c].pc = "begin"
    /\ IF policy = {} THEN End(c, "NONE", 0)
       ELSE call' = [call EXCEPT ![c].pc = "session", ![c].observed = clock]
    /\ UNCHANGED <<clock, policy, process, session, exists, bound, request>>

\* The session's row FOR SHARE: a principal that is not of a live session is
\* stale.
LockSession(c) ==
    LET s == call[c].session IN
    /\ call[c].pc = "session"
    /\ IF session[s].state = "live" /\ call[c].observed < session[s].expires
       THEN Step(c, "application")
       ELSE End(c, "NONE", 0)
    /\ UNCHANGED <<clock, policy, process, session, exists, bound, request>>

\* The application's row, FOR SHARE to decide and FOR UPDATE to replace.
Grantable(c, a) ==
    \A d \in Calls \ {c} :
        HoldsApplication(d, a) => ~Exclusive(c) /\ ~Exclusive(d)

LockApplication(c) ==
    LET a == call[c].app IN
    /\ call[c].pc = "application"
    /\ a \in exists => Grantable(c, a)
    /\ call' = [call EXCEPT ![c].pc = "decide",
          ![c].version = IF a \in exists THEN bound[a].version ELSE 0]
    /\ UNCHANGED <<clock, policy, process, session, exists, bound, request>>

\* The decision, with the bindings read under the application's lock.
Role(c) ==
    IF call[c].app \in Applications THEN RoleOf(call[c].session, call[c].app)
    ELSE EffectiveRole(<<>>, GroupsOf[call[c].session], policy)

Authorize(c) ==
    /\ call[c].pc = "decide"
    /\ call[c].kind # "replace"
    /\ IF Allows(call[c].capability, Found(c), Role(c))
       THEN IF call[c].kind = "publish" THEN Step(c, "upgrade")
            ELSE End(c, "ALLOWED", 0)
       ELSE End(c, "DENIED", 0)
    /\ UNCHANGED <<clock, policy, process, session, exists, bound, request>>

\* v2_request_publication goes on: the application's row, FOR UPDATE now,
\* and the new generation (RequestPublication of PublicationOutbox).
Publish(c) ==
    /\ call[c].pc = "upgrade"
    /\ \A d \in Calls \ {c} : ~HoldsApplication(d, call[c].app)
    /\ End(c, "ALLOWED", 0)
    /\ UNCHANGED <<clock, policy, process, session, exists, bound, request>>

\* v2_replace_bindings after its locks: authorization, then the request that
\* the key names, then the version.
RequestKey(c) ==
    <<call[c].app, ActorOf[call[c].session], call[c].ask.key>>

Denied(c) == ~(Found(c) /\ MayReplace(Role(c)))

\* Mutated form: the request is not compared with the earlier one.
ReplayAnything(c) ==
    LET prior == request[RequestKey(c)] IN End(c, prior.outcome, prior.version)

\* One key, one request: the same answer for the same request, 23505 for
\* another one.
Replay(c) ==
    LET prior == request[RequestKey(c)] IN
    IF prior.desired = call[c].ask.desired /\ prior.expected = call[c].ask.expected
    THEN End(c, prior.outcome, prior.version)
    ELSE End(c, "NONE", 0)

\* Mutated form: the expected version decides only what is answered.
ReplacementAnyVersion(c) ==
    LET old == bound[call[c].app] IN
    IF old.bindings = call[c].ask.desired THEN old
    ELSE [version |-> old.version + 1, bindings |-> call[c].ask.desired]

\* The set is replaced as a whole; what is already so keeps its version.
Replacement(c) ==
    LET old == bound[call[c].app] IN
    IF call[c].version # call[c].ask.expected \/ old.bindings = call[c].ask.desired
    THEN old
    ELSE [version |-> old.version + 1, bindings |-> call[c].ask.desired]

Outcome(c) ==
    IF call[c].version = call[c].ask.expected THEN "APPLIED" ELSE "VERSION_CONFLICT"

Replace(c) ==
    LET new == Replacement(c) IN
    /\ call[c].pc = "decide"
    /\ call[c].kind = "replace"
    /\ new.version <= MaxVersion
    /\ IF Denied(c)
       THEN End(c, "DENIED", 0) /\ UNCHANGED <<bound, request>>
       ELSE IF request[RequestKey(c)] # Unasked
       THEN Replay(c) /\ UNCHANGED <<bound, request>>
       ELSE /\ bound' = [bound EXCEPT ![call[c].app] = new]
            /\ request' = [request EXCEPT ![RequestKey(c)] =
                  [outcome |-> Outcome(c), expected |-> call[c].ask.expected,
                   desired |-> call[c].ask.desired, version |-> new.version]]
            /\ End(c, Outcome(c), new.version)
    /\ UNCHANGED <<clock, policy, process, session, exists>>

\* lock_timeout, statement_timeout, a lost connection: rolled back.
Abort(c) ==
    /\ call[c].pc # "idle"
    /\ End(c, "NONE", 0)
    /\ UNCHANGED <<clock, policy, process, session, exists, bound, request>>

Tick ==
    /\ clock < MaxClock
    /\ clock' = clock + 1
    /\ UNCHANGED <<policy, process, session, exists, bound, request, call>>

Next ==
    \/ \E p \in Processes : InitializePolicy(p)
    \/ \E p \in Processes : VerifyReady(p)
    \/ \E p \in Processes : Stop(p)
    \/ \E s \in SessionIds : TouchSession(s)
    \/ \E s \in SessionIds : EndSession(s)
    \/ \E a \in Applications : CreateApplication(a)
    \/ \E c \in Calls, s \in SessionIds, a \in Applications \cup {None},
          capability \in Operations : BeginAuthorize(c, s, a, capability)
    \/ \E c \in Calls, s \in SessionIds, a \in Applications, ask \in Requests :
          BeginReplace(c, s, a, ask)
    \/ \E c \in Calls, s \in SessionIds, a \in Applications : BeginPublish(c, s, a)
    \/ \E c \in Calls : AdvisoryLock(c)
    \/ \E c \in Calls : LockPolicy(c)
    \/ \E c \in Calls : LockSession(c)
    \/ \E c \in Calls : LockApplication(c)
    \/ \E c \in Calls : Authorize(c)
    \/ \E c \in Calls : Publish(c)
    \/ \E c \in Calls : Replace(c)
    \/ \E c \in Calls : Abort(c)
    \/ Tick

Spec == Init /\ [][Next]_vars
-----------------------------------------------------------------------------
\* Type invariant; versions and requests are those of applications that exist
\* (v2_binding_requests' foreign key).
AuthorizationTypeOK ==
    /\ clock \in 1..MaxClock
    /\ policy \in Configurations \cup {{}}
    /\ process \in [Processes -> {"down", "initialized", "ready"}]
    /\ session \in [SessionIds ->
          [state : {"unborn", "live", "ended"}, expires : Nat]]
    /\ exists \subseteq Applications
    /\ bound \in [Applications ->
          [version : 1..MaxVersion, bindings : Desired]]
    /\ request \in [Applications \X Actors \X Keys ->
          [outcome : {"NONE", "APPLIED", "VERSION_CONFLICT"},
           expected : 0..MaxVersion, desired : Desired,
           version : 0..MaxVersion]]
    /\ call \in [Calls -> Call]
    /\ \A a \in Applications \ exists :
          /\ bound[a].version = 1
          /\ \A k \in Actors \X Keys : request[<<a, k[1], k[2]>>] = Unasked

\* Processes of a deployment that were configured with different
\* administrator groups do not serve side by side: verifyReady lets a process
\* serve only under the policy that was provisioned first.
OneConfigurationServes ==
    \A p \in Processes :
        process[p] = "ready" => Configuration[p] = policy

\* v2_authorize_operation reads the binding version with the application's
\* row and the bindings after it, v2_replace_bindings compares the version it
\* read then: no replacement comes in between, so the role, the version that
\* is answered and the version that is replaced are of one set of bindings.
VersionReadIsCurrent ==
    \A c \in Calls : call[c].pc \in {"decide", "upgrade"} /\ Found(c) =>
        call[c].version = bound[call[c].app].version

\* A publication is requested only while its session still lives (but for
\* the time it waited for locks) and the bindings still allow it: neither a
\* logout nor a replacement of the bindings comes between v2_authorize_operation
\* and the update of the application, all of it one transaction.
PublishedUnderAuthority ==
    \A c \in Calls : call[c].pc = "upgrade" =>
        /\ session[call[c].session].state = "live"
        /\ call[c].observed < session[call[c].session].expires
        /\ Allows("PUBLISH", call[c].app \in exists, Role(c))

\* What a decision was made on still holds when it is acted on: the policy, the set
\* of bindings and the session.
DecisionsHold ==
    /\ AuthorizationTypeOK
    /\ OneConfigurationServes
    /\ VersionReadIsCurrent
    /\ PublishedUnderAuthority

\* Nobody holds a lock that keeps c from the one it waits for.
CanProceed(c) ==
    CASE call[c].pc = "advisory" ->
           \A d \in Calls \ {c} : ~HoldsAdvisory(d, call[c].app)
      [] call[c].pc = "application" ->
           call[c].app \in exists => Grantable(c, call[c].app)
      [] call[c].pc = "upgrade" ->
           \A d \in Calls \ {c} : ~HoldsApplication(d, call[c].app)
      [] call[c].pc \in {"begin", "session", "decide"} -> TRUE
      [] call[c].pc = "idle" -> FALSE

\* "This ... lock avoids concurrent SHARE-to-UPDATE upgrade deadlocks" (08.ts):
\* whenever calls are in progress, one of them has the locks it waits for.
NoDeadlock ==
    (\E c \in Calls : call[c].pc # "idle") => \E c \in Calls : CanProceed(c)

\* "Every write authorizes before idempotency side effects" (technical design):
\* the outcome of an earlier request is given again only to an actor who may
\* replace the bindings as they are now.
AuthorizesBeforeReplay ==
    [][\A c \in Calls :
          call[c].pc = "decide" /\ call'[c].answer \in {"APPLIED", "VERSION_CONFLICT"}
            => MayReplace(Role(c))]_vars

\* A replacement that is answered is the one recorded under its key, whoever
\* else replaced bindings in the meantime and however often it is sent.
AnswersAgree ==
    [][\A c \in Calls :
          call[c].kind = "replace" /\ call'[c].answer \in {"APPLIED", "VERSION_CONFLICT"}
            => request'[RequestKey(c)] =
                 [outcome |-> call'[c].answer, version |-> call'[c].version,
                  expected |-> call[c].ask.expected,
                  desired |-> call[c].ask.desired]]_vars

\* A request that is repeated is answered as before, and only to who still may ask.
RepeatsAreAnswered == AuthorizesBeforeReplay /\ AnswersAgree

Register ==
    INSTANCE BindingRegister WITH GroupSets <- {GroupsOf[s] : s \in SessionIds}

\* The calls together keep the promise of BindingRegister: every replacement
\* is atomic, authorized by the set it replaces, and happens once.
ImplementsRegister == Register!BSpec
=============================================================================
