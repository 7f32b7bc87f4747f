------------------------------ MODULE Sessions ------------------------------
(***************************************************************************)
(* Server-side sessions: the control processes (V2Sessions.ts behind       *)
(* v2SessionRouter.ts) over the session API of the database (migrations    *)
(* 06 and 07).  One browser keeps the cookie jar; its requests run in      *)
(* Calls, each at one process, and every database function is one step,    *)
(* since it locks the one row it decides on before it reads the clock.     *)
(*                                                                         *)
(* Abstracted: an envelope is the id of its key; that a state or a CSRF    *)
(* token is not the one that goes with the cookie is chosen where it is    *)
(* compared.  Identifiers are UUIDs, so none is used twice: they are       *)
(* numbered in the order they are drawn.                                   *)
(***************************************************************************)
EXTENDS Naturals, FiniteSets

CONSTANTS
    Processes,      \* control processes
    Calls,          \* requests that may be in progress at once
    MaxSessions,    \* bound: sessions ever created
    MaxLogins,      \* bound: login transactions ever begun
    MaxClock,       \* bound: the clock stops there
    Phases,         \* configurations a rollout goes through: 1..Phases
    Ring,           \* Ring[n]: envelope keys configuration n accepts
    Primary,        \* Primary[n]: the key it encrypts with
    Idle,           \* Idle[n]: its idle lifetime
    Absolute,       \* absolute lifetime of a session
    LoginLifetime,  \* lifetime of a login transaction
    Retention       \* how long cleanup keeps ended rows

SessionIds == 1..MaxSessions
Logins == 1..MaxLogins
None == 0           \* no session, no login
Keys == UNION {Ring[n] : n \in 1..Phases}

ASSUME SessionsAssumption ==
    /\ {MaxSessions, MaxLogins, Retention} \subseteq Nat
    /\ {MaxClock, Phases, Absolute, LoginLifetime} \subseteq Nat \ {0}
    /\ Primary \in [1..Phases -> Keys]
    /\ \A n \in 1..Phases : Primary[n] \in Ring[n]
    /\ Idle \in [1..Phases -> 1..Absolute]

VARIABLES
    clock,      \* the database's clock
    phase,      \* [Processes -> configuration it runs]
    session,    \* rows of v2_sessions, with those not yet made or deleted
    login,      \* rows of v2_oidc_login_transactions, likewise
    jar,        \* the browser's cookies: its session and its login
    call        \* requests in progress, and how the last one ended

vars == <<clock, phase, session, login, jar, call>>
-----------------------------------------------------------------------------
NoReason == "NONE"
\* v2_create_or_replace_session writes the first, v2_revoke_session the others
\* and an audit event with them.
Audited == {"USER_LOGOUT", "TOKEN_KEY_REVOKED"}
EndReasons == {"SESSION_ROTATED"} \cup Audited

SessionRow ==
    [stored : {"unborn", "row", "deleted"}, login : Nat, parent : Nat,
     idle : Nat, absolute : Nat,
     reason : {NoReason} \cup EndReasons, ended : Nat,
     key : Keys, audits : Nat]

LoginRow ==
    [stored : {"unborn", "row", "deleted"}, expires : Nat, consumed : BOOLEAN]

Requests == {"read", "change", "logout"}

\* sid: the session cookie sent (for a callback the session it will
\* replace); lid: the login cookie; key: the key id of the row that
\* v2_use_session returned.
Call ==
    [pc : {"inspect", "consume", "create", "use", "rotate", "keyLost",
           "revoke", "idle"},
     kind : {"callback", "request", "logout"},
     at : Processes \cup {None}, sid : Nat, lid : Nat, key : Keys]

Born(s) == s \in SessionIds /\ session[s].stored # "unborn"

\* v2_sessions: stored, neither revoked nor expired at the clock read.
Active(s) ==
    /\ s \in SessionIds
    /\ session[s].stored = "row"
    /\ session[s].reason = NoReason
    /\ clock < session[s].idle
    /\ clock < session[s].absolute

Min2(m, n) == IF m <= n THEN m ELSE n
RingAt(p) == Ring[phase[p]]
PrimaryAt(p) == Primary[phase[p]]
IdleAt(p) == Idle[phase[p]]

Step(c, pc) == call' = [call EXCEPT ![c].pc = pc]

NoCall ==
    [pc |-> "idle", kind |-> "request", at |-> None,
     sid |-> None, lid |-> None, key |-> Primary[1]]

\* The answer is the last thing a request does; the browser may never get
\* it, so the jar changes or does not.
Answer(c, newJar) ==
    /\ call' = [call EXCEPT ![c] = NoCall]
    /\ jar' \in {jar, newJar}

\* reject(response, 401, sessions.clearSessionCookie).
Refuse(c) == Answer(c, [jar EXCEPT !.session = None])
\* The callback's redirect(), which clears the login cookie alone.
Redirect(c) == Answer(c, [jar EXCEPT !.login = None])
-----------------------------------------------------------------------------
Init ==
    /\ clock = 1
    /\ phase = [p \in Processes |-> 1]
    /\ session = [s \in SessionIds |->
          [stored |-> "unborn", login |-> None, parent |-> None,
           idle |-> 0, absolute |-> 0, reason |-> NoReason, ended |-> 0,
           key |-> Primary[1], audits |-> 0]]
    /\ login = [l \in Logins |->
          [stored |-> "unborn", expires |-> 0, consumed |-> FALSE]]
    /\ jar = [session |-> None, login |-> None]
    /\ call = [c \in Calls |-> NoCall]

\* GET /login: v2_begin_oidc_login.  Admission and provider discovery come
\* before and after it (module SignIn); where they fail nobody holds the
\* cookie of the login, which then only waits for cleanup.
BeginLogin(l) ==
    /\ login[l].stored = "unborn"
    /\ \A m \in Logins : m < l => login[m].stored # "unborn"
    /\ login' = [login EXCEPT ![l] =
          [stored |-> "row", expires |-> clock + LoginLifetime,
           consumed |-> FALSE]]
    /\ jar' = [jar EXCEPT !.login = l]
    /\ UNCHANGED <<clock, phase, session, call>>

\* GET /callback.
SendCallback(c, p) ==
    /\ call[c].pc = "idle"
    /\ jar.login # None
    /\ call' = [call EXCEPT ![c] =
          [pc |-> "inspect", kind |-> "callback", at |-> p,
           sid |-> jar.session, lid |-> jar.login,
           key |-> Primary[1]]]
    /\ UNCHANGED <<clock, phase, session, login, jar>>

\* A request that reads goes straight to authenticate(); one that changes
\* something, logout included, is inspected first.
SendRequest(c, p, kind) ==
    /\ call[c].pc = "idle"
    /\ jar.session # None
    /\ call' = [call EXCEPT ![c] =
          [pc |-> IF kind = "read" THEN "use" ELSE "inspect",
           kind |-> IF kind = "logout" THEN "logout" ELSE "request",
           at |-> p, sid |-> jar.session, lid |-> None,
           key |-> Primary[1]]]
    /\ UNCHANGED <<clock, phase, session, login, jar>>

\* decrypt: process p has the key of the envelope.
Opens(p, key) == key \in RingAt(p)

\* v2_read_session and decryptSession(row, false): nothing is written, and a
\* key this process does not know counts as no session.
Readable(c) ==
    /\ Active(call[c].sid)
    /\ Opens(call[c].at, session[call[c].sid].key)

InspectCallback(c) ==
    /\ call[c].pc = "inspect"
    /\ call[c].kind = "callback"
    /\ call' = [call EXCEPT ![c].pc = "consume",
                            ![c].sid = IF Readable(c) THEN @ ELSE None]
    /\ UNCHANGED <<clock, phase, session, login, jar>>

\* validateMutation: the synchronizer token must be this session's; the
\* page may have been loaded under an earlier one.
InspectRequest(c, token) ==
    /\ call[c].pc = "inspect"
    /\ call[c].kind # "callback"
    /\ IF Readable(c) /\ token
       THEN Step(c, "use") /\ UNCHANGED jar
       ELSE Refuse(c)
    /\ UNCHANGED <<clock, phase, session, login>>

\* v2_consume_oidc_login, once for ever.  The callback's state may be that of
\* an earlier login, and it may carry an error instead of a code
\* (consumeFailedLogin).
Consumable(l) ==
    /\ login[l].stored = "row"
    /\ ~login[l].consumed
    /\ clock < login[l].expires

Consume(c, ownState, failed) ==
    /\ call[c].pc = "consume"
    /\ IF ownState /\ Consumable(call[c].lid)
       THEN /\ login' = [login EXCEPT ![call[c].lid].consumed = TRUE]
            /\ IF failed THEN Redirect(c)
                         ELSE Step(c, "create") /\ UNCHANGED jar
       ELSE Redirect(c) /\ UNCHANGED login
    /\ UNCHANGED <<clock, phase, session>>

\* The verifier cannot be decrypted, the provider refuses the code, or the
\* ID token does not verify: the login is spent and there is no session.
LoginFails(c) ==
    /\ call[c].pc = "create"
    /\ Redirect(c)
    /\ UNCHANGED <<clock, phase, session, login>>

\* Mutated form: that the session was alive when it was inspected is enough.
MayReplaceStored(s) == s # None => session[s].stored = "row"

\* v2_create_or_replace_session: the session it replaces must still be
\* active under its lock, and ends in the transaction that makes the new one.
MayReplace(s) == s # None => Active(s)

NewSession(c) ==
    [stored |-> "row", login |-> call[c].lid, parent |-> call[c].sid,
     idle |-> clock + IdleAt(call[c].at), absolute |-> clock + Absolute,
     reason |-> NoReason, ended |-> 0,
     key |-> PrimaryAt(call[c].at), audits |-> 0]

\* Nothing reads the bounds or the envelope of an ended session again.
Ended(row, reason) ==
    [row EXCEPT !.reason = reason, !.ended = clock,
                !.idle = 0, !.absolute = 0, !.key = Primary[1],
                !.audits = IF reason \in Audited THEN @ + 1 ELSE @]

CreateSession(c, s) ==
    /\ call[c].pc = "create"
    /\ session[s].stored = "unborn"
    /\ \A t \in SessionIds : t < s => session[t].stored # "unborn"
    /\ IF MayReplace(call[c].sid)
       THEN /\ session' = [t \in SessionIds |->
                    IF t = s THEN NewSession(c)
                    ELSE IF t = call[c].sid
                         THEN Ended(session[t], "SESSION_ROTATED")
                         ELSE session[t]]
            /\ Answer(c, [jar EXCEPT !.session = s, !.login = None])
       ELSE Redirect(c) /\ UNCHANGED session
    /\ UNCHANGED <<clock, phase, login>>

\* Where an accepted request ends; logout still has its session to revoke.
Accept(c) ==
    IF call[c].kind = "logout"
    THEN Step(c, "revoke") /\ UNCHANGED jar
    ELSE Answer(c, jar)

\* v2_use_session.  The new idle bound may not be earlier than the one the
\* row has: v2_guard_session then raises and the request is refused.
Refreshed(s, p) == Min2(session[s].absolute, clock + IdleAt(p))

\* Mutated form: the guard wants the idle bound to advance.
UsableAdvancing(s, p) == Active(s) /\ session[s].idle < Refreshed(s, p)

Usable(s, p) == Active(s) /\ session[s].idle <= Refreshed(s, p)

UseSession(c) ==
    LET s == call[c].sid
        p == call[c].at
    IN  /\ call[c].pc = "use"
        /\ IF Usable(s, p)
           THEN /\ session' = [session EXCEPT ![s].idle = Refreshed(s, p)]
                /\ IF session[s].key = PrimaryAt(p)
                   THEN Accept(c)
                   ELSE /\ call' = [call EXCEPT ![c].key = session[s].key,
                              ![c].pc = IF Opens(p, session[s].key)
                                        THEN "rotate" ELSE "keyLost"]
                        /\ UNCHANGED jar
           ELSE Refuse(c) /\ UNCHANGED session
        /\ UNCHANGED <<clock, phase, login>>

\* v2_rotate_session_envelope: only the envelope that was read is replaced;
\* decryptSession does not look at what the function returns.
RotateEnvelope(c) ==
    LET s == call[c].sid IN
    /\ call[c].pc = "rotate"
    /\ session' = IF Active(s) /\ session[s].key = call[c].key
                  THEN [session EXCEPT ![s].key = PrimaryAt(call[c].at)]
                  ELSE session
    /\ Accept(c)
    /\ UNCHANGED <<clock, phase, login>>

\* Mutated form: the update does not look at revoked_at.
RevokeAgain(s, reason) ==
    session' = [session EXCEPT ![s] =
        IF @.stored = "row" THEN Ended(@, reason) ELSE @]

\* v2_revoke_session ends an active session and audits that it did.
Revoke(s, reason) ==
    session' = IF Active(s)
               THEN [session EXCEPT ![s] = Ended(@, reason)]
               ELSE session

RevokeLostKey(c) ==
    /\ call[c].pc = "keyLost"
    /\ Revoke(call[c].sid, "TOKEN_KEY_REVOKED")
    /\ Refuse(c)
    /\ UNCHANGED <<clock, phase, login>>

Logout(c) ==
    /\ call[c].pc = "revoke"
    /\ Revoke(call[c].sid, "USER_LOGOUT")
    /\ Answer(c, [jar EXCEPT !.session = None])
    /\ UNCHANGED <<clock, phase, login>>

\* v2_cleanup_auth_state, from the timer of every process: a batch is any
\* number of these.
CleanSession(s) ==
    /\ session[s].stored = "row"
    /\ IF session[s].reason # NoReason
       THEN session[s].ended + Retention <= clock
       ELSE session[s].idle + Retention <= clock
    /\ session' = [session EXCEPT ![s] =
          [@ EXCEPT !.stored = "deleted", !.idle = 0, !.absolute = 0,
                    !.ended = 0, !.key = Primary[1]]]
    /\ UNCHANGED <<clock, phase, login, jar, call>>

CleanLogin(l) ==
    /\ login[l].stored = "row"
    /\ login[l].expires + Retention <= clock
    /\ login' = [login EXCEPT ![l] =
          [stored |-> "deleted", expires |-> 0, consumed |-> FALSE]]
    /\ UNCHANGED <<clock, phase, session, jar, call>>

\* A process restarts, with its own configuration or the next one of a
\* rolling deployment: no process is ever two configurations ahead of
\* another.  Its requests die with it.
Restart(p, n) ==
    /\ n \in {phase[p], phase[p] + 1} \cap (1..Phases)
    /\ \A q \in Processes : n <= phase[q] + 1
    /\ phase' = [phase EXCEPT ![p] = n]
    /\ call' = [c \in Calls |->
          IF call[c].at = p THEN NoCall ELSE call[c]]
    /\ UNCHANGED <<clock, session, login, jar>>

Tick ==
    /\ clock < MaxClock
    /\ clock' = clock + 1
    /\ UNCHANGED <<phase, session, login, jar, call>>

Next ==
    \/ \E l \in Logins : BeginLogin(l)
    \/ \E c \in Calls, p \in Processes : SendCallback(c, p)
    \/ \E c \in Calls, p \in Processes, kind \in Requests :
          SendRequest(c, p, kind)
    \/ \E c \in Calls : InspectCallback(c)
    \/ \E c \in Calls, token \in BOOLEAN : InspectRequest(c, token)
    \/ \E c \in Calls, ownState, failed \in BOOLEAN :
          Consume(c, ownState, failed)
    \/ \E c \in Calls : LoginFails(c)
    \/ \E c \in Calls, s \in SessionIds : CreateSession(c, s)
    \/ \E c \in Calls : UseSession(c)
    \/ \E c \in Calls : RotateEnvelope(c)
    \/ \E c \in Calls : RevokeLostKey(c)
    \/ \E c \in Calls : Logout(c)
    \/ \E s \in SessionIds : CleanSession(s)
    \/ \E l \in Logins : CleanLogin(l)
    \/ \E p \in Processes, n \in 1..Phases : Restart(p, n)
    \/ Tick

Spec == Init /\ [][Next]_vars
-----------------------------------------------------------------------------
\* Type invariant: rows, requests and cookies keep their shape, and no
\* session outlives its absolute bound (v2_sessions' checks on the bounds).
SessionTypeOK ==
    /\ clock \in 1..MaxClock
    /\ phase \in [Processes -> 1..Phases]
    /\ session \in [SessionIds -> SessionRow]
    /\ login \in [Logins -> LoginRow]
    /\ jar \in [session : {None} \cup SessionIds, login : {None} \cup Logins]
    /\ call \in [Calls -> Call]
    /\ \A s \in SessionIds : session[s].idle <= session[s].absolute

\* However often a callback is delivered, and to whichever processes, one
\* login makes at most one session: v2_consume_oidc_login spends the login
\* before the code is exchanged, and no failure after it gives it back.
OneSessionPerLogin ==
    \A s, t \in SessionIds :
        Born(s) /\ Born(t) /\ session[s].login = session[t].login => s = t

\* Two callbacks that both saw session s alive do not both replace it, and
\* neither replaces one that a logout ended in between: a session has one
\* successor at most, and has one only if SESSION_ROTATED is how it ended and
\* no other end of it was audited.
RotationIsExclusive ==
    \A s \in SessionIds : Born(s) /\ session[s].parent # None =>
        /\ Born(session[s].parent)
        /\ session[session[s].parent].reason = "SESSION_ROTATED"
        /\ session[session[s].parent].audits = 0
        /\ \A t \in SessionIds :
              Born(t) /\ session[t].parent = session[s].parent => s = t

\* v2_revoke_session audits an end in the transaction that makes it, and of
\* two concurrent ones (a logout, a second logout, a lost key) only the first
\* ends anything: one event for each session ended that way, none otherwise.
EndsAuditedOnce ==
    \A s \in SessionIds :
        session[s].audits = IF session[s].reason \in Audited THEN 1 ELSE 0

\* Logins, sessions and events belong to each other one to one.
SessionsInv ==
    /\ SessionTypeOK
    /\ OneSessionPerLogin
    /\ RotationIsExclusive
    /\ EndsAuditedOnce

\* One configuration up to n does not accept the key another one encrypts with.
RejectedAt(n) == \E k, m \in 1..n : Primary[m] \notin Ring[k]

\* While every configuration deployed so far accepts what the others encrypt, a
\* rollout of new keys costs nobody a session: two processes with different
\* primaries only rotate its envelope to and fro.
SafeRolloutKeepsSessions ==
    (\E s \in SessionIds : session[s].reason = "TOKEN_KEY_REVOKED")
        => \E p \in Processes : RejectedAt(phase[p])

\* v2_guard_session lets no idle bound move back, so a process with a shorter
\* idle lifetime than the one a live session was last used under has its
\* v2_use_session refused, and answers 401.  That is the only way a live
\* session is refused by v2_use_session.
OnlyShorterLifetimeRefuses ==
    \A s \in SessionIds, p \in Processes :
        Active(s) /\ ~Usable(s, p)
            => \E n \in 1..Phases, q \in Processes :
                  n <= phase[q] /\ Idle[n] > IdleAt(p)

\* A rollout costs a session its life only by a key that is not accepted, and
\* its use only by a shorter lifetime.
RolloutCostsNoSession == SafeRolloutKeepsSessions /\ OnlyShorterLifetimeRefuses

\* An ended session stays ended: no use, envelope rotation or second end
\* revives it, extends it or rewrites how it ended, whatever the requests in
\* progress read before it did.
EndIsFinal ==
    [][\A s \in SessionIds : Born(s) /\ ~Active(s) =>
          /\ ~Active(s)'
          /\ session'[s].reason = session[s].reason
          /\ session'[s].idle <= session[s].idle]_vars
=============================================================================
