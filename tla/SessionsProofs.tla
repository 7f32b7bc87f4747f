---------------------------- MODULE SessionsProofs ----------------------------
(***************************************************************************)
(* Theorems of Sessions, for every number of processes, requests, sessions *)
(* and logins, every rollout of configurations and every lifetime: logins, *)
(* sessions and audit events belong to each other one to one, an ended     *)
(* session stays ended, and a rollout costs a session nothing it should    *)
(* not.                                                                    *)
(***************************************************************************)
EXTENDS Sessions, TLAPS

(***************************************************************************)
(* The inductive invariant.  A callback that may create a session holds a  *)
(* login that was spent for it alone; the key and the idle bound of a      *)
(* stored session come from a configuration that some process has reached. *)
(***************************************************************************)

\* The login was consumed, and perhaps cleaned up since.
Spent(l) ==
    \/ login[l].stored = "deleted"
    \/ login[l].stored = "row" /\ login[l].consumed

CallInOrder(c) ==
    call[c].pc # "idle" =>
        /\ call[c].at \in Processes
        /\ call[c].kind = "callback" => call[c].lid \in Logins
        /\ call[c].pc \in {"consume", "create"} => call[c].kind = "callback"
        /\ call[c].pc = "create" =>
              /\ Spent(call[c].lid)
              /\ \A s \in SessionIds : Born(s) => session[s].login # call[c].lid
        /\ call[c].pc = "keyLost" => \E p \in Processes : RejectedAt(phase[p])

CallsInOrder == \A c \in Calls : CallInOrder(c)

\* No two callbacks were given the same login.
CreatesDiffer ==
    \A c, d \in Calls :
        /\ call[c].pc = "create" /\ call[d].pc = "create"
        /\ call[c].lid = call[d].lid
        => c = d

\* Configuration n is, or was, that of some process.
Deployed(n) == \E q \in Processes : n <= phase[q]

SessionInOrder(s) ==
    /\ Born(s) => session[s].login \in Logins /\ Spent(session[s].login)
    /\ session[s].stored = "row" =>
          /\ \E n \in 1..Phases : Deployed(n) /\ session[s].idle <= clock + Idle[n]
          /\ \E n \in 1..Phases : Deployed(n) /\ session[s].key = Primary[n]

SessionsIndInv ==
    /\ SessionsInv
    /\ CallsInOrder
    /\ CreatesDiffer
    /\ \A s \in SessionIds : SessionInOrder(s)
    /\ SafeRolloutKeepsSessions

-----------------------------------------------------------------------------
(***************************************************************************)
(* What a step that creates no session does to a row, as far as the        *)
(* invariant can tell, and to a request.                                   *)
(***************************************************************************)
RowMoves(s) ==
    /\ session'[s] \in SessionRow
    /\ session'[s].idle <= session'[s].absolute
    /\ session'[s].login = session[s].login
    /\ session'[s].parent = session[s].parent
    /\ \/ session'[s].stored = session[s].stored
       \/ session[s].stored = "row" /\ session'[s].stored = "deleted"
    /\ \/ session'[s].reason = session[s].reason /\ session'[s].audits = session[s].audits
       \/ /\ Active(s) /\ session'[s].reason \in Audited
          /\ session'[s].audits = session[s].audits + 1
          /\ session'[s].reason = "TOKEN_KEY_REVOKED" =>
                \E p \in Processes : RejectedAt(phase[p])
    /\ session'[s].stored = "row" =>
          /\ \/ session'[s].idle <= session[s].idle
             \/ \E n \in 1..Phases : Deployed(n) /\ session'[s].idle <= clock + Idle[n]
          /\ \/ session'[s].key = session[s].key
             \/ \E n \in 1..Phases : Deployed(n) /\ session'[s].key = Primary[n]
    /\ ~Active(s) =>
          /\ session'[s].reason = session[s].reason
          /\ session'[s].idle <= session[s].idle
          /\ session'[s].absolute <= session[s].absolute

\* The step of EndIsFinal.
EndedStay ==
    \A s \in SessionIds : Born(s) /\ ~Active(s) =>
        /\ ~Active(s)'
        /\ session'[s].reason = session[s].reason
        /\ session'[s].idle <= session[s].idle

CallMoves(c) ==
    \/ call'[c] = call[c]
    \/ call'[c] = NoCall
    \/ /\ CallInOrder(c)'
       /\ call'[c].pc = "create" =>
             \A d \in Calls \ {c} :
                 call'[d].pc = "create" => call'[d].lid # call'[c].lid

\* What every step does to the rest.
Grows ==
    /\ clock \in Nat /\ clock' \in Nat /\ clock <= clock'
    /\ \A p \in Processes :
          phase[p] \in Nat /\ phase'[p] \in Nat /\ phase[p] <= phase'[p]
    /\ \A l \in Logins : Spent(l) => Spent(l)'

LEMMA ConfigurationTypes ==
    /\ Phases \in Nat /\ 1 \in 1..Phases
    /\ Absolute \in Nat /\ LoginLifetime \in Nat /\ Retention \in Nat /\ MaxClock \in Nat
    /\ \A n \in 1..Phases : Idle[n] \in Nat /\ Idle[n] <= Absolute
    /\ \A n \in 1..Phases : Primary[n] \in Keys /\ Primary[n] \in Ring[n]
<1>1. /\ Phases \in Nat \ {0} /\ Absolute \in Nat /\ LoginLifetime \in Nat
      /\ Retention \in Nat /\ MaxClock \in Nat \ {0}
    BY SessionsAssumption
<1>2. \A n \in 1..Phases : Idle[n] \in 1..Absolute
    BY SessionsAssumption
<1>3. \A n \in 1..Phases : Primary[n] \in Keys /\ Primary[n] \in Ring[n]
    BY SessionsAssumption
<1> QED
    BY <1>1, <1>2, <1>3

\* What was deployed stays so, and so does what was rejected.
LEMMA RolloutGrows ==
    ASSUME Grows
    PROVE  /\ \A n \in 1..Phases : Deployed(n) => Deployed(n)'
           /\ (\E p \in Processes : RejectedAt(phase[p]))
                 => \E p \in Processes : RejectedAt(phase'[p])
<1>1. \A n \in 1..Phases : Deployed(n) => Deployed(n)'
    BY ConfigurationTypes DEF Grows, Deployed
<1>2. ASSUME NEW p \in Processes, RejectedAt(phase[p])
      PROVE  RejectedAt(phase'[p])
    BY <1>2 DEF Grows, RejectedAt
<1> QED
    BY <1>1, <1>2

LEMMA NoCallIsCall == NoCall \in Call /\ NoCall.pc = "idle"
BY ConfigurationTypes DEF NoCall, Call, None

LEMMA TypesOf ==
    ASSUME SessionsIndInv
    PROVE  /\ clock \in 1..MaxClock /\ clock \in Nat
           /\ phase \in [Processes -> 1..Phases]
           /\ session \in [SessionIds -> SessionRow]
           /\ login \in [Logins -> LoginRow]
           /\ jar \in [session : {None} \cup SessionIds, login : {None} \cup Logins]
           /\ call \in [Calls -> Call]
           /\ \A s \in SessionIds : session[s].idle <= session[s].absolute
BY DEF SessionsIndInv, SessionsInv, SessionTypeOK

LEMMA CallsMove ==
    ASSUME SessionsIndInv, Grows, \A s \in SessionIds : RowMoves(s),
           \A c \in Calls : CallMoves(c)
    PROVE  CallsInOrder' /\ CreatesDiffer'
<1>1. \A s \in SessionIds : Born(s)' => Born(s) /\ session'[s].login = session[s].login
    BY DEF Born, RowMoves
<1>2. ASSUME NEW c \in Calls PROVE CallInOrder(c)'
    <2>1. CASE call'[c] = call[c]
        <3>1. CallInOrder(c)
            BY DEF SessionsIndInv, CallsInOrder
        <3> SUFFICES ASSUME call[c].pc # "idle" PROVE CallInOrder(c)'
            BY <2>1 DEF CallInOrder
        <3>2. call[c].pc = "create" => call[c].lid \in Logins /\ Spent(call[c].lid)
            BY <3>1 DEF CallInOrder
        <3>3. PICK l : l = call[c].lid /\ l = call'[c].lid
            BY <2>1
        <3>4. call[c].pc = "create" => Spent(l)'
            BY <3>2, <3>3 DEF Grows
        <3>5. call[c].pc = "create" =>
                  \A s \in SessionIds : Born(s)' => session'[s].login # l
            BY <1>1, <3>1, <3>3 DEF CallInOrder
        <3>6. call[c].pc = "keyLost" => \E p \in Processes : RejectedAt(phase'[p])
            BY <3>1, RolloutGrows DEF CallInOrder
        <3> QED
            BY <2>1, <3>1, <3>3, <3>4, <3>5, <3>6 DEF CallInOrder, Spent
    <2>2. CASE call'[c] = NoCall
        BY <2>2, NoCallIsCall DEF CallInOrder
    <2> QED
        BY <2>1, <2>2 DEF CallMoves
<1>3. ASSUME NEW c \in Calls, NEW d \in Calls, c # d,
             call'[c].pc = "create", call'[d].pc = "create", call'[c].lid = call'[d].lid
      PROVE  FALSE
    <2>1. call'[c] = call[c] /\ call'[d] = call[d]
        BY <1>3, NoCallIsCall DEF CallMoves
    <2> QED
        BY <1>3, <2>1 DEF SessionsIndInv, CreatesDiffer
<1> QED
    BY <1>2, <1>3 DEF CallsInOrder, CreatesDiffer

\* Rows that move like this leave the sessions in order, and the ended ones ended.
LEMMA RowsMove ==
    ASSUME SessionsIndInv, Grows, \A s \in SessionIds : RowMoves(s)
    PROVE  /\ OneSessionPerLogin' /\ RotationIsExclusive' /\ EndsAuditedOnce'
           /\ \A s \in SessionIds : SessionInOrder(s)'
           /\ SafeRolloutKeepsSessions'
           /\ EndedStay
<1>1. \A s \in SessionIds :
          /\ Born(s)' <=> Born(s)
          /\ session'[s].login = session[s].login
          /\ session'[s].parent = session[s].parent
          /\ ~Active(s) => session'[s].reason = session[s].reason
    BY DEF RowMoves, Born
<1>2. \A s \in SessionIds :
          session[s].audits = IF session[s].reason \in Audited THEN 1 ELSE 0
    BY DEF SessionsIndInv, SessionsInv, EndsAuditedOnce
<1>3. OneSessionPerLogin'
    BY <1>1 DEF OneSessionPerLogin, SessionsIndInv, SessionsInv
<1>4. EndsAuditedOnce'
    <2> SUFFICES ASSUME NEW s \in SessionIds
                 PROVE  session'[s].audits = IF session'[s].reason \in Audited THEN 1 ELSE 0
        BY DEF EndsAuditedOnce
    <2>1. CASE session'[s].reason = session[s].reason /\ session'[s].audits = session[s].audits
        BY <1>2, <2>1
    <2>2. CASE /\ Active(s) /\ session'[s].reason \in Audited
               /\ session'[s].audits = session[s].audits + 1
        <3>1. session[s].audits = 0
            BY <1>2, <2>2 DEF Active, Audited, NoReason
        <3> QED
            BY <2>2, <3>1
    <2> QED
        BY <2>1, <2>2 DEF RowMoves
<1>5. RotationIsExclusive'
    <2> SUFFICES ASSUME NEW s \in SessionIds, NEW t, Born(s)', session'[s].parent = t,
                        t # None
                 PROVE  /\ Born(t)' /\ session'[t].reason = "SESSION_ROTATED"
                        /\ session'[t].audits = 0
                        /\ \A u \in SessionIds :
                              Born(u)' /\ session'[u].parent = t => s = u
        BY DEF RotationIsExclusive, Born
    <2>1. session[s].parent = t
        BY <1>1
    <2>2. /\ Born(t) /\ session[t].reason = "SESSION_ROTATED" /\ session[t].audits = 0
          /\ \A u \in SessionIds : Born(u) /\ session[u].parent = t => s = u
        BY <1>1, <2>1 DEF SessionsIndInv, SessionsInv, RotationIsExclusive
    <2>3. t \in SessionIds /\ ~Active(t)
        BY <2>2 DEF Born, Active, NoReason
    <2>4. session'[t].reason = "SESSION_ROTATED" /\ session'[t].audits = 0 /\ Born(t)'
        BY <1>1, <1>4, <2>2, <2>3 DEF EndsAuditedOnce, Audited
    <2> QED
        BY <1>1, <2>1, <2>2, <2>4
<1>6. ASSUME NEW s \in SessionIds PROVE SessionInOrder(s)'
    <2>1. SessionInOrder(s) /\ RowMoves(s)
        BY DEF SessionsIndInv
    <2>2. Born(s)' => session'[s].login \in Logins /\ Spent(session[s].login)'
        <3>1. Born(s)' => session[s].login \in Logins /\ Spent(session[s].login)
            BY <1>1, <2>1 DEF SessionInOrder
        <3>2. PICK l : l = session[s].login
            OBVIOUS
        <3> QED
            BY <1>1, <3>1, <3>2 DEF Grows, Spent
    <2>3. ASSUME session'[s].stored = "row"
          PROVE  /\ \E n \in 1..Phases : Deployed(n)' /\ session'[s].idle <= clock' + Idle[n]
                 /\ \E n \in 1..Phases : Deployed(n)' /\ session'[s].key = Primary[n]
        <3>1. session[s].stored = "row"
            BY <2>1, <2>3 DEF RowMoves
        <3>2. session'[s].idle \in Nat /\ session[s].idle \in Nat
            BY <2>1, TypesOf DEF RowMoves, SessionRow
        <3>3. PICK n \in 1..Phases : Deployed(n) /\ session'[s].idle <= clock + Idle[n]
            <4>1. CASE session'[s].idle <= session[s].idle
                <5>1. PICK n \in 1..Phases : Deployed(n) /\ session[s].idle <= clock + Idle[n]
                    BY <2>1, <3>1 DEF SessionInOrder
                <5>2. session'[s].idle <= clock + Idle[n]
                    BY <3>2, <4>1, <5>1, ConfigurationTypes DEF Grows
                <5> QED
                    BY <5>1, <5>2
            <4> QED
                BY <2>1, <2>3, <4>1 DEF RowMoves
        <3>4. session'[s].idle <= clock' + Idle[n]
            BY <3>2, <3>3, ConfigurationTypes DEF Grows
        <3>5. \E m \in 1..Phases : Deployed(m) /\ session'[s].key = Primary[m]
            BY <2>1, <2>3, <3>1 DEF RowMoves, SessionInOrder
        <3> QED
            BY <3>3, <3>4, <3>5, RolloutGrows
    <2> QED
        BY <1>1, <2>2, <2>3 DEF SessionInOrder, Spent, Deployed
<1>7. SafeRolloutKeepsSessions'
    <2> SUFFICES ASSUME NEW s \in SessionIds, session'[s].reason = "TOKEN_KEY_REVOKED"
                 PROVE  \E p \in Processes : RejectedAt(phase'[p])
        BY DEF SafeRolloutKeepsSessions, RejectedAt
    <2>1. CASE session[s].reason = "TOKEN_KEY_REVOKED"
        BY <2>1, RolloutGrows DEF SessionsIndInv, SafeRolloutKeepsSessions
    <2>2. CASE session[s].reason # "TOKEN_KEY_REVOKED"
        BY <2>2, RolloutGrows DEF RowMoves
    <2> QED
        BY <2>1, <2>2
<1>8. EndedStay
    <2> SUFFICES ASSUME NEW s \in SessionIds, Born(s), ~Active(s)
                 PROVE  /\ ~Active(s)'
                        /\ session'[s].reason = session[s].reason
                        /\ session'[s].idle <= session[s].idle
        BY DEF EndedStay
    <2>1. /\ session'[s].reason = session[s].reason
          /\ session'[s].idle <= session[s].idle
          /\ session'[s].absolute <= session[s].absolute
          /\ session'[s].stored = "row" => session[s].stored = "row"
        BY DEF RowMoves
    <2>2. /\ session'[s].idle \in Nat /\ session[s].idle \in Nat
          /\ session'[s].absolute \in Nat /\ session[s].absolute \in Nat
        BY TypesOf DEF RowMoves, SessionRow
    <2>3. ~Active(s)'
        BY <2>1, <2>2 DEF Active, Grows
    <2> QED
        BY <2>1, <2>3
<1> QED
    BY <1>3, <1>4, <1>5, <1>6, <1>7, <1>8

LEMMA RowStays ==
    ASSUME SessionsIndInv, NEW s \in SessionIds, session'[s] = session[s]
    PROVE  RowMoves(s)
<1>1. session[s] \in SessionRow /\ session[s].idle <= session[s].absolute
    BY TypesOf
<1>2. session[s].idle \in Nat /\ session[s].absolute \in Nat
    BY <1>1 DEF SessionRow
<1>3. session[s].idle <= session[s].idle /\ session[s].absolute <= session[s].absolute
    BY <1>2
<1> QED
    BY <1>1, <1>3 DEF RowMoves

\* A step that creates no session.
LEMMA QuietStep ==
    ASSUME SessionsIndInv, Grows, clock' \in 1..MaxClock,
           phase' \in [Processes -> 1..Phases],
           login' \in [Logins -> LoginRow],
           jar' \in [session : {None} \cup SessionIds, login : {None} \cup Logins],
           call' \in [Calls -> Call],
           session' = [s \in SessionIds |-> session'[s]],
           \A s \in SessionIds : RowMoves(s), \A c \in Calls : CallMoves(c)
    PROVE  SessionsIndInv' /\ EndedStay
<1>1. session' \in [SessionIds -> SessionRow]
    BY DEF RowMoves
<1>2. SessionTypeOK'
    BY <1>1 DEF SessionTypeOK, RowMoves
<1> QED
    BY <1>2, CallsMove, RowsMove DEF SessionsIndInv, SessionsInv

\* Time stands still, and no process is restarted.
LEMMA NothingGrows ==
    ASSUME SessionsIndInv, UNCHANGED <<clock, phase>>,
           \A l \in Logins : Spent(l) => Spent(l)'
    PROVE  Grows /\ clock' \in 1..MaxClock /\ phase' \in [Processes -> 1..Phases]
<1>1. clock \in Nat /\ \A p \in Processes : phase[p] \in Nat
    BY TypesOf, ConfigurationTypes
<1>2. clock <= clock' /\ \A p \in Processes : phase[p] <= phase'[p]
    BY <1>1
<1> QED
    BY <1>1, <1>2, TypesOf DEF Grows

\* A step of one request that writes no session and no login.
LEMMA RequestStep ==
    ASSUME SessionsIndInv, UNCHANGED <<clock, phase, session, login>>,
           jar' \in [session : {None} \cup SessionIds, login : {None} \cup Logins],
           NEW c \in Calls, call' \in [Calls -> Call],
           \A d \in Calls \ {c} : call'[d] = call[d], CallMoves(c)
    PROVE  SessionsIndInv' /\ EndedStay
<1>1. \A l \in Logins : Spent(l) => Spent(l)'
    BY DEF Spent
<1>2. Grows /\ clock' \in 1..MaxClock /\ phase' \in [Processes -> 1..Phases]
    BY <1>1, NothingGrows
<1>3. \A s \in SessionIds : RowMoves(s)
    BY RowStays
<1>4. \A d \in Calls : CallMoves(d)
    BY DEF CallMoves
<1>5. session' = [s \in SessionIds |-> session'[s]]
    BY TypesOf
<1>6. login' \in [Logins -> LoginRow]
    BY TypesOf
<1> QED
    BY <1>2, <1>3, <1>4, <1>5, <1>6, QuietStep

\* The last thing a request does.
LEMMA AnswerMoves ==
    ASSUME SessionsIndInv, NEW c \in Calls,
           NEW newJar \in [session : {None} \cup SessionIds, login : {None} \cup Logins],
           Answer(c, newJar)
    PROVE  /\ jar' \in [session : {None} \cup SessionIds, login : {None} \cup Logins]
           /\ call' \in [Calls -> Call] /\ CallMoves(c)
           /\ \A d \in Calls \ {c} : call'[d] = call[d]
<1>1. call' = [call EXCEPT ![c] = NoCall] /\ jar' \in {jar, newJar}
    BY DEF Answer
<1>2. jar' \in [session : {None} \cup SessionIds, login : {None} \cup Logins]
    BY <1>1, TypesOf
<1> QED
    BY <1>1, <1>2, TypesOf, NoCallIsCall DEF CallMoves

LEMMA RefuseMoves ==
    ASSUME SessionsIndInv, NEW c \in Calls, Refuse(c) \/ Redirect(c)
    PROVE  /\ jar' \in [session : {None} \cup SessionIds, login : {None} \cup Logins]
           /\ call' \in [Calls -> Call] /\ CallMoves(c)
           /\ \A d \in Calls \ {c} : call'[d] = call[d]
<1>1. /\ [jar EXCEPT !.session = None] \in [session : {None} \cup SessionIds, login : {None} \cup Logins]
      /\ [jar EXCEPT !.login = None] \in [session : {None} \cup SessionIds, login : {None} \cup Logins]
    BY TypesOf
<1> QED
    BY <1>1, AnswerMoves DEF Refuse, Redirect

\* A request goes on, to a step at which nothing special is known of it.
LEMMA StepMoves ==
    ASSUME SessionsIndInv, NEW c \in Calls, Step(c, "use") \/ Step(c, "revoke"),
           call[c].pc # "idle"
    PROVE  /\ call' \in [Calls -> Call] /\ CallMoves(c)
           /\ \A d \in Calls \ {c} : call'[d] = call[d]
<1>1. PICK pc \in {"use", "revoke"} : Step(c, pc)
    OBVIOUS
<1> DEFINE new == [call[c] EXCEPT !.pc = pc]
<1>2. call[c] \in Call /\ call \in [Calls -> Call]
    BY TypesOf
<1>3. /\ new \in Call /\ new.pc = pc /\ new.at = call[c].at /\ new.kind = call[c].kind
      /\ new.lid = call[c].lid
    BY <1>2 DEF Call
<1>4. call' = [call EXCEPT ![c] = new]
    BY <1>1, <1>2 DEF Step
<1> HIDE DEF new
<1>5. /\ call' \in [Calls -> Call] /\ call'[c] = new
      /\ \A d \in Calls \ {c} : call'[d] = call[d]
    BY <1>2, <1>3, <1>4
<1>6. CallInOrder(c)
    BY DEF SessionsIndInv, CallsInOrder
<1>7. CallInOrder(c)'
    BY <1>1, <1>3, <1>5, <1>6 DEF CallInOrder
<1> QED
    BY <1>1, <1>3, <1>5, <1>7 DEF CallMoves

-----------------------------------------------------------------------------
(***************************************************************************)
(* The steps that write no session.                                        *)
(***************************************************************************)
LEMMA BeginLoginKeeps ==
    ASSUME SessionsIndInv, NEW l \in Logins, BeginLogin(l)
    PROVE  SessionsIndInv' /\ EndedStay
<1> DEFINE row == [stored |-> "row", expires |-> clock + LoginLifetime, consumed |-> FALSE]
<1>1. /\ login[l].stored = "unborn" /\ login' = [login EXCEPT ![l] = row]
      /\ jar' = [jar EXCEPT !.login = l] /\ UNCHANGED <<clock, phase, session, call>>
    BY DEF BeginLogin
<1>2. row \in LoginRow
    BY TypesOf, ConfigurationTypes DEF LoginRow
<1>3. login' \in [Logins -> LoginRow]
    BY <1>1, <1>2, TypesOf
<1>4. \A m \in Logins : Spent(m) => Spent(m)'
    BY <1>1, TypesOf DEF Spent
<1>5. jar' \in [session : {None} \cup SessionIds, login : {None} \cup Logins]
    BY <1>1, TypesOf
<1>6. Grows /\ clock' \in 1..MaxClock /\ phase' \in [Processes -> 1..Phases]
    BY <1>1, <1>4, NothingGrows
<1>7. /\ \A s \in SessionIds : RowMoves(s)
      /\ session' = [s \in SessionIds |-> session'[s]]
      /\ \A c \in Calls : CallMoves(c)
      /\ call' \in [Calls -> Call]
    BY <1>1, RowStays, TypesOf DEF CallMoves
<1> QED
    BY <1>3, <1>5, <1>6, <1>7, QuietStep

LEMMA CleanLoginKeeps ==
    ASSUME SessionsIndInv, NEW l \in Logins, CleanLogin(l)
    PROVE  SessionsIndInv' /\ EndedStay
<1> DEFINE row == [stored |-> "deleted", expires |-> 0, consumed |-> FALSE]
<1>1. /\ login' = [login EXCEPT ![l] = row] /\ jar' = jar
      /\ UNCHANGED <<clock, phase, session, call>>
    BY DEF CleanLogin
<1>2. row \in LoginRow
    BY DEF LoginRow
<1>3. login' \in [Logins -> LoginRow]
    BY <1>1, <1>2, TypesOf
<1>4. \A m \in Logins : Spent(m) => Spent(m)'
    BY <1>1, TypesOf DEF Spent
<1>5. Grows /\ clock' \in 1..MaxClock /\ phase' \in [Processes -> 1..Phases]
    BY <1>1, <1>4, NothingGrows
<1>6. /\ \A s \in SessionIds : RowMoves(s)
      /\ session' = [s \in SessionIds |-> session'[s]]
      /\ \A c \in Calls : CallMoves(c)
      /\ call' \in [Calls -> Call]
      /\ jar' \in [session : {None} \cup SessionIds, login : {None} \cup Logins]
    BY <1>1, RowStays, TypesOf DEF CallMoves
<1> QED
    BY <1>3, <1>5, <1>6, QuietStep

LEMMA SendKeeps ==
    ASSUME SessionsIndInv, NEW c \in Calls, NEW p \in Processes,
           SendCallback(c, p) \/ \E kind \in Requests : SendRequest(c, p, kind)
    PROVE  SessionsIndInv' /\ EndedStay
<1>1. /\ UNCHANGED <<clock, phase, session, login, jar>> /\ call \in [Calls -> Call]
      /\ jar \in [session : {None} \cup SessionIds, login : {None} \cup Logins]
    BY TypesOf DEF SendCallback, SendRequest
<1>2. PICK new \in Call :
          /\ call' = [call EXCEPT ![c] = new]
          /\ new.at = p /\ new.pc \in {"inspect", "use"}
          /\ new.kind = "callback" => new.lid \in Logins
    <2>1. CASE SendCallback(c, p)
        <3> DEFINE new == [pc |-> "inspect", kind |-> "callback", at |-> p,
                           sid |-> jar.session, lid |-> jar.login, key |-> Primary[1]]
        <3>1. call' = [call EXCEPT ![c] = new] /\ jar.login \in Logins
            BY <1>1, <2>1 DEF SendCallback
        <3>2. new \in Call
            BY <1>1, ConfigurationTypes DEF Call, SessionIds, Logins, None
        <3> QED
            BY <3>1, <3>2
    <2>2. CASE \E kind \in Requests : SendRequest(c, p, kind)
        <3>1. PICK kind \in Requests : SendRequest(c, p, kind)
            BY <2>2
        <3> DEFINE new == [pc |-> IF kind = "read" THEN "use" ELSE "inspect",
                           kind |-> IF kind = "logout" THEN "logout" ELSE "request",
                           at |-> p, sid |-> jar.session, lid |-> None, key |-> Primary[1]]
        <3>2. call' = [call EXCEPT ![c] = new]
            BY <3>1 DEF SendRequest
        <3>3. new \in Call
            BY <1>1, ConfigurationTypes DEF Call, SessionIds, Logins, None
        <3>4. new.at = p /\ new.pc \in {"inspect", "use"} /\ new.kind # "callback"
            OBVIOUS
        <3> QED
            BY <3>2, <3>3, <3>4
    <2> QED
        BY <2>1, <2>2
<1>3. /\ call' \in [Calls -> Call] /\ call'[c] = new
      /\ \A d \in Calls \ {c} : call'[d] = call[d]
    BY <1>1, <1>2
<1>4. CallMoves(c)
    BY <1>2, <1>3 DEF CallMoves, CallInOrder
<1> QED
    BY <1>1, <1>3, <1>4, RequestStep

LEMMA InspectKeeps ==
    ASSUME SessionsIndInv, NEW c \in Calls,
           InspectCallback(c) \/ \E token \in BOOLEAN : InspectRequest(c, token)
    PROVE  SessionsIndInv' /\ EndedStay
<1>1. CASE InspectCallback(c)
    <2> DEFINE new == [call[c] EXCEPT !.pc = "consume",
                                      !.sid = IF Readable(c) THEN @ ELSE None]
    <2>1. /\ UNCHANGED <<clock, phase, session, login, jar>>
          /\ call[c].pc # "idle" /\ call[c].kind = "callback"
          /\ call[c] \in Call /\ call \in [Calls -> Call]
        BY <1>1, TypesOf DEF InspectCallback
    <2>2. /\ new \in Call /\ new.pc = "consume" /\ new.at = call[c].at
          /\ new.kind = call[c].kind /\ new.lid = call[c].lid
        BY <2>1 DEF Call, None
    <2>3. call' = [call EXCEPT ![c] = new]
        BY <1>1, <2>1 DEF InspectCallback
    <2> HIDE DEF new
    <2>4. /\ call' \in [Calls -> Call] /\ call'[c] = new
          /\ \A d \in Calls \ {c} : call'[d] = call[d]
        BY <2>1, <2>2, <2>3
    <2>5. CallInOrder(c)'
        BY <2>1, <2>2, <2>4 DEF SessionsIndInv, CallsInOrder, CallInOrder
    <2>6. CallMoves(c)
        BY <2>2, <2>4, <2>5 DEF CallMoves
    <2> QED
        BY <2>1, <2>4, <2>6, RequestStep, TypesOf
<1>2. ASSUME NEW token \in BOOLEAN, InspectRequest(c, token)
      PROVE  SessionsIndInv' /\ EndedStay
    <2>1. UNCHANGED <<clock, phase, session, login>> /\ call[c].pc # "idle"
        BY <1>2 DEF InspectRequest
    <2>2. (Step(c, "use") /\ UNCHANGED jar) \/ Refuse(c)
        BY <1>2 DEF InspectRequest
    <2>3. CASE Step(c, "use") /\ UNCHANGED jar
        BY <2>1, <2>3, StepMoves, RequestStep, TypesOf
    <2>4. CASE Refuse(c)
        BY <2>1, <2>4, RefuseMoves, RequestStep
    <2> QED
        BY <2>2, <2>3, <2>4
<1> QED
    BY <1>1, <1>2

\* The login is spent in the step that lets the callback go on, so it was in nobody
\* else's hands.
LEMMA ConsumeKeeps ==
    ASSUME SessionsIndInv, NEW c \in Calls, NEW ownState \in BOOLEAN, NEW failed \in BOOLEAN,
           Consume(c, ownState, failed)
    PROVE  SessionsIndInv' /\ EndedStay
<1>1. /\ UNCHANGED <<clock, phase, session>> /\ call[c].pc = "consume"
      /\ call[c] \in Call /\ call \in [Calls -> Call] /\ login \in [Logins -> LoginRow]
    BY TypesOf DEF Consume
<1>2. CASE Redirect(c) /\ UNCHANGED login
    BY <1>1, <1>2, RefuseMoves, RequestStep
<1> DEFINE l == call[c].lid
<1>3. CASE /\ Consumable(l) /\ login' = [login EXCEPT ![l].consumed = TRUE]
           /\ \/ Redirect(c)
              \/ Step(c, "create") /\ UNCHANGED jar
    <2>1. l \in Logins /\ call[c].at \in Processes /\ call[c].kind = "callback"
        BY <1>1 DEF SessionsIndInv, CallsInOrder, CallInOrder
    <2>2. login[l] \in LoginRow /\ login[l].stored = "row" /\ ~login[l].consumed /\ ~Spent(l)
        BY <1>1, <1>3, <2>1 DEF Consumable, Spent
    <2>3. /\ login' \in [Logins -> LoginRow]
          /\ \A m \in Logins : Spent(m) => Spent(m)'
          /\ login'[l].stored = "row" /\ login'[l].consumed
        BY <1>1, <1>3, <2>1, <2>2 DEF Spent, LoginRow
    <2>4. Grows /\ clock' \in 1..MaxClock /\ phase' \in [Processes -> 1..Phases]
        BY <1>1, <2>3, NothingGrows
    <2>5. /\ \A s \in SessionIds : RowMoves(s)
          /\ session' = [s \in SessionIds |-> session'[s]]
        BY <1>1, RowStays, TypesOf
    <2>6. CASE Redirect(c)
        <3>1. \A d \in Calls : CallMoves(d)
            BY <2>6, RefuseMoves DEF CallMoves
        <3> QED
            BY <2>3, <2>4, <2>5, <2>6, <3>1, RefuseMoves, QuietStep
    <2>7. CASE Step(c, "create") /\ UNCHANGED jar
        <3> DEFINE new == [call[c] EXCEPT !.pc = "create"]
        <3>1. /\ new \in Call /\ new.pc = "create" /\ new.at = call[c].at
              /\ new.kind = call[c].kind /\ new.lid = l
            BY <1>1 DEF Call
        <3>2. call' = [call EXCEPT ![c] = new]
            BY <1>1, <2>7 DEF Step
        <3> HIDE DEF new
        <3>3. /\ call' \in [Calls -> Call] /\ call'[c] = new
              /\ \A d \in Calls \ {c} : call'[d] = call[d]
            BY <1>1, <3>1, <3>2
        <3>4. \A s \in SessionIds : Born(s) => session[s].login # l
            BY <2>2 DEF SessionsIndInv, SessionInOrder
        <3>5. \A d \in Calls : call[d].pc = "create" => call[d].lid # l
            BY <2>2 DEF SessionsIndInv, CallsInOrder, CallInOrder
        <3>6. PICK m : m = l /\ m = call'[c].lid
            BY <3>1, <3>3
        <3>7. \A s \in SessionIds : Born(s)' => session'[s].login # m
            BY <1>1, <3>4, <3>6 DEF Born
        <3>8. Spent(m)'
            BY <2>3, <3>6 DEF Spent
        <3>9. CallInOrder(c)'
            BY <2>1, <3>1, <3>3, <3>6, <3>7, <3>8 DEF CallInOrder, Spent
        <3>10. CallMoves(c)
            BY <3>1, <3>3, <3>5, <3>9 DEF CallMoves
        <3>11. \A d \in Calls : CallMoves(d)
            BY <3>3, <3>10 DEF CallMoves
        <3>12. jar' \in [session : {None} \cup SessionIds, login : {None} \cup Logins]
            BY <2>7, TypesOf
        <3> QED
            BY <2>3, <2>4, <2>5, <3>3, <3>11, <3>12, QuietStep
    <2> QED
        BY <1>3, <2>6, <2>7
<1> QED
    BY <1>2, <1>3 DEF Consume

LEMMA LoginFailsKeeps ==
    ASSUME SessionsIndInv, NEW c \in Calls, LoginFails(c)
    PROVE  SessionsIndInv' /\ EndedStay
BY RefuseMoves, RequestStep DEF LoginFails

LEMMA RestartKeeps ==
    ASSUME SessionsIndInv, NEW p \in Processes, NEW n \in 1..Phases, Restart(p, n)
    PROVE  SessionsIndInv' /\ EndedStay
<1>1. /\ n \in {phase[p], phase[p] + 1} /\ phase' = [phase EXCEPT ![p] = n]
      /\ call' = [c \in Calls |-> IF call[c].at = p THEN NoCall ELSE call[c]]
      /\ UNCHANGED <<clock, session, login, jar>>
    BY DEF Restart
<1>2. phase' \in [Processes -> 1..Phases] /\ clock' \in 1..MaxClock
    BY <1>1, TypesOf
<1>3. Grows
    <2>1. \A q \in Processes : phase[q] \in Nat /\ phase'[q] \in Nat
        BY <1>2, TypesOf
    <2>2. \A q \in Processes : phase[q] <= phase'[q]
        BY <1>1, <2>1, TypesOf
    <2>3. clock <= clock' /\ clock' \in Nat
        BY <1>1, TypesOf
    <2> QED
        BY <1>1, <2>1, <2>2, <2>3, TypesOf DEF Grows, Spent
<1>4. /\ \A c \in Calls : CallMoves(c)
      /\ call' \in [Calls -> Call]
    BY <1>1, TypesOf, NoCallIsCall DEF CallMoves
<1>5. /\ \A s \in SessionIds : RowMoves(s)
      /\ session' = [s \in SessionIds |-> session'[s]]
      /\ login' \in [Logins -> LoginRow]
      /\ jar' \in [session : {None} \cup SessionIds, login : {None} \cup Logins]
    BY <1>1, RowStays, TypesOf
<1> QED
    BY <1>2, <1>3, <1>4, <1>5, QuietStep

LEMMA TickKeeps ==
    ASSUME SessionsIndInv, Tick
    PROVE  SessionsIndInv' /\ EndedStay
<1>1. /\ clock < MaxClock /\ clock' = clock + 1
      /\ UNCHANGED <<phase, session, login, jar, call>>
    BY DEF Tick
<1>2. clock' \in 1..MaxClock /\ clock' \in Nat /\ clock <= clock'
    BY <1>1, TypesOf, ConfigurationTypes
<1>3. \A q \in Processes : phase[q] \in Nat /\ phase'[q] \in Nat /\ phase[q] <= phase'[q]
    BY <1>1, TypesOf
<1>4. Grows
    BY <1>1, <1>2, <1>3, TypesOf DEF Grows, Spent
<1>5. /\ \A s \in SessionIds : RowMoves(s)
      /\ session' = [s \in SessionIds |-> session'[s]]
      /\ login' \in [Logins -> LoginRow] /\ phase' \in [Processes -> 1..Phases]
      /\ jar' \in [session : {None} \cup SessionIds, login : {None} \cup Logins]
      /\ call' \in [Calls -> Call] /\ \A c \in Calls : CallMoves(c)
    BY <1>1, RowStays, TypesOf DEF CallMoves
<1> QED
    BY <1>2, <1>4, <1>5, QuietStep

-----------------------------------------------------------------------------
(***************************************************************************)
(* The steps that write a session.                                         *)
(***************************************************************************)
\* A request writes one row.
LEMMA SessionStep ==
    ASSUME SessionsIndInv, UNCHANGED <<clock, phase, login>>,
           NEW s \in SessionIds, NEW row, session' = [session EXCEPT ![s] = row],
           RowMoves(s),
           jar' \in [session : {None} \cup SessionIds, login : {None} \cup Logins],
           NEW c \in Calls, call' \in [Calls -> Call],
           \A d \in Calls \ {c} : call'[d] = call[d], CallMoves(c)
    PROVE  SessionsIndInv' /\ EndedStay
<1>1. \A l \in Logins : Spent(l) => Spent(l)'
    BY DEF Spent
<1>2. Grows /\ clock' \in 1..MaxClock /\ phase' \in [Processes -> 1..Phases]
    BY <1>1, NothingGrows
<1>3. \A t \in SessionIds : RowMoves(t)
    BY RowStays, TypesOf
<1>4. \A d \in Calls : CallMoves(d)
    BY DEF CallMoves
<1>5. session' = [t \in SessionIds |-> session'[t]] /\ login' \in [Logins -> LoginRow]
    BY TypesOf
<1> QED
    BY <1>2, <1>3, <1>4, <1>5, QuietStep

LEMMA AcceptMoves ==
    ASSUME SessionsIndInv, NEW c \in Calls, Accept(c), call[c].pc # "idle"
    PROVE  /\ jar' \in [session : {None} \cup SessionIds, login : {None} \cup Logins]
           /\ call' \in [Calls -> Call] /\ CallMoves(c)
           /\ \A d \in Calls \ {c} : call'[d] = call[d]
<1>1. CASE Step(c, "revoke") /\ UNCHANGED jar
    BY <1>1, StepMoves, TypesOf
<1>2. CASE Answer(c, jar)
    BY <1>2, AnswerMoves, TypesOf
<1> QED
    BY <1>1, <1>2 DEF Accept

\* A stored session whose key is not accepted was encrypted by another configuration.
LEMMA LostKeyIsRejected ==
    ASSUME SessionsIndInv, NEW s \in SessionIds, session[s].stored = "row",
           NEW p \in Processes, ~Opens(p, session[s].key)
    PROVE  \E q \in Processes : RejectedAt(phase[q])
<1>1. PICK n \in 1..Phases : Deployed(n) /\ session[s].key = Primary[n]
    BY DEF SessionsIndInv, SessionInOrder
<1>2. PICK q \in Processes : n <= phase[q]
    BY <1>1 DEF Deployed
<1>3. phase[p] \in 1..Phases /\ phase[q] \in 1..Phases /\ Phases \in Nat
    BY TypesOf, ConfigurationTypes
<1>4. Primary[n] \notin Ring[phase[p]]
    BY <1>1 DEF Opens, RingAt
<1>5. CASE phase[p] <= phase[q]
    <2>1. n \in 1..phase[q] /\ phase[p] \in 1..phase[q]
        BY <1>2, <1>3, <1>5
    <2> QED
        BY <1>4, <2>1 DEF RejectedAt
<1>6. CASE phase[q] <= phase[p]
    <2>1. n \in 1..phase[p] /\ phase[p] \in 1..phase[p]
        BY <1>2, <1>3, <1>6
    <2> QED
        BY <1>4, <2>1 DEF RejectedAt
<1> QED
    BY <1>3, <1>5, <1>6

LEMMA UseSessionKeeps ==
    ASSUME SessionsIndInv, NEW c \in Calls, UseSession(c)
    PROVE  SessionsIndInv' /\ EndedStay
<1> DEFINE s == call[c].sid
           p == call[c].at
<1>1. /\ UNCHANGED <<clock, phase, login>> /\ call[c].pc = "use"
      /\ call[c] \in Call /\ call \in [Calls -> Call]
    BY TypesOf DEF UseSession
<1>2. p \in Processes
    BY <1>1 DEF SessionsIndInv, CallsInOrder, CallInOrder
<1>3. CASE Refuse(c) /\ UNCHANGED session
    BY <1>1, <1>3, RefuseMoves, RequestStep
<1>4. CASE Usable(s, p)
    <2> DEFINE row == [session[s] EXCEPT !.idle = Refreshed(s, p)]
    <2>1. s \in SessionIds /\ session[s] \in SessionRow /\ Active(s)
          /\ session[s].idle <= Refreshed(s, p) /\ session[s].stored = "row"
        BY <1>4, TypesOf DEF Usable, Active
    <2>2. session' = [session EXCEPT ![s] = row]
        BY <1>1, <1>4, <2>1, TypesOf DEF UseSession
    <2>3. phase[p] \in 1..Phases /\ Deployed(phase[p])
        <3>1. phase[p] \in 1..Phases /\ phase[p] <= phase[p]
            BY <1>2, TypesOf, ConfigurationTypes
        <3> QED
            BY <1>2, <3>1 DEF Deployed
    <2>4. /\ Refreshed(s, p) \in Nat /\ Refreshed(s, p) <= session[s].absolute
          /\ Refreshed(s, p) <= clock + Idle[phase[p]]
        <3>1. session[s].absolute \in Nat /\ clock + Idle[phase[p]] \in Nat
            BY <2>1, <2>3, TypesOf, ConfigurationTypes DEF SessionRow
        <3> QED
            BY <3>1 DEF Refreshed, Min2, IdleAt
    <2>5. RowMoves(s)
        <3>1. session'[s] = row
            BY <2>1, <2>2, TypesOf
        <3>2. /\ row \in SessionRow /\ row.idle = Refreshed(s, p)
              /\ row.absolute = session[s].absolute /\ row.login = session[s].login
              /\ row.parent = session[s].parent /\ row.stored = session[s].stored
              /\ row.reason = session[s].reason /\ row.audits = session[s].audits
              /\ row.key = session[s].key
            BY <2>1, <2>4 DEF SessionRow
        <3> HIDE DEF row
        <3> QED
            BY <2>1, <2>3, <2>4, <3>1, <3>2 DEF RowMoves
    <2>6. CASE Accept(c)
        BY <1>1, <2>1, <2>2, <2>5, <2>6, AcceptMoves, SessionStep
    <2> DEFINE next == IF Opens(p, session[s].key) THEN "rotate" ELSE "keyLost"
               new == [call[c] EXCEPT !.key = session[s].key, !.pc = next]
    <2>7. CASE /\ call' = [call EXCEPT ![c].key = session[s].key, ![c].pc = next]
               /\ UNCHANGED jar
        <3>1. /\ new \in Call /\ new.pc = next /\ new.at = p
              /\ new.kind = call[c].kind /\ new.lid = call[c].lid
            BY <1>1, <2>1 DEF Call, SessionRow
        <3>2. call' = [call EXCEPT ![c] = new]
            BY <1>1, <2>7
        <3>3. next \in {"rotate", "keyLost"}
              /\ (next = "keyLost" => \E q \in Processes : RejectedAt(phase[q]))
            BY <1>2, <2>1, LostKeyIsRejected
        <3> HIDE DEF new, next
        <3>4. /\ call' \in [Calls -> Call] /\ call'[c] = new
              /\ \A d \in Calls \ {c} : call'[d] = call[d]
            BY <1>1, <3>1, <3>2
        <3>5. next = "keyLost" => \E q \in Processes : RejectedAt(phase'[q])
            BY <1>1, <3>3
        <3>6. CallInOrder(c)'
            BY <1>1, <1>2, <3>1, <3>3, <3>4, <3>5
               DEF SessionsIndInv, CallsInOrder, CallInOrder
        <3>7. CallMoves(c)
            BY <3>1, <3>3, <3>4, <3>6 DEF CallMoves
        <3> QED
            BY <1>1, <2>1, <2>2, <2>5, <2>7, <3>4, <3>7, SessionStep, TypesOf
    <2> QED
        BY <1>1, <1>4, <2>6, <2>7 DEF UseSession
<1> QED
    BY <1>3, <1>4 DEF UseSession

LEMMA RotateEnvelopeKeeps ==
    ASSUME SessionsIndInv, NEW c \in Calls, RotateEnvelope(c)
    PROVE  SessionsIndInv' /\ EndedStay
<1> DEFINE s == call[c].sid
           p == call[c].at
<1>1. /\ UNCHANGED <<clock, phase, login>> /\ call[c].pc # "idle" /\ Accept(c)
      /\ p \in Processes
    BY DEF RotateEnvelope, SessionsIndInv, CallsInOrder, CallInOrder
<1>2. CASE session' = session
    BY <1>1, <1>2, AcceptMoves, RequestStep
<1>3. CASE Active(s) /\ session' = [session EXCEPT ![s].key = PrimaryAt(p)]
    <2> DEFINE row == [session[s] EXCEPT !.key = PrimaryAt(p)]
    <2>1. s \in SessionIds /\ session[s] \in SessionRow
        BY <1>3, TypesOf DEF Active
    <2>2. session' = [session EXCEPT ![s] = row]
        BY <1>3, <2>1, TypesOf
    <2>3. phase[p] \in 1..Phases /\ Deployed(phase[p])
        <3>1. phase[p] \in 1..Phases /\ phase[p] <= phase[p]
            BY <1>1, TypesOf, ConfigurationTypes
        <3> QED
            BY <1>1, <3>1 DEF Deployed
    <2>4. RowMoves(s)
        <3>1. session'[s] = row
            BY <2>1, <2>2, TypesOf
        <3>2. /\ row \in SessionRow /\ row.idle = session[s].idle
              /\ row.absolute = session[s].absolute /\ row.login = session[s].login
              /\ row.parent = session[s].parent /\ row.stored = session[s].stored
              /\ row.reason = session[s].reason /\ row.audits = session[s].audits
              /\ row.key = Primary[phase[p]]
            BY <2>1, <2>3, ConfigurationTypes DEF SessionRow, PrimaryAt
        <3>3. session[s].idle <= session[s].idle /\ session[s].idle <= session[s].absolute
            BY <2>1, TypesOf DEF SessionRow
        <3> HIDE DEF row
        <3> QED
            BY <1>3, <2>1, <2>3, <3>1, <3>2, <3>3 DEF RowMoves
    <2> QED
        BY <1>1, <2>1, <2>2, <2>4, AcceptMoves, SessionStep
<1> QED
    BY <1>2, <1>3 DEF RotateEnvelope

LEMMA EndedIsRow ==
    ASSUME NEW r \in SessionRow, NEW reason \in {NoReason} \cup EndReasons,
           NEW at \in Nat, NEW key \in Keys, NEW n \in Nat
    PROVE  [r EXCEPT !.reason = reason, !.ended = at, !.idle = 0, !.absolute = 0,
                     !.key = key, !.audits = n] \in SessionRow
<1> DEFINE some == [r EXCEPT !.reason = reason, !.ended = at, !.idle = 0]
           row == [some EXCEPT !.absolute = 0, !.key = key, !.audits = n]
<1>1. some \in SessionRow
    BY DEF SessionRow
<1> HIDE DEF some
<1>2. row \in SessionRow
    BY <1>1 DEF SessionRow
<1>3. row = [r EXCEPT !.reason = reason, !.ended = at, !.idle = 0, !.absolute = 0,
                      !.key = key, !.audits = n]
    BY DEF some
<1> QED
    BY <1>2, <1>3

\* An end that is audited.
LEMMA RevokeMoves ==
    ASSUME SessionsIndInv, NEW s \in SessionIds, Active(s), NEW reason \in Audited,
           reason = "TOKEN_KEY_REVOKED" => \E p \in Processes : RejectedAt(phase[p]),
           Processes # {},
           session' = [session EXCEPT ![s] = Ended(session[s], reason)]
    PROVE  RowMoves(s)
<1> DEFINE row == Ended(session[s], reason)
<1>1. session'[s] = row /\ session[s] \in SessionRow
    BY TypesOf
<1>2. /\ row \in SessionRow /\ row.idle = 0 /\ row.absolute = 0
      /\ row.login = session[s].login
      /\ row.parent = session[s].parent /\ row.stored = session[s].stored
      /\ row.reason = reason /\ row.audits = session[s].audits + 1
      /\ row.key = Primary[1]
    <2>1. PICK n \in Nat : n = session[s].audits + 1
        BY <1>1 DEF SessionRow
    <2>2. row = [session[s] EXCEPT !.reason = reason, !.ended = clock, !.idle = 0,
                     !.absolute = 0, !.key = Primary[1], !.audits = n]
        BY <2>1 DEF Ended
    <2>3. reason \in {NoReason} \cup EndReasons /\ clock \in Nat /\ Primary[1] \in Keys
        BY TypesOf, ConfigurationTypes DEF EndReasons
    <2> HIDE DEF row
    <2>4. row \in SessionRow
        <3>1. PICK r \in SessionRow, at \in Nat, key \in Keys :
                  r = session[s] /\ at = clock /\ key = Primary[1]
            BY <1>1, <2>3
        <3>2. [r EXCEPT !.reason = reason, !.ended = at, !.idle = 0, !.absolute = 0,
                        !.key = key, !.audits = n] \in SessionRow
            BY <2>1, <2>3, EndedIsRow
        <3> QED
            BY <2>2, <3>1, <3>2
    <2>5. /\ row.idle = 0 /\ row.absolute = 0 /\ row.key = Primary[1]
          /\ row.login = session[s].login /\ row.parent = session[s].parent
          /\ row.stored = session[s].stored /\ row.audits = n
        BY <1>1, <2>2 DEF SessionRow
    <2>6. row.reason = reason
        BY <1>1, <2>2 DEF SessionRow
    <2> QED
        BY <2>1, <2>4, <2>5, <2>6
<1>3. Deployed(1)
    BY TypesOf, ConfigurationTypes DEF Deployed
<1>4. 0 <= session[s].idle
    BY <1>1 DEF SessionRow
<1> HIDE DEF row
<1> QED
    BY <1>1, <1>2, <1>3, <1>4, ConfigurationTypes DEF RowMoves

LEMMA RevokeKeeps ==
    ASSUME SessionsIndInv, UNCHANGED <<clock, phase, login>>,
           NEW c \in Calls, call[c].pc # "idle", NEW reason \in Audited,
           reason = "TOKEN_KEY_REVOKED" => \E p \in Processes : RejectedAt(phase[p]),
           Revoke(call[c].sid, reason),
           Answer(c, [jar EXCEPT !.session = None])
    PROVE  SessionsIndInv' /\ EndedStay
<1> DEFINE s == call[c].sid
<1>1. [jar EXCEPT !.session = None]
          \in [session : {None} \cup SessionIds, login : {None} \cup Logins]
    BY TypesOf
<1>2. /\ jar' \in [session : {None} \cup SessionIds, login : {None} \cup Logins]
      /\ call' \in [Calls -> Call] /\ CallMoves(c)
      /\ \A d \in Calls \ {c} : call'[d] = call[d]
    BY <1>1, AnswerMoves
<1>3. CASE session' = session
    BY <1>2, <1>3, RequestStep
<1>4. CASE Active(s) /\ session' = [session EXCEPT ![s] = Ended(session[s], reason)]
    <2>1. s \in SessionIds /\ Processes # {}
        BY <1>4 DEF Active, SessionsIndInv, CallsInOrder, CallInOrder
    <2> QED
        BY <1>2, <1>4, <2>1, RevokeMoves, SessionStep
<1>5. Active(s) => session' = [session EXCEPT ![s] = Ended(session[s], reason)]
    BY DEF Revoke
<1> QED
    BY <1>3, <1>4, <1>5 DEF Revoke

LEMMA RevokeLostKeyKeeps ==
    ASSUME SessionsIndInv, NEW c \in Calls, RevokeLostKey(c)
    PROVE  SessionsIndInv' /\ EndedStay
<1>1. \E p \in Processes : RejectedAt(phase[p])
    BY DEF RevokeLostKey, SessionsIndInv, CallsInOrder, CallInOrder
<1> QED
    BY <1>1, RevokeKeeps DEF RevokeLostKey, Refuse, Audited

LEMMA LogoutKeeps ==
    ASSUME SessionsIndInv, NEW c \in Calls, Logout(c)
    PROVE  SessionsIndInv' /\ EndedStay
BY RevokeKeeps DEF Logout, Audited

LEMMA CleanSessionKeeps ==
    ASSUME SessionsIndInv, NEW s \in SessionIds, CleanSession(s)
    PROVE  SessionsIndInv' /\ EndedStay
<1> DEFINE row == [session[s] EXCEPT !.stored = "deleted", !.idle = 0, !.absolute = 0,
                                     !.ended = 0, !.key = Primary[1]]
<1>1. /\ session[s].stored = "row" /\ session[s] \in SessionRow
      /\ session' = [session EXCEPT ![s] = row]
      /\ UNCHANGED <<clock, phase, login, jar, call>>
    BY TypesOf DEF CleanSession
<1>2. RowMoves(s)
    <2>1. /\ row \in SessionRow /\ row.idle = 0 /\ row.absolute = 0
          /\ row.login = session[s].login
          /\ row.parent = session[s].parent /\ row.stored = "deleted"
          /\ row.reason = session[s].reason /\ row.audits = session[s].audits
        BY <1>1, ConfigurationTypes DEF SessionRow
    <2>2. 0 <= session[s].idle /\ 0 <= session[s].absolute
        BY <1>1 DEF SessionRow
    <2>3. session'[s] = row
        BY <1>1, TypesOf
    <2> HIDE DEF row
    <2> QED
        BY <1>1, <2>1, <2>2, <2>3 DEF RowMoves
<1>3. Grows /\ clock' \in 1..MaxClock /\ phase' \in [Processes -> 1..Phases]
    BY <1>1, NothingGrows DEF Spent
<1> HIDE DEF row
<1>4. \A t \in SessionIds : RowMoves(t)
    BY <1>1, <1>2, RowStays, TypesOf
<1>5. /\ session' = [t \in SessionIds |-> session'[t]]
      /\ login' \in [Logins -> LoginRow]
      /\ jar' \in [session : {None} \cup SessionIds, login : {None} \cup Logins]
      /\ call' \in [Calls -> Call] /\ \A c \in Calls : CallMoves(c)
    BY <1>1, TypesOf DEF CallMoves
<1> QED
    BY <1>3, <1>4, <1>5, QuietStep

\* The only step that makes a session.  The login it comes from was in this callback's
\* hands alone, and the session it replaces was active until this step.
LEMMA CreateSessionKeeps ==
    ASSUME SessionsIndInv, NEW c \in Calls, NEW s \in SessionIds, CreateSession(c, s)
    PROVE  SessionsIndInv' /\ EndedStay
<1> DEFINE o == call[c].sid
           l == call[c].lid
           p == call[c].at
<1>1. /\ UNCHANGED <<clock, phase, login>> /\ call[c].pc = "create"
      /\ call[c] \in Call /\ session[s].stored = "unborn" /\ ~Born(s)
    BY TypesOf DEF CreateSession, Born
<1>2. CASE Redirect(c) /\ UNCHANGED session
    BY <1>1, <1>2, RefuseMoves, RequestStep
<1>3. CASE /\ MayReplace(o)
           /\ session' = [t \in SessionIds |->
                    IF t = s THEN NewSession(c)
                    ELSE IF t = o THEN Ended(session[t], "SESSION_ROTATED")
                                  ELSE session[t]]
           /\ Answer(c, [jar EXCEPT !.session = s, !.login = None])
    <2>1. /\ l \in Logins /\ Spent(l) /\ p \in Processes
          /\ \A t \in SessionIds : Born(t) => session[t].login # l
        BY <1>1 DEF SessionsIndInv, CallsInOrder, CallInOrder
    <2>2. /\ jar' \in [session : {None} \cup SessionIds, login : {None} \cup Logins]
          /\ call' \in [Calls -> Call]
          /\ call'[c].pc = "idle"
          /\ \A d \in Calls \ {c} : call'[d] = call[d]
        <3>1. [jar EXCEPT !.session = s, !.login = None]
                  \in [session : {None} \cup SessionIds, login : {None} \cup Logins]
            BY TypesOf
        <3>2. call'[c] = NoCall
            BY <1>3, TypesOf DEF Answer
        <3> QED
            BY <1>3, <3>1, <3>2, AnswerMoves, NoCallIsCall
    <2>3. /\ phase[p] \in 1..Phases /\ Deployed(phase[p])
          /\ 1 \in 1..Phases /\ Deployed(1)
        <3>1. phase[p] \in 1..Phases /\ phase[p] <= phase[p] /\ 1 <= phase[p]
            BY <2>1, TypesOf, ConfigurationTypes
        <3> QED
            BY <2>1, <3>1, ConfigurationTypes DEF Deployed
    \* The row made.
    <2>4. /\ session'[s] \in SessionRow /\ session'[s].stored = "row"
          /\ session'[s].login = l /\ session'[s].parent = o
          /\ session'[s].reason = NoReason /\ session'[s].audits = 0
          /\ session'[s].idle = clock + Idle[phase[p]]
          /\ session'[s].idle <= session'[s].absolute
          /\ session'[s].key = Primary[phase[p]]
        <3>1. session'[s] = NewSession(c)
            BY <1>3
        <3>2. /\ clock + Idle[phase[p]] \in Nat /\ clock + Absolute \in Nat
              /\ clock + Idle[phase[p]] <= clock + Absolute
              /\ l \in Nat /\ o \in Nat /\ Primary[phase[p]] \in Keys
            BY <1>1, <2>3, TypesOf, ConfigurationTypes DEF Call
        <3> QED
            BY <3>1, <3>2 DEF NewSession, SessionRow, IdleAt, PrimaryAt, EndReasons
    \* The row replaced.
    <2>5. ASSUME o \in SessionIds
          PROVE  /\ Active(o) /\ o # s /\ session[o].stored = "row"
                 /\ session[o].reason = NoReason /\ session[o].audits = 0
                 /\ session'[o] \in SessionRow /\ session'[o].stored = "row"
                 /\ session'[o].login = session[o].login
                 /\ session'[o].parent = session[o].parent
                 /\ session'[o].reason = "SESSION_ROTATED" /\ session'[o].audits = 0
                 /\ session'[o].idle = 0 /\ session'[o].absolute = 0
                 /\ session'[o].key = Primary[1]
        <3>1. Active(o)
            BY <1>3, <2>5 DEF MayReplace, None, SessionIds
        <3>2. o # s /\ session[o].stored = "row" /\ session[o].reason = NoReason
            BY <1>1, <3>1 DEF Active
        <3>3. session[o].audits = 0
            BY <2>5, <3>2 DEF SessionsIndInv, SessionsInv, EndsAuditedOnce, Audited, NoReason
        <3>4. session'[o] = [session[o] EXCEPT !.reason = "SESSION_ROTATED", !.ended = clock,
                                 !.idle = 0, !.absolute = 0, !.key = Primary[1], !.audits = 0]
            <4>1. Ended(session[o], "SESSION_ROTATED") =
                      [session[o] EXCEPT !.reason = "SESSION_ROTATED", !.ended = clock,
                           !.idle = 0, !.absolute = 0, !.key = Primary[1],
                           !.audits = session[o].audits]
                BY DEF Ended, Audited
            <4> QED
                BY <1>3, <2>5, <3>2, <3>3, <4>1
        <3>5. PICK r \in SessionRow, at \in Nat, key \in Keys, n \in Nat :
                  r = session[o] /\ at = clock /\ key = Primary[1] /\ n = 0
            BY <2>5, TypesOf, ConfigurationTypes
        <3>6. "SESSION_ROTATED" \in {NoReason} \cup EndReasons
            BY DEF EndReasons
        <3>7. [r EXCEPT !.reason = "SESSION_ROTATED", !.ended = at, !.idle = 0,
                        !.absolute = 0, !.key = key, !.audits = n] \in SessionRow
            BY <3>6, EndedIsRow
        <3>8. session'[o] \in SessionRow
            BY <3>4, <3>5, <3>7
        <3>9. /\ session'[o].stored = session[o].stored /\ session'[o].login = session[o].login
              /\ session'[o].parent = session[o].parent /\ session'[o].idle = 0
              /\ session'[o].absolute = 0 /\ session'[o].key = Primary[1]
              /\ session'[o].audits = 0 /\ session'[o].reason = "SESSION_ROTATED"
            BY <3>4, <3>5 DEF SessionRow
        <3> QED
            BY <3>1, <3>2, <3>3, <3>8, <3>9
    <2>6. \A t \in SessionIds : t # s /\ t # o => session'[t] = session[t]
        BY <1>3
    <2>7. \A t \in SessionIds : t # s =>
              /\ Born(t)' <=> Born(t)
              /\ session'[t].login = session[t].login
              /\ session'[t].parent = session[t].parent
        BY <2>5, <2>6 DEF Born
    <2> HIDE DEF o, l, p
    <2>8. SessionTypeOK'
        <3>1. ASSUME NEW t \in SessionIds
              PROVE  session'[t] \in SessionRow /\ session'[t].idle <= session'[t].absolute
            BY <2>4, <2>5, <2>6, TypesOf
        <3>2. session' = [t \in SessionIds |-> session'[t]]
            BY <1>3
        <3>3. session' \in [SessionIds -> SessionRow]
            BY <3>1, <3>2
        <3> QED
            BY <1>1, <2>2, <3>1, <3>3, TypesOf DEF SessionTypeOK
    <2>9. OneSessionPerLogin'
        <3>1. \A t \in SessionIds : t # s /\ Born(t)' => session'[t].login # session'[s].login
            BY <2>1, <2>4, <2>7
        <3>2. ASSUME NEW t \in SessionIds, NEW u \in SessionIds, Born(t)', Born(u)',
                     t # s, u # s, session'[t].login = session'[u].login
              PROVE  t = u
            BY <2>7, <3>2 DEF SessionsIndInv, SessionsInv, OneSessionPerLogin
        <3> QED
            BY <3>1, <3>2 DEF OneSessionPerLogin
    <2>10. RotationIsExclusive'
        <3> SUFFICES ASSUME NEW t \in SessionIds, NEW q, Born(t)', session'[t].parent = q,
                            q # None
                     PROVE  /\ Born(q)' /\ session'[q].reason = "SESSION_ROTATED"
                            /\ session'[q].audits = 0
                            /\ \A u \in SessionIds :
                                  Born(u)' /\ session'[u].parent = q => t = u
            BY DEF RotationIsExclusive, Born
        <3>1. ASSUME NEW v \in SessionIds, Born(v), session[v].parent # None
              PROVE  /\ session[v].parent \in SessionIds /\ Born(session[v].parent)
                     /\ session[session[v].parent].reason = "SESSION_ROTATED"
                     /\ session[session[v].parent].audits = 0
                     /\ session[v].parent # o /\ session[v].parent # s
                     /\ \A u \in SessionIds :
                           Born(u) /\ session[u].parent = session[v].parent => v = u
            <4>1. /\ Born(session[v].parent)
                  /\ session[session[v].parent].reason = "SESSION_ROTATED"
                  /\ session[session[v].parent].audits = 0
                  /\ \A u \in SessionIds :
                        Born(u) /\ session[u].parent = session[v].parent => v = u
                BY <3>1 DEF SessionsIndInv, SessionsInv, RotationIsExclusive
            <4>2. session[v].parent \in SessionIds
                BY <4>1 DEF Born
            <4> QED
                BY <1>1, <2>5, <4>1, <4>2 DEF NoReason
        <3>2. CASE t = s
            <4>1. q = o /\ MayReplace(o)
                BY <1>3, <2>4, <3>2 DEF o
            <4>2. o \in SessionIds
                BY <4>1 DEF MayReplace, Active
            <4>3. \A u \in SessionIds : u # s /\ Born(u)' => session'[u].parent # o
                BY <2>7, <3>1, <4>1
            <4> QED
                BY <2>5, <3>2, <4>1, <4>2, <4>3 DEF Born
        <3>3. CASE t # s
            <4>1. Born(t) /\ session[t].parent = q
                BY <2>7, <3>3
            <4>2. /\ q \in SessionIds /\ Born(q) /\ session[q].reason = "SESSION_ROTATED"
                  /\ session[q].audits = 0 /\ q # o /\ q # s
                  /\ \A u \in SessionIds : Born(u) /\ session[u].parent = q => t = u
                BY <3>1, <4>1
            <4>3. session'[q] = session[q] /\ Born(q)'
                BY <2>6, <2>7, <4>2
            <4>4. \A u \in SessionIds : Born(u)' /\ session'[u].parent = q => t = u
                BY <2>4, <2>7, <4>2
            <4> QED
                BY <4>2, <4>3, <4>4
        <3> QED
            BY <3>2, <3>3
    <2>11. EndsAuditedOnce'
        BY <2>4, <2>5, <2>6 DEF SessionsIndInv, SessionsInv, EndsAuditedOnce, Audited, NoReason
    <2>12. ASSUME NEW d \in Calls PROVE CallInOrder(d)'
        <3>1. CASE d = c
            BY <2>2, <3>1 DEF CallInOrder
        <3>2. CASE d # c
            <4>1. call'[d] = call[d] /\ CallInOrder(d)
                BY <2>2, <3>2 DEF SessionsIndInv, CallsInOrder
            <4> SUFFICES ASSUME call[d].pc # "idle" PROVE CallInOrder(d)'
                BY <4>1 DEF CallInOrder
            <4>2. call[d].pc = "create" => call[d].lid # l
                BY <1>1, <3>2 DEF SessionsIndInv, CreatesDiffer, l
            <4>3. call[d].pc = "create" =>
                      \A t \in SessionIds : Born(t)' => session'[t].login # call[d].lid
                BY <2>4, <2>7, <4>1, <4>2 DEF CallInOrder
            <4>4. PICK m : m = call[d].lid /\ m = call'[d].lid
                BY <4>1
            <4>5. call[d].pc = "create" => Spent(m)'
                BY <1>1, <4>1, <4>4 DEF CallInOrder, Spent
            <4>6. call[d].pc = "keyLost" => \E v \in Processes : RejectedAt(phase'[v])
                BY <1>1, <4>1 DEF CallInOrder
            <4> QED
                BY <4>1, <4>3, <4>4, <4>5, <4>6 DEF CallInOrder, Spent
        <3> QED
            BY <3>1, <3>2
    <2>13. CreatesDiffer'
        BY <2>2 DEF SessionsIndInv, CreatesDiffer
    <2>14. ASSUME NEW t \in SessionIds PROVE SessionInOrder(t)'
        <3>1. SessionInOrder(t)
            BY DEF SessionsIndInv
        <3>2. CASE t = s
            <4>1. clock + Idle[phase[p]] <= clock + Idle[phase[p]]
                BY <2>3, TypesOf, ConfigurationTypes
            <4> QED
                BY <1>1, <2>1, <2>3, <2>4, <3>2, <4>1 DEF SessionInOrder, Spent, Deployed
        <3>3. CASE t = o /\ t # s
            <4>1. PICK n \in 1..Phases : Deployed(n)
                BY <2>3
            <4>2. 0 <= clock + Idle[n]
                BY TypesOf, ConfigurationTypes
            <4> QED
                BY <1>1, <2>3, <2>5, <2>7, <3>1, <3>3, <4>1, <4>2
                   DEF SessionInOrder, Spent, Deployed
        <3>4. CASE t # s /\ t # o
            BY <1>1, <2>6, <2>7, <3>1, <3>4 DEF SessionInOrder, Spent, Deployed
        <3> QED
            BY <3>2, <3>3, <3>4
    <2>15. SafeRolloutKeepsSessions'
        <3>1. (\E t \in SessionIds : session'[t].reason = "TOKEN_KEY_REVOKED")
                  => \E t \in SessionIds : session[t].reason = "TOKEN_KEY_REVOKED"
            BY <2>4, <2>5, <2>6 DEF NoReason
        <3> QED
            BY <1>1, <3>1 DEF SessionsIndInv, SafeRolloutKeepsSessions, RejectedAt
    <2>16. EndedStay
        <3> SUFFICES ASSUME NEW t \in SessionIds, Born(t), ~Active(t)
                     PROVE  /\ ~Active(t)' /\ session'[t].reason = session[t].reason
                            /\ session'[t].idle <= session[t].idle
            BY DEF EndedStay
        <3>1. session'[t] = session[t]
            BY <1>1, <2>5, <2>6
        <3>2. session[t].idle <= session[t].idle
            BY TypesOf DEF SessionRow
        <3> QED
            BY <1>1, <3>1, <3>2 DEF Active
    <2> QED
        BY <2>8, <2>9, <2>10, <2>11, <2>12, <2>13, <2>14, <2>15, <2>16
           DEF SessionsIndInv, SessionsInv, CallsInOrder
<1> QED
    BY <1>2, <1>3 DEF CreateSession

-----------------------------------------------------------------------------
(***************************************************************************)
(* The theorems.                                                           *)
(***************************************************************************)
LEMMA InitInOrder == Init => SessionsIndInv
<1> SUFFICES ASSUME Init PROVE SessionsIndInv
    OBVIOUS
<1>1. /\ clock = 1 /\ phase = [p \in Processes |-> 1]
      /\ jar = [session |-> None, login |-> None] /\ call = [c \in Calls |-> NoCall]
    BY DEF Init
<1>2. \A s \in SessionIds :
          /\ session[s] \in SessionRow /\ session[s].stored = "unborn"
          /\ session[s].idle = 0 /\ session[s].absolute = 0
          /\ session[s].reason = NoReason /\ session[s].audits = 0
    BY ConfigurationTypes DEF Init, SessionRow, None
<1>3. login \in [Logins -> LoginRow]
    BY DEF Init, LoginRow
<1>4. clock \in 1..MaxClock
    BY <1>1, SessionsAssumption
<1>5. session \in [SessionIds -> SessionRow]
    BY <1>2 DEF Init
<1>6. SessionTypeOK
    <2>1. phase \in [Processes -> 1..Phases]
        BY <1>1, ConfigurationTypes
    <2>2. jar \in [session : {None} \cup SessionIds, login : {None} \cup Logins]
        BY <1>1
    <2>3. call \in [Calls -> Call]
        BY <1>1, NoCallIsCall
    <2>4. \A s \in SessionIds : session[s].idle <= session[s].absolute
        BY <1>2
    <2> QED
        BY <1>3, <1>4, <1>5, <2>1, <2>2, <2>3, <2>4 DEF SessionTypeOK
<1>7. \A s : ~Born(s)
    BY <1>2 DEF Born
<1>8. OneSessionPerLogin /\ RotationIsExclusive
    BY <1>7 DEF OneSessionPerLogin, RotationIsExclusive
<1>9. EndsAuditedOnce
    BY <1>2 DEF EndsAuditedOnce, Audited, NoReason
<1>10. CallsInOrder /\ CreatesDiffer
    BY <1>1, NoCallIsCall DEF CallsInOrder, CallInOrder, CreatesDiffer
<1>11. \A s \in SessionIds : SessionInOrder(s)
    BY <1>2, <1>7 DEF SessionInOrder
<1>12. SafeRolloutKeepsSessions
    BY <1>2 DEF SafeRolloutKeepsSessions, NoReason
<1> QED
    BY <1>6, <1>8, <1>9, <1>10, <1>11, <1>12 DEF SessionsIndInv, SessionsInv

LEMMA NextKeeps ==
    ASSUME SessionsIndInv, Next
    PROVE  SessionsIndInv' /\ EndedStay
<1>1. CASE \E l \in Logins : BeginLogin(l) \/ CleanLogin(l)
    BY <1>1, BeginLoginKeeps, CleanLoginKeeps
<1>2. CASE \E c \in Calls, p \in Processes : SendCallback(c, p)
    BY <1>2, SendKeeps
<1>3. CASE \E c \in Calls, p \in Processes, kind \in Requests : SendRequest(c, p, kind)
    BY <1>3, SendKeeps
<1>4. CASE \E c \in Calls : InspectCallback(c)
    BY <1>4, InspectKeeps
<1>5. CASE \E c \in Calls, token \in BOOLEAN : InspectRequest(c, token)
    BY <1>5, InspectKeeps
<1>6. CASE \E c \in Calls, ownState, failed \in BOOLEAN : Consume(c, ownState, failed)
    BY <1>6, ConsumeKeeps
<1>7. CASE \E c \in Calls : LoginFails(c)
    BY <1>7, LoginFailsKeeps
<1>8. CASE \E c \in Calls, s \in SessionIds : CreateSession(c, s)
    BY <1>8, CreateSessionKeeps
<1>9. CASE \E c \in Calls : UseSession(c)
    BY <1>9, UseSessionKeeps
<1>10. CASE \E c \in Calls : RotateEnvelope(c)
    BY <1>10, RotateEnvelopeKeeps
<1>11. CASE \E c \in Calls : RevokeLostKey(c)
    BY <1>11, RevokeLostKeyKeeps
<1>12. CASE \E c \in Calls : Logout(c)
    BY <1>12, LogoutKeeps
<1>13. CASE \E s \in SessionIds : CleanSession(s)
    BY <1>13, CleanSessionKeeps
<1>14. CASE \E p \in Processes, n \in 1..Phases : Restart(p, n)
    BY <1>14, RestartKeeps
<1>15. CASE Tick
    BY <1>15, TickKeeps
<1> QED
    BY <1>1, <1>2, <1>3, <1>4, <1>5, <1>6, <1>7, <1>8, <1>9, <1>10, <1>11, <1>12,
       <1>13, <1>14, <1>15 DEF Next

LEMMA StutterKeeps ==
    ASSUME SessionsIndInv, UNCHANGED vars
    PROVE  SessionsIndInv'
<1>1. Grows /\ clock' \in 1..MaxClock /\ phase' \in [Processes -> 1..Phases]
    BY NothingGrows DEF vars, Spent
<1>2. \A s \in SessionIds : RowMoves(s)
    BY RowStays DEF vars
<1>3. /\ session' = [s \in SessionIds |-> session'[s]]
      /\ login' \in [Logins -> LoginRow]
      /\ jar' \in [session : {None} \cup SessionIds, login : {None} \cup Logins]
      /\ call' \in [Calls -> Call] /\ \A c \in Calls : CallMoves(c)
    BY TypesOf DEF vars, CallMoves
<1> QED
    BY <1>1, <1>2, <1>3, QuietStep

\* What each kind of request knows at each of its steps, and which configuration each
\* stored key and idle bound comes from (V2Sessions.ts over migrations 06 and 07).
THEOREM SessionsIndInvHolds == Spec => []SessionsIndInv
<1>1. SessionsIndInv /\ [Next]_vars => SessionsIndInv'
    BY NextKeeps, StutterKeeps
<1> QED
    BY <1>1, InitInOrder, PTL DEF Spec

\* One login makes at most one session, a session has at most one successor and none if
\* it ended otherwise, and each audited end has one event: whatever requests, processes
\* and restarts interleave (v2_consume_oidc_login, v2_create_or_replace_session,
\* v2_revoke_session).
THEOREM LoginsAndSessionsMatch == Spec => []SessionsInv
<1>1. SessionsIndInv => SessionsInv
    BY DEF SessionsIndInv
<1> QED
    BY <1>1, SessionsIndInvHolds, PTL

\* For every rollout: while each configuration deployed accepts what the others encrypt,
\* nobody loses a session to a key (decryptSession), and a live session's use is refused
\* only by a process with a shorter idle lifetime than one deployed (v2_guard_session).
THEOREM RolloutIsGentle == Spec => []RolloutCostsNoSession
<1>1. ASSUME SessionsIndInv PROVE OnlyShorterLifetimeRefuses
    <2> SUFFICES ASSUME NEW s \in SessionIds, NEW p \in Processes,
                        Active(s), ~Usable(s, p)
                 PROVE  \E n \in 1..Phases, q \in Processes :
                            n <= phase[q] /\ Idle[n] > IdleAt(p)
        BY DEF OnlyShorterLifetimeRefuses
    <2>1. session[s] \in SessionRow /\ session[s].idle <= session[s].absolute
          /\ phase[p] \in 1..Phases /\ clock \in Nat
        BY <1>1, TypesOf
    <2>2. PICK n \in 1..Phases : Deployed(n) /\ session[s].idle <= clock + Idle[n]
        BY <1>1 DEF SessionsIndInv, SessionInOrder, Active
    <2>3. /\ session[s].idle \in Nat /\ session[s].absolute \in Nat
          /\ Idle[n] \in Nat /\ IdleAt(p) \in Nat
        BY <2>1, ConfigurationTypes DEF SessionRow, IdleAt
    <2>4. ~(session[s].idle <= clock + IdleAt(p))
        BY <2>1, <2>3 DEF Usable, Refreshed, Min2
    <2>5. Idle[n] > IdleAt(p)
        BY <2>1, <2>2, <2>3, <2>4
    <2> QED
        BY <2>2, <2>5 DEF Deployed
<1>2. SessionsIndInv => RolloutCostsNoSession
    BY <1>1 DEF SessionsIndInv, RolloutCostsNoSession
<1> QED
    BY <1>2, SessionsIndInvHolds, PTL

\* No step revives an ended or expired session, extends it or rewrites how it ended
\* (v2_guard_session, and the functions that write a row only while it is active).
THEOREM EndsAreFinal == Spec => EndIsFinal
<1>1. SessionsIndInv /\ [Next]_vars =>
          [\A s \in SessionIds : Born(s) /\ ~Active(s) =>
              /\ ~Active(s)'
              /\ session'[s].reason = session[s].reason
              /\ session'[s].idle <= session[s].idle]_vars
    BY NextKeeps DEF EndedStay
<1> QED
    BY <1>1, SessionsIndInvHolds, PTL DEF Spec, EndIsFinal

=============================================================================
