------------------------- MODULE AuthorizationProofs -------------------------
(***************************************************************************)
(* Theorems of Authorization, for every number of processes, transactions, *)
(* sessions and applications and every set of replacements: what was       *)
(* decided still holds when it is acted on, some transaction always has    *)
(* the locks it waits for, and replacing bindings keeps the promise of     *)
(* BindingRegister.                                                        *)
(***************************************************************************)
EXTENDS Authorization, TLAPS

(***************************************************************************)
(* The inductive invariant: what a call knows by the locks it holds, and   *)
(* that the locks of two calls are compatible.                             *)
(***************************************************************************)

\* What was asked, and by whom.
Asked(c) ==
    /\ call[c].pc = "idle" => call[c].kind = "authorize"
    /\ call[c].pc # "idle" =>
          /\ call[c].answer = "NONE"
          /\ call[c].session \in SessionIds
          /\ call[c].kind # "authorize" => call[c].app \in Applications
          /\ call[c].kind = "replace" => call[c].ask \in Requests
          /\ call[c].kind = "publish" => call[c].capability = "PUBLISH"
    /\ call[c].pc \in {"advisory", "upgrade"} => call[c].kind = "publish"

\* What was read under a lock is still so while the lock is held.
PolicyIsRead(c) ==
    call[c].pc \in {"session", "application", "decide", "upgrade"} => policy # {}
SessionIsLocked(c) ==
    call[c].pc \in {"application", "decide", "upgrade"} =>
        /\ session[call[c].session].state = "live"
        /\ call[c].observed < session[call[c].session].expires
ApplicationIsLocked(c) ==
    call[c].pc \in {"decide", "upgrade"} /\ Found(c) =>
        /\ call[c].app \in exists
        /\ call[c].version = bound[call[c].app].version
PublishIsAllowed(c) ==
    call[c].pc = "upgrade" => Found(c) /\ Allows("PUBLISH", TRUE, Role(c))

CallOK(c) ==
    /\ Asked(c)
    /\ PolicyIsRead(c)
    /\ SessionIsLocked(c)
    /\ ApplicationIsLocked(c)
    /\ PublishIsAllowed(c)

\* The advisory lock is exclusive, the application's row is shared or not.
LocksAgree(c, d) ==
    \A a \in Applications :
        /\ ~(HoldsAdvisory(c, a) /\ HoldsAdvisory(d, a))
        /\ HoldsApplication(c, a) /\ HoldsApplication(d, a)
              => ~Exclusive(c) /\ ~Exclusive(d)

AuthorizationIndInv ==
    /\ AuthorizationTypeOK
    /\ OneConfigurationServes
    /\ \A c \in Calls : CallOK(c)
    /\ \A c, d \in Calls : c # d => LocksAgree(c, d)

-----------------------------------------------------------------------------
LEMMA TypesOf ==
    ASSUME AuthorizationIndInv
    PROVE  /\ clock \in 1..MaxClock /\ clock \in Nat
           /\ policy \in Configurations \cup {{}}
           /\ process \in [Processes -> {"down", "initialized", "ready"}]
           /\ session \in [SessionIds -> [state : {"unborn", "live", "ended"}, expires : Nat]]
           /\ exists \subseteq Applications
           /\ bound \in [Applications -> [version : 1..MaxVersion, bindings : Desired]]
           /\ request \in [Applications \X Actors \X Keys ->
                 [outcome : {"NONE", "APPLIED", "VERSION_CONFLICT"},
                  expected : 0..MaxVersion, desired : Desired, version : 0..MaxVersion]]
           /\ call \in [Calls -> Call]
           /\ MaxVersion \in Nat
BY AuthorizationAssumption DEF AuthorizationIndInv, AuthorizationTypeOK

LEMMA NoCallIsCall == NoCall \in Call
BY DEF NoCall, Call, Capabilities, Answers

-----------------------------------------------------------------------------
(***************************************************************************)
(* Steps of the rows, whose locks nobody holds, and of the processes.      *)
(***************************************************************************)
\* Nothing that a call knows has changed.
LEMMA RowStep ==
    ASSUME AuthorizationIndInv, AuthorizationTypeOK', OneConfigurationServes',
           UNCHANGED <<bound, call>>,
           policy = {} \/ policy' = policy,
           exists \subseteq exists',
           \A s \in SessionIds :
              (\E c \in Calls : HoldsSession(c, s)) => session'[s] = session[s]
    PROVE  AuthorizationIndInv'
<1>1. ASSUME NEW c \in Calls PROVE CallOK(c)'
    <2>1. CallOK(c)
        BY DEF AuthorizationIndInv
    <2>2. Asked(c)'
        BY <2>1 DEF CallOK, Asked
    <2>3. PolicyIsRead(c)'
        BY <2>1 DEF CallOK, PolicyIsRead
    <2>4. SessionIsLocked(c)'
        BY <2>1 DEF CallOK, SessionIsLocked, Asked, HoldsSession
    <2>5. ApplicationIsLocked(c)'
        BY <2>1 DEF CallOK, ApplicationIsLocked, Found
    <2>6. PublishIsAllowed(c)'
        <3> SUFFICES ASSUME call[c].pc = "upgrade"
                     PROVE  Found(c)' /\ Allows("PUBLISH", TRUE, Role(c)')
            BY DEF PublishIsAllowed
        <3>1. policy' = policy
            BY <2>1 DEF CallOK, PolicyIsRead
        <3>2. Role(c)' = Role(c)
            BY <3>1 DEF Role, RoleOf
        <3> QED
            BY <2>1, <3>2 DEF CallOK, PublishIsAllowed, Found
    <2> QED
        BY <2>2, <2>3, <2>4, <2>5, <2>6 DEF CallOK
<1>2. ASSUME NEW c \in Calls, NEW d \in Calls, c # d PROVE LocksAgree(c, d)'
    BY <1>2 DEF AuthorizationIndInv, LocksAgree, HoldsAdvisory, HoldsApplication, Exclusive,
       Found
<1> QED
    BY <1>1, <1>2 DEF AuthorizationIndInv

LEMMA ProcessKeeps ==
    ASSUME AuthorizationIndInv, NEW p \in Processes,
           InitializePolicy(p) \/ VerifyReady(p) \/ Stop(p)
    PROVE  AuthorizationIndInv'
<1>1. /\ UNCHANGED <<clock, session, exists, bound, request, call>>
      /\ process' \in [Processes -> {"down", "initialized", "ready"}]
      /\ policy' \in Configurations \cup {{}}
      /\ policy = {} \/ policy' = policy
    BY TypesOf DEF InitializePolicy, VerifyReady, Stop, Configurations
<1>2. AuthorizationTypeOK'
    BY <1>1 DEF AuthorizationIndInv, AuthorizationTypeOK
<1>3. OneConfigurationServes'
    <2> SUFFICES ASSUME NEW q \in Processes, process'[q] = "ready"
                 PROVE  Configuration[q] = policy'
        BY DEF OneConfigurationServes
    <2>1. process[q] = "ready" => Configuration[q] = policy /\ policy # {}
        BY AuthorizationAssumption
           DEF AuthorizationIndInv, OneConfigurationServes, Configurations
    <2> QED
        BY <1>1, <2>1, TypesOf DEF InitializePolicy, VerifyReady, Stop
<1> QED
    BY <1>1, <1>2, <1>3, RowStep

LEMMA SessionKeeps ==
    ASSUME AuthorizationIndInv, NEW s \in SessionIds, TouchSession(s) \/ EndSession(s)
    PROVE  AuthorizationIndInv'
<1>1. /\ UNCHANGED <<clock, policy, process, exists, bound, request, call>>
      /\ \A c \in Calls : ~HoldsSession(c, s)
    BY DEF TouchSession, EndSession
<1>2. PICK row \in [state : {"unborn", "live", "ended"}, expires : Nat] :
          session' = [session EXCEPT ![s] = row]
    <2>1. clock + Lifetime \in Nat
        BY TypesOf, AuthorizationAssumption
    <2> QED
        BY <2>1 DEF TouchSession, EndSession
<1>3. /\ session' \in [SessionIds -> [state : {"unborn", "live", "ended"}, expires : Nat]]
      /\ \A t \in SessionIds : t # s => session'[t] = session[t]
    BY <1>2, TypesOf
<1>4. AuthorizationTypeOK' /\ OneConfigurationServes'
    BY <1>1, <1>3 DEF AuthorizationIndInv, AuthorizationTypeOK, OneConfigurationServes
<1> QED
    BY <1>1, <1>3, <1>4, RowStep

LEMMA CreateApplicationKeeps ==
    ASSUME AuthorizationIndInv, NEW a \in Applications, CreateApplication(a)
    PROVE  AuthorizationIndInv'
<1>1. /\ UNCHANGED <<clock, policy, process, session, bound, request, call>>
      /\ exists' = exists \cup {a}
    BY DEF CreateApplication
<1>2. AuthorizationTypeOK' /\ OneConfigurationServes'
    BY <1>1 DEF AuthorizationIndInv, AuthorizationTypeOK, OneConfigurationServes
<1> QED
    BY <1>1, <1>2, RowStep

LEMMA TickKeeps ==
    ASSUME AuthorizationIndInv, Tick
    PROVE  AuthorizationIndInv'
<1>1. /\ UNCHANGED <<policy, process, session, exists, bound, request, call>>
      /\ clock < MaxClock /\ clock' = clock + 1
    BY DEF Tick
<1>2. clock' \in 1..MaxClock
    BY <1>1, TypesOf, AuthorizationAssumption
<1>3. AuthorizationTypeOK' /\ OneConfigurationServes'
    BY <1>1, <1>2 DEF AuthorizationIndInv, AuthorizationTypeOK, OneConfigurationServes
<1> QED
    BY <1>1, <1>3, RowStep

-----------------------------------------------------------------------------
(***************************************************************************)
(* Steps of one call that write no row.                                    *)
(***************************************************************************)
LEMMA CallStep ==
    ASSUME AuthorizationIndInv,
           UNCHANGED <<clock, policy, process, session, exists, bound, request>>,
           NEW c \in Calls, NEW new \in Call, call' = [call EXCEPT ![c] = new],
           CallOK(c)', \A d \in Calls \ {c} : LocksAgree(c, d)'
    PROVE  AuthorizationIndInv'
<1>1. /\ call' \in [Calls -> Call] /\ call'[c] = new
      /\ \A d \in Calls \ {c} : call'[d] = call[d]
    BY TypesOf
<1>2. AuthorizationTypeOK' /\ OneConfigurationServes'
    BY <1>1 DEF AuthorizationIndInv, AuthorizationTypeOK, OneConfigurationServes
<1>3. ASSUME NEW d \in Calls PROVE CallOK(d)'
    <2>1. CASE d = c
        BY <2>1
    <2>2. CASE d # c
        <3>1. call'[d] = call[d] /\ CallOK(d)
            BY <1>1, <2>2 DEF AuthorizationIndInv
        <3>2. Role(d)' = Role(d)
            BY <3>1 DEF Role, RoleOf
        <3>3. Found(d)' <=> Found(d)
            BY <3>1 DEF Found
        <3>4. Asked(d)' /\ PolicyIsRead(d)' /\ SessionIsLocked(d)'
            BY <3>1 DEF CallOK, Asked, PolicyIsRead, SessionIsLocked
        <3>5. ApplicationIsLocked(d)'
            BY <3>1, <3>3 DEF CallOK, ApplicationIsLocked
        <3>6. PublishIsAllowed(d)'
            BY <3>1, <3>2, <3>3 DEF CallOK, PublishIsAllowed
        <3> QED
            BY <3>4, <3>5, <3>6 DEF CallOK
    <2> QED
        BY <2>1, <2>2
<1>4. ASSUME NEW d \in Calls, NEW e \in Calls, d # e PROVE LocksAgree(d, e)'
    <2>1. CASE d = c
        BY <1>4, <2>1
    <2>2. CASE e = c
        <3>1. LocksAgree(c, d)'
            BY <1>4, <2>2
        <3> QED
            BY <2>2, <3>1 DEF LocksAgree
    <2>3. CASE d # c /\ e # c
        BY <1>1, <1>4, <2>3
           DEF AuthorizationIndInv, LocksAgree, HoldsAdvisory, HoldsApplication, Exclusive, Found
    <2> QED
        BY <2>1, <2>2, <2>3
<1> QED
    BY <1>2, <1>3, <1>4 DEF AuthorizationIndInv

\* A call that takes no lock on an application.
LEMMA LocksStay ==
    ASSUME AuthorizationIndInv, NEW c \in Calls, NEW new,
           call' = [call EXCEPT ![c] = new],
           \A a \in Applications :
              /\ HoldsAdvisory(c, a)' => HoldsAdvisory(c, a)
              /\ HoldsApplication(c, a)' =>
                    HoldsApplication(c, a) /\ (Exclusive(c)' <=> Exclusive(c))
    PROVE  \A d \in Calls \ {c} : LocksAgree(c, d)'
<1>1. \A d \in Calls \ {c} : call'[d] = call[d]
    BY TypesOf
<1> QED
    BY <1>1 DEF AuthorizationIndInv, LocksAgree, HoldsAdvisory, HoldsApplication, Exclusive,
       Found

\* The end of a call.
LEMMA EndIs ==
    ASSUME AuthorizationIndInv, NEW c \in Calls, NEW answer \in Answers, NEW version \in Nat,
           End(c, answer, version)
    PROVE  \E new \in Call :
              /\ call' = [call EXCEPT ![c] = new]
              /\ new.pc = "idle" /\ new.kind = "authorize"
              /\ new.answer = answer /\ new.version = version
<1> DEFINE new == [NoCall EXCEPT !.answer = answer, !.version = version]
<1>1. new \in Call
    BY NoCallIsCall DEF Call
<1>2. /\ new.pc = "idle" /\ new.kind = "authorize"
      /\ new.answer = answer /\ new.version = version
    BY DEF NoCall
<1>3. call' = [call EXCEPT ![c] = new]
    BY DEF End
<1> QED
    BY <1>1, <1>2, <1>3

LEMMA EndKeeps ==
    ASSUME AuthorizationIndInv,
           UNCHANGED <<clock, policy, process, session, exists, bound, request>>,
           NEW c \in Calls, NEW answer \in Answers, NEW version \in Nat,
           End(c, answer, version)
    PROVE  AuthorizationIndInv'
<1>1. PICK new \in Call : /\ call' = [call EXCEPT ![c] = new]
                          /\ new.pc = "idle" /\ new.kind = "authorize"
    BY EndIs
<1>2. call'[c] = new
    BY <1>1, TypesOf
<1>3. CallOK(c)'
    BY <1>1, <1>2 DEF CallOK, Asked, PolicyIsRead, SessionIsLocked, ApplicationIsLocked,
       PublishIsAllowed
<1>4. \A d \in Calls \ {c} : LocksAgree(c, d)'
    BY <1>1, <1>2 DEF LocksAgree, HoldsAdvisory, HoldsApplication
<1> QED
    BY <1>1, <1>3, <1>4, CallStep

LEMMA BeginKeeps ==
    ASSUME AuthorizationIndInv, NEW c \in Calls, NEW s \in SessionIds,
           NEW kind \in {"authorize", "publish", "replace"},
           NEW a \in Applications \cup {None}, NEW capability \in Capabilities,
           NEW ask \in Requests \cup {NoAsk},
           kind # "authorize" => a \in Applications,
           kind = "replace" => ask \in Requests,
           kind = "publish" => capability = "PUBLISH",
           Begin(c, kind, s, a, capability, ask)
    PROVE  AuthorizationIndInv'
<1> DEFINE pc == IF kind = "publish" THEN "advisory" ELSE "begin"
           some == [NoCall EXCEPT !.pc = pc, !.kind = kind, !.session = s]
           new == [some EXCEPT !.app = a, !.capability = capability, !.ask = ask]
<1>1. call' = [call EXCEPT ![c] = new]
    BY DEF Begin
<1>2. pc \in {"advisory", "begin"} /\ (pc = "advisory" <=> kind = "publish")
    OBVIOUS
<1> HIDE DEF pc
<1>3. /\ some \in Call /\ some.pc = pc /\ some.kind = kind /\ some.session = s
      /\ some.version = 0 /\ some.answer = "NONE"
    <2>1. some \in Call
        BY <1>2, NoCallIsCall DEF Call
    <2>2. /\ some.pc = pc /\ some.kind = kind /\ some.session = s
          /\ some.version = 0 /\ some.answer = "NONE"
        BY DEF NoCall
    <2> QED
        BY <2>1, <2>2
<1> HIDE DEF some
<1>4. /\ new \in Call /\ new.pc = pc /\ new.kind = kind /\ new.session = s
      /\ new.version = 0 /\ new.answer = "NONE" /\ new.app = a
      /\ new.capability = capability /\ new.ask = ask
    BY <1>3 DEF Call
<1> HIDE DEF new
<1>5. call'[c] = new
    BY <1>1, TypesOf
<1>6. CallOK(c)'
    <2>1. Asked(c)'
        BY <1>2, <1>4, <1>5 DEF Asked
    <2>2. /\ PolicyIsRead(c)' /\ SessionIsLocked(c)' /\ ApplicationIsLocked(c)'
          /\ PublishIsAllowed(c)'
        BY <1>2, <1>4, <1>5 DEF PolicyIsRead, SessionIsLocked, ApplicationIsLocked,
           PublishIsAllowed
    <2> QED
        BY <2>1, <2>2 DEF CallOK
<1>7. \A d \in Calls \ {c} : LocksAgree(c, d)'
    BY <1>2, <1>4, <1>5 DEF LocksAgree, HoldsAdvisory, HoldsApplication, Found
<1> QED
    BY <1>1, <1>4, <1>6, <1>7, CallStep DEF Begin

LEMMA BeginAnyKeeps ==
    ASSUME AuthorizationIndInv, NEW c \in Calls, NEW s \in SessionIds,
           \/ \E a \in Applications \cup {None}, capability \in Operations :
                 BeginAuthorize(c, s, a, capability)
           \/ \E a \in Applications, ask \in Requests : BeginReplace(c, s, a, ask)
           \/ \E a \in Applications : BeginPublish(c, s, a)
    PROVE  AuthorizationIndInv'
<1>1. ASSUME NEW a \in Applications \cup {None}, NEW capability \in Operations,
             BeginAuthorize(c, s, a, capability)
      PROVE  AuthorizationIndInv'
    <2>1. capability \in Capabilities /\ NoAsk \in Requests \cup {NoAsk}
        BY AuthorizationAssumption
    <2> QED
        BY <1>1, <2>1, BeginKeeps DEF BeginAuthorize
<1>2. ASSUME NEW a \in Applications, NEW ask \in Requests, BeginReplace(c, s, a, ask)
      PROVE  AuthorizationIndInv'
    BY <1>2, BeginKeeps DEF BeginReplace, Capabilities
<1>3. ASSUME NEW a \in Applications, BeginPublish(c, s, a)
      PROVE  AuthorizationIndInv'
    BY <1>3, BeginKeeps DEF BeginPublish, Capabilities
<1> QED
    BY <1>1, <1>2, <1>3

\* A call goes on to another step.
LEMMA StepIs ==
    ASSUME AuthorizationIndInv, NEW c \in Calls,
           NEW pc \in {"begin", "application", "upgrade"}, Step(c, pc)
    PROVE  \E new \in Call :
              /\ call' = [call EXCEPT ![c] = new] /\ call'[c] = new
              /\ new.pc = pc /\ new.kind = call[c].kind /\ new.session = call[c].session
              /\ new.app = call[c].app /\ new.capability = call[c].capability
              /\ new.ask = call[c].ask /\ new.observed = call[c].observed
              /\ new.version = call[c].version /\ new.answer = call[c].answer
<1> DEFINE new == [call[c] EXCEPT !.pc = pc]
<1>1. call[c] \in Call /\ call \in [Calls -> Call]
    BY TypesOf
<1>2. /\ new \in Call
      /\ new.pc = pc /\ new.kind = call[c].kind /\ new.session = call[c].session
      /\ new.app = call[c].app /\ new.capability = call[c].capability
      /\ new.ask = call[c].ask /\ new.observed = call[c].observed
      /\ new.version = call[c].version /\ new.answer = call[c].answer
    BY <1>1 DEF Call
<1>3. call' = [call EXCEPT ![c] = new]
    BY <1>1 DEF Step
<1> HIDE DEF new
<1>4. call'[c] = new
    BY <1>1, <1>3
<1> QED
    BY <1>2, <1>3, <1>4

LEMMA AdvisoryLockKeeps ==
    ASSUME AuthorizationIndInv, NEW c \in Calls, AdvisoryLock(c)
    PROVE  AuthorizationIndInv'
<1>1. /\ UNCHANGED <<clock, policy, process, session, exists, bound, request>>
      /\ call[c].pc = "advisory" /\ Step(c, "begin")
      /\ \A d \in Calls \ {c} : ~HoldsAdvisory(d, call[c].app)
    BY DEF AdvisoryLock
<1>2. PICK new \in Call :
          /\ call' = [call EXCEPT ![c] = new] /\ call'[c] = new
          /\ new.pc = "begin" /\ new.kind = call[c].kind /\ new.session = call[c].session
          /\ new.app = call[c].app /\ new.capability = call[c].capability
          /\ new.ask = call[c].ask /\ new.answer = call[c].answer
    BY <1>1, StepIs
<1>3. CallOK(c)'
    <2>1. Asked(c)'
        BY <1>1, <1>2 DEF AuthorizationIndInv, CallOK, Asked
    <2>2. /\ PolicyIsRead(c)' /\ SessionIsLocked(c)' /\ ApplicationIsLocked(c)'
          /\ PublishIsAllowed(c)'
        BY <1>2 DEF PolicyIsRead, SessionIsLocked, ApplicationIsLocked, PublishIsAllowed
    <2> QED
        BY <2>1, <2>2 DEF CallOK
<1>4. ASSUME NEW d \in Calls \ {c} PROVE LocksAgree(c, d)'
    <2>1. call'[d] = call[d] /\ ~HoldsAdvisory(d, call[c].app)
        BY <1>1, <1>2, TypesOf
    <2> QED
        BY <1>2, <2>1 DEF LocksAgree, HoldsAdvisory, HoldsApplication
<1> QED
    BY <1>1, <1>2, <1>3, <1>4, CallStep

LEMMA LockPolicyKeeps ==
    ASSUME AuthorizationIndInv, NEW c \in Calls, LockPolicy(c)
    PROVE  AuthorizationIndInv'
<1>1. /\ UNCHANGED <<clock, policy, process, session, exists, bound, request>>
      /\ call[c].pc = "begin"
    BY DEF LockPolicy
<1>2. CASE End(c, "NONE", 0)
    BY <1>1, <1>2, EndKeeps DEF Answers
<1>3. CASE policy # {} /\ call' = [call EXCEPT ![c].pc = "session", ![c].observed = clock]
    <2> DEFINE new == [call[c] EXCEPT !.pc = "session", !.observed = clock]
    <2>1. call[c] \in Call /\ call \in [Calls -> Call] /\ clock \in Nat
        BY TypesOf
    <2>2. /\ new \in Call
          /\ new.pc = "session" /\ new.kind = call[c].kind /\ new.session = call[c].session
          /\ new.app = call[c].app /\ new.capability = call[c].capability
          /\ new.ask = call[c].ask /\ new.answer = call[c].answer
        BY <2>1 DEF Call
    <2>3. call' = [call EXCEPT ![c] = new]
        BY <1>3, <2>1
    <2> HIDE DEF new
    <2>4. call'[c] = new
        BY <2>1, <2>3
    <2>5. CallOK(c)'
        <3>1. Asked(c)'
            BY <1>1, <2>2, <2>4 DEF AuthorizationIndInv, CallOK, Asked
        <3>2. PolicyIsRead(c)'
            BY <1>1, <1>3 DEF PolicyIsRead
        <3>3. SessionIsLocked(c)' /\ ApplicationIsLocked(c)' /\ PublishIsAllowed(c)'
            BY <2>2, <2>4 DEF SessionIsLocked, ApplicationIsLocked, PublishIsAllowed
        <3> QED
            BY <3>1, <3>2, <3>3 DEF CallOK
    <2>6. \A d \in Calls \ {c} : LocksAgree(c, d)'
        BY <1>1, <2>2, <2>3, <2>4, LocksStay DEF HoldsAdvisory, HoldsApplication
    <2> QED
        BY <1>1, <2>2, <2>3, <2>5, <2>6, CallStep
<1> QED
    BY <1>2, <1>3 DEF LockPolicy

LEMMA LockSessionKeeps ==
    ASSUME AuthorizationIndInv, NEW c \in Calls, LockSession(c)
    PROVE  AuthorizationIndInv'
<1>1. /\ UNCHANGED <<clock, policy, process, session, exists, bound, request>>
      /\ call[c].pc = "session"
    BY DEF LockSession
<1>2. CASE End(c, "NONE", 0)
    BY <1>1, <1>2, EndKeeps DEF Answers
<1>3. CASE /\ session[call[c].session].state = "live"
           /\ call[c].observed < session[call[c].session].expires
           /\ Step(c, "application")
    <2>1. PICK new \in Call :
              /\ call' = [call EXCEPT ![c] = new] /\ call'[c] = new
              /\ new.pc = "application" /\ new.kind = call[c].kind
              /\ new.session = call[c].session
              /\ new.app = call[c].app /\ new.capability = call[c].capability
              /\ new.ask = call[c].ask /\ new.observed = call[c].observed
              /\ new.answer = call[c].answer
        BY <1>3, StepIs
    <2>2. CallOK(c)'
        <3>1. Asked(c)'
            BY <1>1, <2>1 DEF AuthorizationIndInv, CallOK, Asked
        <3>2. PolicyIsRead(c)'
            BY <1>1 DEF AuthorizationIndInv, CallOK, PolicyIsRead
        <3>3. SessionIsLocked(c)'
            BY <1>1, <1>3, <2>1 DEF SessionIsLocked
        <3>4. ApplicationIsLocked(c)' /\ PublishIsAllowed(c)'
            BY <2>1 DEF ApplicationIsLocked, PublishIsAllowed
        <3> QED
            BY <3>1, <3>2, <3>3, <3>4 DEF CallOK
    <2>3. \A d \in Calls \ {c} : LocksAgree(c, d)'
        BY <1>1, <2>1, LocksStay DEF HoldsAdvisory, HoldsApplication
    <2> QED
        BY <1>1, <2>1, <2>2, <2>3, CallStep
<1> QED
    BY <1>2, <1>3 DEF LockSession

LEMMA LockApplicationKeeps ==
    ASSUME AuthorizationIndInv, NEW c \in Calls, LockApplication(c)
    PROVE  AuthorizationIndInv'
<1> DEFINE a == call[c].app
           version == IF a \in exists THEN bound[a].version ELSE 0
           new == [call[c] EXCEPT !.pc = "decide", !.version = version]
<1>1. /\ UNCHANGED <<clock, policy, process, session, exists, bound, request>>
      /\ call[c].pc = "application" /\ (a \in exists => Grantable(c, a))
      /\ call' = [call EXCEPT ![c].pc = "decide", ![c].version = version]
    BY DEF LockApplication
<1>2. /\ version \in Nat /\ (version # 0 => a \in exists /\ version = bound[a].version)
    BY TypesOf
<1> HIDE DEF version
<1>3. call[c] \in Call /\ call \in [Calls -> Call]
    BY TypesOf
<1>4. /\ new \in Call
      /\ new.pc = "decide" /\ new.kind = call[c].kind /\ new.session = call[c].session
      /\ new.app = a /\ new.capability = call[c].capability
      /\ new.ask = call[c].ask /\ new.observed = call[c].observed
      /\ new.answer = call[c].answer /\ new.version = version
    BY <1>2, <1>3 DEF Call
<1>5. call' = [call EXCEPT ![c] = new]
    BY <1>1, <1>3
<1> HIDE DEF new
<1>6. call'[c] = new
    BY <1>3, <1>5
<1>7. CallOK(c)'
    <2>1. Asked(c)'
        BY <1>1, <1>4, <1>6 DEF AuthorizationIndInv, CallOK, Asked
    <2>2. PolicyIsRead(c)'
        BY <1>1 DEF AuthorizationIndInv, CallOK, PolicyIsRead
    <2>3. SessionIsLocked(c)'
        BY <1>1, <1>4, <1>6 DEF AuthorizationIndInv, CallOK, SessionIsLocked
    <2>4. ApplicationIsLocked(c)'
        BY <1>1, <1>2, <1>4, <1>6 DEF ApplicationIsLocked, Found
    <2>5. PublishIsAllowed(c)'
        BY <1>4, <1>6 DEF PublishIsAllowed
    <2> QED
        BY <2>1, <2>2, <2>3, <2>4, <2>5 DEF CallOK
<1>8. ASSUME NEW d \in Calls \ {c} PROVE LocksAgree(c, d)'
    <2> SUFFICES ASSUME NEW b \in Applications
                 PROVE  /\ ~(HoldsAdvisory(c, b)' /\ HoldsAdvisory(d, b)')
                        /\ HoldsApplication(c, b)' /\ HoldsApplication(d, b)'
                              => ~Exclusive(c)' /\ ~Exclusive(d)'
        BY DEF LocksAgree
    <2>1. call'[d] = call[d]
        BY <1>3, <1>5
    <2>2. /\ HoldsAdvisory(c, b)' => HoldsAdvisory(c, b)
          /\ HoldsAdvisory(d, b)' => HoldsAdvisory(d, b)
        BY <1>1, <1>4, <1>6, <2>1 DEF HoldsAdvisory
    <2>3. ~(HoldsAdvisory(c, b) /\ HoldsAdvisory(d, b))
        BY DEF AuthorizationIndInv, LocksAgree
    <2>4. ASSUME HoldsApplication(c, b)', HoldsApplication(d, b)'
          PROVE  ~Exclusive(c)' /\ ~Exclusive(d)'
        <3>1. b = a /\ a \in exists
            BY <1>2, <1>4, <1>6, <2>4 DEF HoldsApplication, Found
        <3>2. HoldsApplication(d, b) /\ (Exclusive(d)' <=> Exclusive(d))
            BY <2>1, <2>4 DEF HoldsApplication, Found, Exclusive
        <3>3. ~Exclusive(c) /\ ~Exclusive(d)
            BY <1>1, <3>1, <3>2 DEF Grantable
        <3> QED
            BY <1>4, <1>6, <3>2, <3>3 DEF Exclusive
    <2> QED
        BY <2>2, <2>3, <2>4
<1> QED
    BY <1>1, <1>4, <1>5, <1>7, <1>8, CallStep

\* A publication is allowed only for an application that was found.
LEMMA AuthorizeKeeps ==
    ASSUME AuthorizationIndInv, NEW c \in Calls, Authorize(c)
    PROVE  AuthorizationIndInv'
<1>1. /\ UNCHANGED <<clock, policy, process, session, exists, bound, request>>
      /\ call[c].pc = "decide"
    BY DEF Authorize
<1>2. CASE End(c, "ALLOWED", 0) \/ End(c, "DENIED", 0)
    BY <1>1, <1>2, EndKeeps DEF Answers
<1>3. CASE /\ Allows(call[c].capability, Found(c), Role(c))
           /\ call[c].kind = "publish" /\ Step(c, "upgrade")
    <2>1. PICK new \in Call :
              /\ call' = [call EXCEPT ![c] = new] /\ call'[c] = new
              /\ new.pc = "upgrade" /\ new.kind = call[c].kind
              /\ new.session = call[c].session
              /\ new.app = call[c].app /\ new.capability = call[c].capability
              /\ new.ask = call[c].ask /\ new.observed = call[c].observed
              /\ new.answer = call[c].answer /\ new.version = call[c].version
        BY <1>3, StepIs
    <2>2. CallOK(c)
        BY DEF AuthorizationIndInv
    <2>3. Role(c)' = Role(c)
        BY <1>1, <2>1 DEF Role, RoleOf
    <2>4. Found(c)' <=> Found(c)
        BY <2>1 DEF Found
    <2>5. Found(c) /\ Allows("PUBLISH", TRUE, Role(c))
        <3>1. call[c].capability = "PUBLISH"
            BY <1>1, <1>3, <2>2 DEF CallOK, Asked
        <3> QED
            BY <1>3, <3>1 DEF Allows
    <2>6. CallOK(c)'
        <3>1. Asked(c)'
            BY <1>1, <1>3, <2>1, <2>2 DEF CallOK, Asked
        <3>2. PolicyIsRead(c)'
            BY <1>1, <2>2 DEF CallOK, PolicyIsRead
        <3>3. SessionIsLocked(c)'
            BY <1>1, <2>1, <2>2 DEF CallOK, SessionIsLocked
        <3>4. ApplicationIsLocked(c)'
            BY <1>1, <2>1, <2>2, <2>4 DEF CallOK, ApplicationIsLocked
        <3>5. PublishIsAllowed(c)'
            BY <2>3, <2>4, <2>5 DEF PublishIsAllowed
        <3> QED
            BY <3>1, <3>2, <3>3, <3>4, <3>5 DEF CallOK
    <2>7. \A d \in Calls \ {c} : LocksAgree(c, d)'
        BY <1>1, <2>1, LocksStay DEF HoldsAdvisory, HoldsApplication, Found, Exclusive
    <2> QED
        BY <1>1, <2>1, <2>6, <2>7, CallStep
<1> QED
    BY <1>2, <1>3 DEF Authorize

LEMMA EndsKeep ==
    ASSUME AuthorizationIndInv, NEW c \in Calls, Publish(c) \/ Abort(c)
    PROVE  AuthorizationIndInv'
BY EndKeeps DEF Publish, Abort, Answers

-----------------------------------------------------------------------------
(***************************************************************************)
(* The replacement of the bindings.                                        *)
(***************************************************************************)
LEMMA RequestKeyIs ==
    ASSUME AuthorizationIndInv, NEW c \in Calls, call[c].kind = "replace"
    PROVE  /\ call[c].app \in Applications /\ call[c].session \in SessionIds
           /\ call[c].ask \in Requests
           /\ RequestKey(c) = <<call[c].app, ActorOf[call[c].session], call[c].ask.key>>
           /\ RequestKey(c) \in Applications \X Actors \X Keys
           /\ call[c].ask.expected \in 1..MaxVersion /\ call[c].ask.desired \in Desired
           /\ call[c].ask.key \in Keys
<1>1. /\ call[c].app \in Applications /\ call[c].session \in SessionIds
      /\ call[c].ask \in Requests
    BY DEF AuthorizationIndInv, CallOK, Asked
<1>2. /\ ActorOf[call[c].session] \in Actors /\ call[c].ask.key \in Keys
      /\ call[c].ask.desired \in Desired
    BY <1>1 DEF Actors, Keys, Desired
<1>3. call[c].ask.expected \in 1..MaxVersion
    BY <1>1, AuthorizationAssumption
<1> QED
    BY <1>1, <1>2, <1>3 DEF RequestKey

\* A replacement that is refused, or answered as before, writes nothing.
LEMMA ReplaceQuietKeeps ==
    ASSUME AuthorizationIndInv, NEW c \in Calls, Replace(c), UNCHANGED <<bound, request>>,
           End(c, "DENIED", 0) \/ Replay(c)
    PROVE  AuthorizationIndInv'
<1>1. UNCHANGED <<clock, policy, process, session, exists>> /\ call[c].kind = "replace"
    BY DEF Replace
<1>2. CASE End(c, "DENIED", 0)
    BY <1>1, <1>2, EndKeeps DEF Answers
<1>3. CASE Replay(c)
    <2>1. /\ request[RequestKey(c)].outcome \in Answers
          /\ request[RequestKey(c)].version \in Nat
        BY <1>1, RequestKeyIs, TypesOf DEF Answers
    <2>2. "NONE" \in Answers
        BY DEF Answers
    <2> QED
        BY <1>1, <1>3, <2>1, <2>2, EndKeeps DEF Replay
<1> QED
    BY <1>2, <1>3

\* What a replacement that writes does.
LEMMA ReplaceWrites ==
    ASSUME AuthorizationIndInv, NEW c \in Calls, Replace(c), ~Denied(c),
           request[RequestKey(c)] = Unasked
    PROVE  /\ UNCHANGED <<clock, policy, process, session, exists>>
           /\ call[c].pc = "decide" /\ call[c].kind = "replace"
           /\ Found(c) /\ MayReplace(Role(c))
           /\ call[c].app \in exists /\ call[c].app \in Applications
           /\ call[c].version = bound[call[c].app].version
           /\ Replacement(c) \in [version : 1..MaxVersion, bindings : Desired]
           /\ bound' = [bound EXCEPT ![call[c].app] = Replacement(c)]
           /\ request' = [request EXCEPT ![RequestKey(c)] =
                 [outcome |-> Outcome(c), expected |-> call[c].ask.expected,
                  desired |-> call[c].ask.desired, version |-> Replacement(c).version]]
           /\ End(c, Outcome(c), Replacement(c).version)
           /\ Outcome(c) \in {"APPLIED", "VERSION_CONFLICT"}
<1>1. /\ UNCHANGED <<clock, policy, process, session, exists>>
      /\ call[c].pc = "decide" /\ call[c].kind = "replace"
      /\ Found(c) /\ MayReplace(Role(c))
      /\ Replacement(c).version <= MaxVersion
      /\ bound' = [bound EXCEPT ![call[c].app] = Replacement(c)]
      /\ request' = [request EXCEPT ![RequestKey(c)] =
            [outcome |-> Outcome(c), expected |-> call[c].ask.expected,
             desired |-> call[c].ask.desired, version |-> Replacement(c).version]]
      /\ End(c, Outcome(c), Replacement(c).version)
    BY DEF Replace, Denied
<1>2. /\ call[c].app \in exists /\ call[c].app \in Applications
      /\ call[c].version = bound[call[c].app].version
    BY <1>1, TypesOf DEF AuthorizationIndInv, CallOK, ApplicationIsLocked
<1>3. Replacement(c) \in [version : 1..MaxVersion, bindings : Desired]
    <2>1. bound[call[c].app] \in [version : 1..MaxVersion, bindings : Desired]
        BY <1>2, TypesOf
    <2>2. call[c].ask.desired \in Desired
        BY <1>1, RequestKeyIs
    <2>3. CASE Replacement(c) = bound[call[c].app]
        BY <2>1, <2>3
    <2>4. CASE Replacement(c) =
                  [version |-> bound[call[c].app].version + 1, bindings |-> call[c].ask.desired]
        <3>1. bound[call[c].app].version + 1 <= MaxVersion
            BY <1>1, <2>4
        <3>2. bound[call[c].app].version + 1 \in 1..MaxVersion
            BY <2>1, <3>1, TypesOf
        <3> QED
            BY <2>2, <2>4, <3>2
    <2> QED
        BY <2>3, <2>4 DEF Replacement
<1>4. Outcome(c) \in {"APPLIED", "VERSION_CONFLICT"}
    BY DEF Outcome
<1> QED
    BY <1>1, <1>2, <1>3, <1>4

\* Nobody else has read the bindings that it replaces.
LEMMA ReplaceWriteKeeps ==
    ASSUME AuthorizationIndInv, NEW c \in Calls, Replace(c), ~Denied(c),
           request[RequestKey(c)] = Unasked
    PROVE  AuthorizationIndInv'
<1> DEFINE a == call[c].app
           answered == [outcome |-> Outcome(c), expected |-> call[c].ask.expected,
                        desired |-> call[c].ask.desired, version |-> Replacement(c).version]
<1>1. /\ UNCHANGED <<clock, policy, process, session, exists>>
      /\ call[c].pc = "decide" /\ call[c].kind = "replace" /\ Found(c)
      /\ a \in exists /\ a \in Applications
      /\ Replacement(c) \in [version : 1..MaxVersion, bindings : Desired]
      /\ bound' = [bound EXCEPT ![a] = Replacement(c)]
      /\ request' = [request EXCEPT ![RequestKey(c)] = answered]
      /\ End(c, Outcome(c), Replacement(c).version)
      /\ Outcome(c) \in {"APPLIED", "VERSION_CONFLICT"}
    BY ReplaceWrites
<1>2. /\ RequestKey(c) = <<a, ActorOf[call[c].session], call[c].ask.key>>
      /\ RequestKey(c) \in Applications \X Actors \X Keys
      /\ call[c].ask.expected \in 1..MaxVersion /\ call[c].ask.desired \in Desired
    BY <1>1, RequestKeyIs
<1>3. PICK new \in Call : /\ call' = [call EXCEPT ![c] = new]
                          /\ new.pc = "idle" /\ new.kind = "authorize"
    <2>1. Outcome(c) \in Answers /\ Replacement(c).version \in Nat
        BY <1>1, TypesOf DEF Answers
    <2> QED
        BY <1>1, <2>1, EndIs
<1>4. /\ call' \in [Calls -> Call] /\ call'[c] = new
      /\ \A d \in Calls \ {c} : call'[d] = call[d]
    BY <1>3, TypesOf
<1>5. bound' \in [Applications -> [version : 1..MaxVersion, bindings : Desired]]
    BY <1>1, TypesOf
<1>6. answered \in [outcome : {"NONE", "APPLIED", "VERSION_CONFLICT"},
                    expected : 0..MaxVersion, desired : Desired, version : 0..MaxVersion]
    BY <1>1, <1>2, TypesOf
<1> HIDE DEF answered
<1>7. request' \in [Applications \X Actors \X Keys ->
          [outcome : {"NONE", "APPLIED", "VERSION_CONFLICT"},
           expected : 0..MaxVersion, desired : Desired, version : 0..MaxVersion]]
    BY <1>1, <1>6, TypesOf
<1>8. ASSUME NEW b \in Applications \ exists
      PROVE  /\ bound'[b].version = 1
             /\ \A k \in Actors \X Keys : request'[<<b, k[1], k[2]>>] = Unasked
    <2>1. b # a /\ bound'[b] = bound[b] /\ bound[b].version = 1
        BY <1>1, TypesOf DEF AuthorizationIndInv, AuthorizationTypeOK
    <2>2. ASSUME NEW k \in Actors \X Keys
          PROVE  request'[<<b, k[1], k[2]>>] = Unasked
        <3>1. request[<<b, k[1], k[2]>>] = Unasked
            BY DEF AuthorizationIndInv, AuthorizationTypeOK
        <3>2. <<b, k[1], k[2]>> # RequestKey(c)
            BY <1>2, <2>1
        <3>3. <<b, k[1], k[2]>> \in Applications \X Actors \X Keys
            OBVIOUS
        <3> QED
            BY <1>1, <3>1, <3>2, <3>3, TypesOf
    <2> QED
        BY <2>1, <2>2
<1>9. AuthorizationTypeOK'
    BY <1>1, <1>4, <1>5, <1>7, <1>8 DEF AuthorizationIndInv, AuthorizationTypeOK
<1>10. OneConfigurationServes'
    BY <1>1 DEF AuthorizationIndInv, OneConfigurationServes
<1>11. ASSUME NEW d \in Calls PROVE CallOK(d)'
    <2>1. CASE d = c
        BY <1>3, <1>4, <2>1 DEF CallOK, Asked, PolicyIsRead, SessionIsLocked,
           ApplicationIsLocked, PublishIsAllowed
    <2>2. CASE d # c
        <3>1. call'[d] = call[d] /\ CallOK(d)
            BY <1>4, <2>2 DEF AuthorizationIndInv
        <3>2. Found(d)' <=> Found(d)
            BY <3>1 DEF Found
        <3>3. call[d].pc \in {"decide", "upgrade"} /\ Found(d) => call[d].app # a
            <4>1. LocksAgree(c, d)
                BY <2>2 DEF AuthorizationIndInv
            <4> QED
                BY <1>1, <4>1 DEF LocksAgree, HoldsApplication, Exclusive
        <3>4. ASSUME call[d].pc = "upgrade" PROVE Role(d)' = Role(d)
            <4>1. call[d].app # a /\ call[d].app \in Applications
                BY <3>1, <3>3, <3>4 DEF CallOK, PublishIsAllowed, Asked
            <4>2. bound'[call[d].app] = bound[call[d].app]
                BY <1>1, <4>1, TypesOf
            <4> QED
                BY <1>1, <3>1, <4>1, <4>2 DEF Role, RoleOf
        <3>5. Asked(d)' /\ PolicyIsRead(d)' /\ SessionIsLocked(d)'
            BY <1>1, <3>1 DEF CallOK, Asked, PolicyIsRead, SessionIsLocked
        <3>6. ApplicationIsLocked(d)'
            BY <1>1, <3>1, <3>2, <3>3, TypesOf DEF CallOK, ApplicationIsLocked
        <3>7. PublishIsAllowed(d)'
            BY <3>1, <3>2, <3>4 DEF CallOK, PublishIsAllowed
        <3> QED
            BY <3>5, <3>6, <3>7 DEF CallOK
    <2> QED
        BY <2>1, <2>2
<1>12. ASSUME NEW d \in Calls, NEW e \in Calls, d # e PROVE LocksAgree(d, e)'
    <2>1. \A f \in Calls : call'[f] = call[f] \/ call'[f].pc = "idle"
        BY <1>3, <1>4
    <2>2. LocksAgree(d, e)
        BY <1>12 DEF AuthorizationIndInv
    <2> QED
        BY <2>1, <2>2 DEF LocksAgree, HoldsAdvisory, HoldsApplication, Exclusive, Found
<1> QED
    BY <1>9, <1>10, <1>11, <1>12 DEF AuthorizationIndInv

LEMMA ReplaceKeeps ==
    ASSUME AuthorizationIndInv, NEW c \in Calls, Replace(c)
    PROVE  AuthorizationIndInv'
<1>1. CASE Denied(c)
    BY <1>1, ReplaceQuietKeeps DEF Replace
<1>2. CASE ~Denied(c) /\ request[RequestKey(c)] # Unasked
    BY <1>2, ReplaceQuietKeeps DEF Replace
<1>3. CASE ~Denied(c) /\ request[RequestKey(c)] = Unasked
    BY <1>3, ReplaceWriteKeeps
<1> QED
    BY <1>1, <1>2, <1>3

-----------------------------------------------------------------------------
(***************************************************************************)
(* The theorems.                                                           *)
(***************************************************************************)
LEMMA InitInOrder == Init => AuthorizationIndInv
<1> SUFFICES ASSUME Init PROVE AuthorizationIndInv
    OBVIOUS
<1>1. /\ clock = 1 /\ policy = {} /\ process = [p \in Processes |-> "down"]
      /\ session = [s \in SessionIds |-> [state |-> "unborn", expires |-> 0]]
      /\ exists = {}
      /\ bound = [a \in Applications |-> [version |-> 1, bindings |-> <<>>]]
      /\ request = [k \in Applications \X Actors \X Keys |-> Unasked]
      /\ call = [c \in Calls |-> NoCall]
    BY DEF Init
<1>2. AuthorizationTypeOK
    <2>1. clock \in 1..MaxClock /\ 1 \in 1..MaxVersion /\ 0 \in 0..MaxVersion
        BY <1>1, AuthorizationAssumption
    <2>2. <<>> \in Desired
        BY DEF Desired
    <2>3. call \in [Calls -> Call]
        BY <1>1, NoCallIsCall
    <2>4. bound \in [Applications -> [version : 1..MaxVersion, bindings : Desired]]
        BY <1>1, <2>1, <2>2
    <2>5. request \in [Applications \X Actors \X Keys ->
              [outcome : {"NONE", "APPLIED", "VERSION_CONFLICT"},
               expected : 0..MaxVersion, desired : Desired, version : 0..MaxVersion]]
        BY <1>1, <2>1, <2>2 DEF Unasked
    <2>6. ASSUME NEW a \in Applications
          PROVE  /\ bound[a].version = 1
                 /\ \A k \in Actors \X Keys : request[<<a, k[1], k[2]>>] = Unasked
        <3>1. \A k \in Actors \X Keys : <<a, k[1], k[2]>> \in Applications \X Actors \X Keys
            OBVIOUS
        <3> QED
            BY <1>1, <3>1
    <2> QED
        BY <1>1, <2>1, <2>3, <2>4, <2>5, <2>6 DEF AuthorizationTypeOK
<1>3. OneConfigurationServes
    BY <1>1 DEF OneConfigurationServes
<1>4. ASSUME NEW c \in Calls
      PROVE  call[c].pc = "idle" /\ call[c].kind = "authorize"
    BY <1>1 DEF NoCall
<1>5. \A c \in Calls : CallOK(c)
    BY <1>4 DEF CallOK, Asked, PolicyIsRead, SessionIsLocked, ApplicationIsLocked,
       PublishIsAllowed
<1>6. \A c, d \in Calls : LocksAgree(c, d)
    BY <1>4 DEF LocksAgree, HoldsAdvisory, HoldsApplication
<1> QED
    BY <1>2, <1>3, <1>5, <1>6 DEF AuthorizationIndInv

LEMMA NextKeeps == AuthorizationIndInv /\ [Next]_vars => AuthorizationIndInv'
<1> SUFFICES ASSUME AuthorizationIndInv, [Next]_vars PROVE AuthorizationIndInv'
    OBVIOUS
<1>1. CASE \E p \in Processes : InitializePolicy(p) \/ VerifyReady(p) \/ Stop(p)
    BY <1>1, ProcessKeeps
<1>2. CASE \E s \in SessionIds : TouchSession(s) \/ EndSession(s)
    BY <1>2, SessionKeeps
<1>3. CASE \E a \in Applications : CreateApplication(a)
    BY <1>3, CreateApplicationKeeps
<1>4. ASSUME NEW c \in Calls, NEW s \in SessionIds,
             \/ \E a \in Applications \cup {None}, capability \in Operations :
                   BeginAuthorize(c, s, a, capability)
             \/ \E a \in Applications, ask \in Requests : BeginReplace(c, s, a, ask)
             \/ \E a \in Applications : BeginPublish(c, s, a)
      PROVE  AuthorizationIndInv'
    BY <1>4, BeginAnyKeeps
<1>5. CASE \E c \in Calls : AdvisoryLock(c) \/ LockPolicy(c) \/ LockSession(c)
    BY <1>5, AdvisoryLockKeeps, LockPolicyKeeps, LockSessionKeeps
<1>6. CASE \E c \in Calls : LockApplication(c) \/ Authorize(c) \/ Publish(c) \/ Abort(c)
    BY <1>6, LockApplicationKeeps, AuthorizeKeeps, EndsKeep
<1>7. CASE \E c \in Calls : Replace(c)
    BY <1>7, ReplaceKeeps
<1>8. CASE Tick
    BY <1>8, TickKeeps
<1>9. CASE UNCHANGED vars
    <2>1. AuthorizationTypeOK' /\ OneConfigurationServes'
        BY <1>9 DEF vars, AuthorizationIndInv, AuthorizationTypeOK, OneConfigurationServes
    <2> QED
        BY <1>9, <2>1, RowStep DEF vars
<1> QED
    BY <1>1, <1>2, <1>3, <1>4, <1>5, <1>6, <1>7, <1>8, <1>9 DEF Next

\* What calls know by their locks, and that the locks held are compatible
\* (v2_authorize_operation, v2_replace_bindings, v2_request_publication).
THEOREM AuthorizationIndInvHolds == Spec => []AuthorizationIndInv
BY InitInOrder, NextKeeps, PTL DEF Spec

\* The policy, the bindings and the session that a decision was made on are as they were
\* when it is acted on, and only processes of one configuration serve.
THEOREM WhatWasDecidedHolds == Spec => []DecisionsHold
<1>1. ASSUME AuthorizationIndInv PROVE DecisionsHold
    <2>1. \A c \in Calls : CallOK(c)
        BY <1>1 DEF AuthorizationIndInv
    <2>2. VersionReadIsCurrent
        BY <2>1 DEF VersionReadIsCurrent, CallOK, ApplicationIsLocked
    <2>3. PublishedUnderAuthority
        BY <2>1 DEF PublishedUnderAuthority, CallOK, PublishIsAllowed, SessionIsLocked,
           ApplicationIsLocked
    <2> QED
        BY <1>1, <2>2, <2>3 DEF AuthorizationIndInv, DecisionsHold
<1> QED
    BY <1>1, AuthorizationIndInvHolds, PTL

\* However many calls wait for the advisory locks and the rows of applications, one of
\* them has what it waits for: the advisory lock keeps two publications from holding the
\* application's row FOR SHARE when both ask for it FOR UPDATE.
THEOREM SomeCallProceeds == Spec => []NoDeadlock
<1>1. ASSUME AuthorizationIndInv PROVE NoDeadlock
    <2> SUFFICES ASSUME NEW b \in Calls, call[b].pc # "idle"
                 PROVE  \E c \in Calls : CanProceed(c)
        BY DEF NoDeadlock
    <2>1. \A c \in Calls : CallOK(c) /\ call[c] \in Call
        BY <1>1, TypesOf DEF AuthorizationIndInv
    <2>2. CASE \E c \in Calls : call[c].pc \in {"begin", "session", "decide"}
        BY <2>2 DEF CanProceed
    <2>3. ASSUME NEW c \in Calls, call[c].pc = "upgrade",
                 \A d \in Calls : call[d].pc \notin {"begin", "session", "decide"}
          PROVE  CanProceed(c)
        <3> SUFFICES ASSUME NEW d \in Calls \ {c}, HoldsApplication(d, call[c].app)
                     PROVE  FALSE
            BY <2>3 DEF CanProceed
        <3>1. /\ call[d].pc = "upgrade" /\ call[d].app = call[c].app
              /\ call[c].kind = "publish" /\ call[d].kind = "publish"
              /\ call[c].app \in Applications
            BY <2>1, <2>3 DEF HoldsApplication, CallOK, Asked
        <3>2. HoldsAdvisory(c, call[c].app) /\ HoldsAdvisory(d, call[c].app)
            BY <2>3, <3>1 DEF HoldsAdvisory
        <3> QED
            BY <1>1, <3>1, <3>2 DEF AuthorizationIndInv, LocksAgree
    <2>4. ASSUME NEW c \in Calls, call[c].pc = "application",
                 \A d \in Calls : call[d].pc \notin {"decide", "upgrade"}
          PROVE  CanProceed(c)
        BY <2>4 DEF CanProceed, Grantable, HoldsApplication
    <2>5. ASSUME \A d \in Calls : call[d].pc \in {"idle", "advisory"}
          PROVE  CanProceed(b)
        BY <2>5 DEF CanProceed, HoldsAdvisory
    <2>6. \A c \in Calls : call[c].pc \in
              {"idle", "advisory", "begin", "session", "application", "decide", "upgrade"}
        BY <2>1 DEF Call
    <2> QED
        BY <2>2, <2>3, <2>4, <2>5, <2>6
<1> QED
    BY <1>1, AuthorizationIndInvHolds, PTL

-----------------------------------------------------------------------------
\* Only a replacement is answered with its outcome.
LEMMA OnlyReplaceAnswers ==
    ASSUME AuthorizationIndInv, Next, NEW c \in Calls, call[c].pc # "idle",
           call'[c].answer \in {"APPLIED", "VERSION_CONFLICT"}
    PROVE  Replace(c)
<1>1. call[c].answer = "NONE" /\ call \in [Calls -> Call]
    BY TypesOf DEF AuthorizationIndInv, CallOK, Asked
<1>2. ASSUME call'[c] = call[c] PROVE FALSE
    BY <1>1, <1>2
<1>3. ASSUME NEW d \in Calls, NEW new, call' = [call EXCEPT ![d] = new], d # c
      PROVE  FALSE
    BY <1>1, <1>2, <1>3
<1>4. ASSUME NEW d \in Calls, NEW answer \in {"NONE", "ALLOWED", "DENIED"},
             End(d, answer, 0)
      PROVE  FALSE
    <2>1. PICK new \in Call : call' = [call EXCEPT ![d] = new] /\ new.answer = answer
        BY <1>4, EndIs DEF Answers
    <2> QED
        BY <1>1, <1>3, <2>1
<1>5. ASSUME NEW d \in Calls, NEW pc \in {"begin", "application", "upgrade"}, Step(d, pc)
      PROVE  FALSE
    <2>1. PICK new \in Call :
              call' = [call EXCEPT ![d] = new] /\ call'[d] = new /\ new.answer = call[d].answer
        BY <1>5, StepIs
    <2> QED
        BY <1>1, <1>3, <2>1
<1>6. ASSUME UNCHANGED call PROVE FALSE
    BY <1>2, <1>6
<1>7. ASSUME \/ \E p \in Processes : InitializePolicy(p) \/ VerifyReady(p) \/ Stop(p)
             \/ \E s \in SessionIds : TouchSession(s) \/ EndSession(s)
             \/ \E a \in Applications : CreateApplication(a)
             \/ Tick
      PROVE  FALSE
    BY <1>6, <1>7 DEF InitializePolicy, VerifyReady, Stop, TouchSession, EndSession,
       CreateApplication, Tick
<1>8. ASSUME NEW d \in Calls, NEW kind, NEW s, NEW a, NEW capability, NEW ask,
             Begin(d, kind, s, a, capability, ask)
      PROVE  FALSE
    <2>1. d # c
        BY <1>8 DEF Begin
    <2> QED
        BY <1>3, <1>8, <2>1 DEF Begin
<1>9. ASSUME NEW d \in Calls, LockPolicy(d) PROVE FALSE
    <2>1. CASE End(d, "NONE", 0)
        BY <1>4, <2>1
    <2>2. CASE call' = [call EXCEPT ![d].pc = "session", ![d].observed = clock]
        <3>1. call'[c].answer = call[c].answer
            BY <1>1, <2>2 DEF Call
        <3> QED
            BY <1>1, <3>1
    <2> QED
        BY <1>9, <2>1, <2>2 DEF LockPolicy
<1>10. ASSUME NEW d \in Calls, LockApplication(d) PROVE FALSE
    <2>1. PICK version : call' = [call EXCEPT ![d].pc = "decide", ![d].version = version]
        BY <1>10 DEF LockApplication
    <2>2. call'[c].answer = call[c].answer
        BY <1>1, <2>1 DEF Call
    <2> QED
        BY <1>1, <2>2
<1>11. ASSUME NEW d \in Calls,
              \/ AdvisoryLock(d) \/ LockSession(d) \/ Authorize(d)
              \/ Publish(d) \/ Abort(d)
       PROVE  FALSE
    BY <1>4, <1>5, <1>11 DEF AdvisoryLock, LockSession, Authorize, Publish, Abort
<1>12. ASSUME NEW d \in Calls, Replace(d), d # c PROVE FALSE
    <2>1. \E answer, version : End(d, answer, version)
        BY <1>12 DEF Replace, Replay
    <2> QED
        BY <1>3, <1>12, <2>1 DEF End
<1> QED
    BY <1>7, <1>8, <1>9, <1>10, <1>11, <1>12
       DEF Next, BeginAuthorize, BeginReplace, BeginPublish

\* What a replacement answers is the outcome that is recorded, to who may replace now.
LEMMA ReplaceAnswers ==
    ASSUME AuthorizationIndInv, NEW c \in Calls, Replace(c),
           call'[c].answer \in {"APPLIED", "VERSION_CONFLICT"}
    PROVE  /\ MayReplace(Role(c))
           /\ request'[RequestKey(c)] =
                 [outcome |-> call'[c].answer, version |-> call'[c].version,
                  expected |-> call[c].ask.expected, desired |-> call[c].ask.desired]
<1>1. call[c].kind = "replace"
    BY DEF Replace
<1>2. ASSUME NEW answer \in Answers, NEW version \in Nat, End(c, answer, version)
      PROVE  call'[c].answer = answer /\ call'[c].version = version
    <2>1. PICK new \in Call : /\ call' = [call EXCEPT ![c] = new]
                              /\ new.answer = answer /\ new.version = version
        BY <1>2, EndIs
    <2> QED
        BY <2>1, TypesOf
<1>3. ~Denied(c)
    <2> SUFFICES ASSUME End(c, "DENIED", 0) PROVE FALSE
        BY DEF Replace
    <2>1. call'[c].answer = "DENIED"
        BY <1>2 DEF Answers
    <2> QED
        BY <2>1
<1>4. CASE request[RequestKey(c)] = Unasked
    <2>1. /\ MayReplace(Role(c))
          /\ Replacement(c) \in [version : 1..MaxVersion, bindings : Desired]
          /\ request' = [request EXCEPT ![RequestKey(c)] =
                [outcome |-> Outcome(c), expected |-> call[c].ask.expected,
                 desired |-> call[c].ask.desired, version |-> Replacement(c).version]]
          /\ End(c, Outcome(c), Replacement(c).version)
          /\ Outcome(c) \in {"APPLIED", "VERSION_CONFLICT"}
        BY <1>3, <1>4, ReplaceWrites
    <2>2. call'[c].answer = Outcome(c) /\ call'[c].version = Replacement(c).version
        BY <1>2, <2>1, TypesOf DEF Answers
    <2>3. RequestKey(c) \in Applications \X Actors \X Keys
        BY <1>1, RequestKeyIs
    <2> QED
        BY <2>1, <2>2, <2>3, TypesOf
<1>5. CASE request[RequestKey(c)] # Unasked
    <2>1. Replay(c) /\ UNCHANGED request /\ MayReplace(Role(c))
        BY <1>3, <1>5 DEF Replace, Denied
    <2> DEFINE prior == request[RequestKey(c)]
    <2>2. prior \in [outcome : {"NONE", "APPLIED", "VERSION_CONFLICT"},
                     expected : 0..MaxVersion, desired : Desired, version : 0..MaxVersion]
        BY <1>1, RequestKeyIs, TypesOf
    <2>3. /\ prior.desired = call[c].ask.desired /\ prior.expected = call[c].ask.expected
          /\ End(c, prior.outcome, prior.version)
        <3> SUFFICES ASSUME End(c, "NONE", 0) PROVE FALSE
            BY <2>1 DEF Replay
        <3>1. call'[c].answer = "NONE"
            BY <1>2 DEF Answers
        <3> QED
            BY <3>1
    <2>4. call'[c].answer = prior.outcome /\ call'[c].version = prior.version
        <3>1. prior.outcome \in Answers /\ prior.version \in Nat
            BY <2>2, TypesOf DEF Answers
        <3> QED
            BY <1>2, <2>3, <3>1
    <2> QED
        BY <2>1, <2>2, <2>3, <2>4
<1> QED
    BY <1>4, <1>5

\* A replacement that is sent again is answered as it was recorded, and only to an actor
\* who may replace the bindings as they are now, whoever replaced them in the meantime
\* (v2_replace_bindings authorizes before it looks the key up).
THEOREM RepeatsAnswered == Spec => RepeatsAreAnswered
<1>1. AuthorizationIndInv /\ [Next]_vars =>
          [\A c \in Calls :
              call[c].pc = "decide" /\ call'[c].answer \in {"APPLIED", "VERSION_CONFLICT"}
                => MayReplace(Role(c))]_vars
    BY OnlyReplaceAnswers, ReplaceAnswers
<1>2. AuthorizationIndInv /\ [Next]_vars =>
          [\A c \in Calls :
              call[c].kind = "replace" /\ call'[c].answer \in {"APPLIED", "VERSION_CONFLICT"}
                => request'[RequestKey(c)] =
                     [outcome |-> call'[c].answer, version |-> call'[c].version,
                      expected |-> call[c].ask.expected,
                      desired |-> call[c].ask.desired]]_vars
    <2>1. AuthorizationIndInv =>
              \A c \in Calls : call[c].kind = "replace" => call[c].pc # "idle"
        BY DEF AuthorizationIndInv, CallOK, Asked
    <2> QED
        BY <2>1, OnlyReplaceAnswers, ReplaceAnswers
<1> QED
    BY <1>1, <1>2, AuthorizationIndInvHolds, PTL
       DEF Spec, RepeatsAreAnswered, AuthorizesBeforeReplay, AnswersAgree

\* The calls together keep the promise of BindingRegister: a set of bindings is replaced
\* in one step, by who may replace that very set, naming its version, and what was asked
\* under a key happens once.
THEOREM CallsImplementRegister == Spec => ImplementsRegister
<1>1. Init => Register!BInit
    BY DEF Init, Register!BInit, Register!Unasked, Register!Keys, Unasked, Keys
<1>2. AuthorizationIndInv /\ [Next]_vars => [Register!BNext]_<<policy, bound, request>>
    <2> SUFFICES ASSUME AuthorizationIndInv, [Next]_vars
                 PROVE  Register!BNext \/ UNCHANGED <<policy, bound, request>>
        OBVIOUS
    <2>1. ASSUME NEW p \in Processes, InitializePolicy(p)
          PROVE  Register!BNext \/ UNCHANGED <<policy, bound, request>>
        BY <2>1 DEF InitializePolicy, Register!BNext, Register!Provision, Configurations
    <2>2. ASSUME NEW c \in Calls, Replace(c), ~Denied(c), request[RequestKey(c)] = Unasked
          PROVE  Register!BNext
        <3> DEFINE a == call[c].app
                   actor == ActorOf[call[c].session]
                   groups == GroupsOf[call[c].session]
                   ask == call[c].ask
        <3>1. /\ policy' = policy /\ a \in Applications
              /\ MayReplace(Role(c)) /\ call[c].version = bound[a].version
              /\ bound' = [bound EXCEPT ![a] = Replacement(c)]
              /\ request' = [request EXCEPT ![RequestKey(c)] =
                    [outcome |-> Outcome(c), expected |-> ask.expected,
                     desired |-> ask.desired, version |-> Replacement(c).version]]
            BY <2>2, ReplaceWrites
        <3>2. /\ RequestKey(c) = <<a, actor, ask.key>> /\ ask \in Requests
              /\ actor \in Actors /\ groups \in {GroupsOf[s] : s \in SessionIds}
            BY <2>2, RequestKeyIs DEF Replace, Actors
        <3>3. Register!MayReplace(Register!EffectiveRole(bound[a].bindings, groups, policy))
            <4>1. MayReplace(EffectiveRole(bound[a].bindings, groups, policy))
                BY <3>1 DEF Role, RoleOf
            <4>2. Register!EffectiveRole(bound[a].bindings, groups, policy)
                      = EffectiveRole(bound[a].bindings, groups, policy)
                BY Zenon DEF Register!EffectiveRole, EffectiveRole, Register!BoundRole, BoundRole
            <4> QED
                BY <4>1, <4>2 DEF Register!MayReplace, MayReplace
        <3>4. Replacement(c) =
                  IF bound[a].version # ask.expected \/ bound[a].bindings = ask.desired
                  THEN bound[a]
                  ELSE [version |-> bound[a].version + 1, bindings |-> ask.desired]
            BY <3>1 DEF Replacement
        <3>5. Outcome(c) = IF bound[a].version = ask.expected THEN "APPLIED"
                           ELSE "VERSION_CONFLICT"
            BY <3>1 DEF Outcome
        <3>6. request[<<a, actor, ask.key>>] = Register!Unasked
            BY <2>2, <3>2 DEF Unasked, Register!Unasked
        <3>7. /\ bound' = [bound EXCEPT ![a] =
                     IF bound[a].version # ask.expected \/ bound[a].bindings = ask.desired
                     THEN bound[a]
                     ELSE [version |-> bound[a].version + 1, bindings |-> ask.desired]]
              /\ request' = [request EXCEPT ![<<a, actor, ask.key>>] =
                    [outcome |-> IF bound[a].version = ask.expected THEN "APPLIED"
                                 ELSE "VERSION_CONFLICT",
                     expected |-> ask.expected, desired |-> ask.desired,
                     version |-> (IF bound[a].version # ask.expected
                                        \/ bound[a].bindings = ask.desired
                                  THEN bound[a]
                                  ELSE [version |-> bound[a].version + 1,
                                        bindings |-> ask.desired]).version]]
            BY <3>1, <3>2, <3>4, <3>5
        <3> HIDE DEF a, actor, groups, ask
        <3>8. Register!Replace(a, actor, groups, ask)
            BY <3>1, <3>3, <3>6, <3>7 DEF Register!Replace
        <3> QED
            BY <3>1, <3>2, <3>8 DEF Register!BNext
    <2>3. ASSUME NEW c \in Calls, Replace(c)
          PROVE  Register!BNext \/ UNCHANGED <<policy, bound, request>>
        BY <2>2, <2>3 DEF Replace
    <2>4. CASE UNCHANGED vars
        BY <2>4 DEF vars
    <2> QED
        BY <2>1, <2>3, <2>4
           DEF Next, VerifyReady, Stop, TouchSession, EndSession, CreateApplication,
               BeginAuthorize, BeginReplace, BeginPublish, Begin, AdvisoryLock, LockPolicy,
               LockSession, LockApplication, Authorize, Publish, Abort, Tick
<1> QED
    BY <1>1, <1>2, AuthorizationIndInvHolds, PTL
       DEF Spec, ImplementsRegister, Register!BSpec

=============================================================================
