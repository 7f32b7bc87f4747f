------------------------------- MODULE SignIn -------------------------------
(***************************************************************************)
(* What stands between a browser that signs in and the login transaction   *)
(* of module Sessions: the admission of GET /login by one control process, *)
(* the capacity of an hour in the database, and the discovery document and *)
(* the signing keys of the OIDC provider, each fetched by one request that *)
(* every waiting call shares (V2Sessions.ts).                              *)
(*                                                                         *)
(* Abstracted: a document is its version, a token the key it is signed     *)
(* with; addresses, sizes, media types and the other claims are decided by *)
(* pure functions and are failures here.  Nothing ever reads the keys that *)
(* jwks() caches: the generation it compares with was read in the same     *)
(* turn of the event loop.                                                 *)
(***************************************************************************)
EXTENDS Naturals, FiniteSets, Functions

CONSTANTS
  Calls,          \* logins and callbacks that may be under way at once
  Sources,        \* peer addresses
  Keys,           \* the provider's signing keys
  Versions,       \* 1..n, of its discovery document
  Window, PerSource, Global, Concurrency, MaxSources,  \* loginAdmission*
  Hour, Capacity, \* of v2_begin_oidc_login
  LoginKept,      \* from the start of a login to its deletion: lifetime and retention
  DiscoveryTtl,   \* how long a discovery document is kept
  HttpTimeout,    \* of a request to the provider
  MaxChanges,     \* bound: changes that the provider makes
  MaxTime         \* bound: the clock stops there

ASSUME SignInAssumption ==
  /\ {Window, PerSource, Concurrency, MaxSources, Hour, Capacity} \subseteq Nat \ {0}
  /\ {LoginKept, DiscoveryTtl, HttpTimeout, MaxChanges, MaxTime} \subseteq Nat
  /\ Global \in Nat /\ PerSource <= Global
  /\ Window <= MaxTime
  /\ IsFiniteSet(Calls) /\ IsFiniteSet(Sources)
  /\ Keys # {} /\ "none" \notin Keys
  /\ Versions \subseteq Nat \ {0} /\ 1 \in Versions

VARIABLES
  now,
  admission,  \* processLoginAdmission
  logins,     \* rows of login transactions by the time they were created at
  discovery,  \* discoveryCache and discoveryRefresh
  jwksRefresh,
  provider,   \* its document and keys, and when it gave up each
  call,
  admitted    \* admissions by source and time, for the properties

signInVars ==
  <<now, admission, logins, discovery, jwksRefresh, provider, call, admitted>>

Times == 0 .. MaxTime

\* A request to the provider, with what the answer holds once it is served.
NoFetch == [state |-> "none", sentAt |-> 0, answer |-> 0]
Sent == [state |-> "sent", sentAt |-> now, answer |-> 0]
Served(fetch, answer) == [fetch EXCEPT !.state = "served", !.answer = answer]
NoDocument == 0

\* since: when the call began to wait for a document or for keys.
Idle == [kind |-> "none", pc |-> "idle", observed |-> 0, since |-> 0,
         document |-> NoDocument, key |-> "none", signedIn |-> FALSE]

Total(f, S) == FoldFunctionOnSet(+, 0, f, S)

UnderWay(c) == call[c].pc # "idle"
Awaiting(pc) == {c \in Calls : call[c].pc = pc}

-----------------------------------------------------------------------------
(* admitLogin and its release *)

Expired(window) == now - window.startedAt >= Window
Fresh == [startedAt |-> now, count |-> 0]
Reset(window) == IF Expired(window) THEN Fresh ELSE window

\* The windows of sources that are not over.
Recent ==
  LET sources == admission.sources
  IN  [s \in {s \in DOMAIN sources : ~Expired(sources[s])} |-> sources[s]]

WindowOf(s) == IF s \in DOMAIN Recent THEN Recent[s] ELSE Fresh

\* The windows that are kept, with w for the one of s.
WithWindow(s, w) ==
  [r \in DOMAIN Recent \cup {s} |-> IF r = s THEN w ELSE Recent[r]]

Room(s) == s \in DOMAIN Recent \/ Cardinality(DOMAIN Recent) < MaxSources

BelowLimits(s) ==
  /\ admission.active < Concurrency
  /\ Reset(admission.global).count < Global
  /\ WindowOf(s).count < PerSource

\* A source that is turned away at a limit keeps its window all the same.
TurnAway(c, s) ==
  /\ ~UnderWay(c)
  /\ ~(Room(s) /\ BelowLimits(s))
  /\ admission' = [admission EXCEPT
                     !.global = Reset(@),
                     !.sources = IF Room(s) THEN WithWindow(s, WindowOf(s)) ELSE Recent]
  /\ UNCHANGED <<now, logins, discovery, jwksRefresh, provider, call, admitted>>

Admit(c, s) ==
  /\ ~UnderWay(c)
  /\ Room(s) /\ BelowLimits(s)
  /\ admission' = [global |-> [Reset(admission.global) EXCEPT !.count = @ + 1],
                   sources |-> WithWindow(s, [WindowOf(s) EXCEPT !.count = @ + 1]),
                   active |-> admission.active + 1]
  /\ admitted' = [admitted EXCEPT ![s][now] = @ + 1]
  /\ call' = [call EXCEPT ![c] = [Idle EXCEPT !.kind = "login", !.pc = "begin"]]
  /\ UNCHANGED <<now, logins, discovery, jwksRefresh, provider>>

\* The calls of cs end: what they hold of the admission is given back.
Released(cs) ==
  [admission EXCEPT !.active = @ - Cardinality({c \in cs : call[c].kind = "login"})]

-----------------------------------------------------------------------------
(* v2_begin_oidc_login reads the clock, waits for its lock, counts, inserts. *)

\* Mutated form: rows that are newer than the clock that was read are not seen.
BegunBetween(observed) ==
  Total(logins, {t \in Times : observed < t + Hour /\ t <= observed})

Begun(observed) == Total(logins, {t \in Times : observed < t + Hour})

ReadClock(c) ==
  /\ call[c].pc = "begin"
  /\ call' = [call EXCEPT ![c].pc = "insert", ![c].observed = now]
  /\ UNCHANGED <<now, admission, logins, discovery, jwksRefresh, provider, admitted>>

Failed(cs) == [c \in Calls |-> IF c \in cs THEN Idle ELSE call[c]]

\* The answer of the database may be lost when the row is there.
BeginLogin(c) ==
  LET observed == call[c].observed
  IN  /\ call[c].pc = "insert"
      /\ Begun(observed) < Capacity
      /\ logins' = [logins EXCEPT ![observed] = @ + 1]
      /\ \/ call' = [call EXCEPT ![c].pc = "discover"] /\ UNCHANGED admission
         \/ call' = Failed({c}) /\ admission' = Released({c})
      /\ UNCHANGED <<now, discovery, jwksRefresh, provider, admitted>>

\* Refused for want of capacity, or the statement fails.
BeginFails(c) ==
  /\ call[c].pc \in {"begin", "insert"}
  /\ call' = Failed({c})
  /\ admission' = Released({c})
  /\ UNCHANGED <<now, logins, discovery, jwksRefresh, provider, admitted>>

\* v2_cleanup_auth_state deletes rows that expired a retention ago: the oldest that no
\* callback holds, here one at a time, as a batch of many is a run of these.
CleanUpLogin ==
  /\ \E t \in Times :
       /\ logins[t] > 0 /\ t + LoginKept <= now
       /\ logins' = [logins EXCEPT ![t] = @ - 1]
  /\ UNCHANGED <<now, admission, discovery, jwksRefresh, provider, call, admitted>>

-----------------------------------------------------------------------------
(* discovery(): kept for a while, and fetched once for all who wait. *)

\* Mutated form: what was fetched once is good for ever.
KeptForever == discovery.document # NoDocument

Kept == discovery.document # NoDocument /\ now < discovery.expiresAt

\* A login is answered with the document, a callback goes on to exchange its code.
Told(cs, document) ==
  [c \in Calls |->
     IF c \notin cs THEN call[c]
     ELSE [Idle EXCEPT !.document = document, !.kind = call[c].kind,
                       !.pc = IF call[c].kind = "login" THEN "idle" ELSE "exchange"]]

KnowDocument(c) ==
  /\ call[c].pc = "discover" /\ Kept
  /\ call' = Told({c}, discovery.document)
  /\ admission' = Released({c})
  /\ UNCHANGED <<now, logins, discovery, jwksRefresh, provider, admitted>>

FetchDocument(c) ==
  /\ call[c].pc = "discover" /\ ~Kept
  /\ call' = [call EXCEPT ![c].pc = "await document", ![c].since = now]
  /\ discovery' = [discovery EXCEPT !.refresh = IF @.state = "none" THEN Sent ELSE @]
  /\ UNCHANGED <<now, admission, logins, jwksRefresh, provider, admitted>>

ServeDocument ==
  /\ discovery.refresh.state = "sent"
  /\ discovery' = [discovery EXCEPT !.refresh = Served(@, provider.document)]
  /\ UNCHANGED <<now, admission, logins, jwksRefresh, provider, call, admitted>>

DocumentArrives ==
  /\ discovery.refresh.state = "served"
  /\ discovery' = [document |-> discovery.refresh.answer,
                   expiresAt |-> now + DiscoveryTtl, refresh |-> NoFetch]
  /\ call' = Told(Awaiting("await document"), discovery.refresh.answer)
  /\ admission' = Released(Awaiting("await document"))
  /\ UNCHANGED <<now, logins, jwksRefresh, provider, admitted>>

\* The request fails, its deadline passes, or what it brings is refused.
DocumentFails ==
  /\ discovery.refresh.state # "none"
  /\ discovery' = [discovery EXCEPT !.refresh = NoFetch]
  /\ call' = Failed(Awaiting("await document"))
  /\ admission' = Released(Awaiting("await document"))
  /\ UNCHANGED <<now, logins, jwksRefresh, provider, admitted>>

-----------------------------------------------------------------------------
(* finishLogin(): the code is exchanged for a token, whose key is looked up  *)
(* among the keys that the provider publishes.                               *)

\* After v2_consume_oidc_login.
Callback(c) ==
  /\ ~UnderWay(c)
  /\ call' = [call EXCEPT ![c] = [Idle EXCEPT !.kind = "callback", !.pc = "discover"]]
  /\ UNCHANGED <<now, admission, logins, discovery, jwksRefresh, provider, admitted>>

Judged(key, keys) == [Idle EXCEPT !.kind = "callback", !.signedIn = key \in keys]

\* verifyIdToken() starts as the token arrives, signed with any key the provider
\* ever had.
Exchange(c) ==
  /\ call[c].pc = "exchange"
  /\ \E key \in Keys :
       call' = [call EXCEPT ![c] = [Idle EXCEPT !.kind = "callback", !.pc = "await keys",
                                              !.key = key, !.since = now]]
  /\ jwksRefresh' = IF jwksRefresh.state = "none" THEN Sent ELSE jwksRefresh
  /\ UNCHANGED <<now, admission, logins, discovery, provider, admitted>>

ExchangeFails(c) ==
  /\ call[c].pc = "exchange"
  /\ call' = Failed({c})
  /\ UNCHANGED <<now, admission, logins, discovery, jwksRefresh, provider, admitted>>

ServeKeys ==
  /\ jwksRefresh.state = "sent"
  /\ jwksRefresh' = Served(jwksRefresh, provider.keys)
  /\ UNCHANGED <<now, admission, logins, discovery, provider, call, admitted>>

KeysArrive ==
  /\ jwksRefresh.state = "served"
  /\ jwksRefresh' = NoFetch
  /\ call' = [c \in Calls |-> IF call[c].pc # "await keys" THEN call[c]
                              ELSE Judged(call[c].key, jwksRefresh.answer)]
  /\ UNCHANGED <<now, admission, logins, discovery, provider, admitted>>

KeysFail ==
  /\ jwksRefresh.state # "none"
  /\ jwksRefresh' = NoFetch
  /\ call' = Failed(Awaiting("await keys"))
  /\ UNCHANGED <<now, admission, logins, discovery, provider, admitted>>

-----------------------------------------------------------------------------
(* The provider and the clock *)

\* What the provider gave up was there until now.
Changes == Cardinality(Keys \ provider.keys) + provider.document - 1

ReplaceDocument ==
  /\ Changes < MaxChanges
  /\ provider.document + 1 \in Versions
  /\ provider' = [provider EXCEPT !.document = @ + 1, !.replaced[provider.document] = now]
  /\ UNCHANGED <<now, admission, logins, discovery, jwksRefresh, call, admitted>>

RetireKey(k) ==
  /\ Changes < MaxChanges
  /\ k \in provider.keys /\ provider.keys # {k}
  /\ provider' = [provider EXCEPT !.keys = @ \ {k}, !.retired[k] = now]
  /\ UNCHANGED <<now, admission, logins, discovery, jwksRefresh, call, admitted>>

Overdue(fetch) == fetch.state # "none" /\ now - fetch.sentAt >= HttpTimeout

\* A request whose deadline has come does not get any older.  Of the admissions
\* only those of the last window are kept.
Tick ==
  /\ now < MaxTime
  /\ ~Overdue(discovery.refresh) /\ ~Overdue(jwksRefresh)
  /\ now' = now + 1
  /\ admitted' = [s \in Sources |-> [t \in Times |->
                    IF t + Window > now + 1 THEN admitted[s][t] ELSE 0]]
  /\ UNCHANGED <<admission, logins, discovery, jwksRefresh, provider, call>>

\* Date.now() is far beyond any window.
SignInInit ==
  /\ now = Window
  /\ admission = [global |-> [startedAt |-> 0, count |-> 0], sources |-> <<>>, active |-> 0]
  /\ logins = [t \in Times |-> 0]
  /\ discovery = [document |-> NoDocument, expiresAt |-> 0, refresh |-> NoFetch]
  /\ jwksRefresh = NoFetch
  /\ provider = [document |-> 1, keys |-> Keys,
                 replaced |-> [v \in Versions |-> 0], retired |-> [k \in Keys |-> 0]]
  /\ call = [c \in Calls |-> Idle]
  /\ admitted = [s \in Sources |-> [t \in Times |-> 0]]

SignInNext ==
  \/ \E c \in Calls :
       \/ \E s \in Sources : Admit(c, s) \/ TurnAway(c, s)
       \/ ReadClock(c) \/ BeginLogin(c) \/ BeginFails(c)
       \/ KnowDocument(c) \/ FetchDocument(c)
       \/ Callback(c) \/ Exchange(c) \/ ExchangeFails(c)
  \/ CleanUpLogin
  \/ ServeDocument \/ DocumentArrives \/ DocumentFails
  \/ ServeKeys \/ KeysArrive \/ KeysFail
  \/ ReplaceDocument \/ \E k \in Keys : RetireKey(k)
  \/ Tick

SignInSpec == SignInInit /\ [][SignInNext]_signInVars

-----------------------------------------------------------------------------
(* Properties *)

\* Every variable keeps its type, and no more sources are remembered than allowed.
SignInTypeOK ==
  /\ now \in Times
  /\ admission.active \in 0 .. Concurrency
  /\ admission.global \in [startedAt : Times, count : 0 .. Global]
  /\ DOMAIN admission.sources \subseteq Sources
  /\ Cardinality(DOMAIN admission.sources) <= MaxSources
  /\ \A s \in DOMAIN admission.sources :
       admission.sources[s] \in [startedAt : Times, count : 0 .. PerSource]
  /\ \A t \in Times : logins[t] \in 0 .. Capacity
  /\ discovery.document \in Versions \cup {NoDocument}
  /\ provider.document \in Versions /\ provider.keys \in (SUBSET Keys) \ {{}}

\* The calls that count against the concurrency limit are the logins under way:
\* however a login ends, its place is given back, and only once.
ActiveIsUnderWay ==
  admission.active = Cardinality({c \in Calls : UnderWay(c) /\ call[c].kind = "login"})

\* In no stretch of time as long as a window, wherever it begins, are more logins
\* admitted than two windows hold, from one source or from all: windows are reset
\* one by one and forgotten sources start anew, but nobody gains by it.
BurstsAreBounded ==
  /\ \A s \in Sources : Total(admitted[s], Times) <= 2 * PerSource
  /\ Total([s \in Sources |-> Total(admitted[s], Times)], Sources) <= 2 * Global

\* No hour, wherever it begins, has more rows of login transactions than its
\* capacity, though each reads the clock before it waits for its turn and rows are
\* inserted out of the order of their times.  Where rows are kept for an hour and the
\* wait, none of an hour is gone when it is counted: they are the logins it began.
HourlyCapacityHolds ==
  \A t \in Times : Total(logins, {u \in Times : u <= t /\ t < u + Hour}) <= Capacity

\* No limit is ever passed, and none is eaten up by logins that have ended.
LimitsHold ==
  /\ SignInTypeOK
  /\ ActiveIsUnderWay
  /\ BurstsAreBounded
  /\ HourlyCapacityHolds

\* When the wait of a call ends in this step, when it began.
Since(c) == IF call[c].since = 0 THEN now ELSE call[c].since

\* A browser is sent where a discovery document says that the provider still serves
\* or served until no longer ago than a cache lifetime and a request: a fetch that
\* fails or is shared by others never pins an old one.
DiscoveryIsRecent ==
  [][\A c \in Calls :
       LET document == call'[c].document
       IN  call[c].document # document /\ document \notin {NoDocument, provider.document} =>
             provider.replaced[document] + DiscoveryTtl + HttpTimeout >= Since(c)]_signInVars

\* Nobody signs in with a key that was retired more than a request to the provider
\* before the token was looked at, though the fetch may have been on its way by then.
RetiredKeysStayOut ==
  [][\A c \in Calls, k \in Keys :
       ~call[c].signedIn /\ call'[c].signedIn /\ k \in {call[c].key, call'[c].key} =>
         k \in provider.keys \/ provider.retired[k] + HttpTimeout >= Since(c)]_signInVars

\* What is shared or kept of the provider is never older than its lifetime.
ProviderIsRecent == DiscoveryIsRecent /\ RetiredKeysStayOut

=============================================================================
