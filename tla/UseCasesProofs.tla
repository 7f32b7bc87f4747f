---------------------------- MODULE UseCasesProofs ----------------------------
(***************************************************************************)
(* Theorems of UseCases, for every number of calls, applications, bundles  *)
(* and assets, over either storage: what the tables and the bucket hold    *)
(* agrees whatever overlapped or was cut off, every change is one that its *)
(* caller may make and meant to make, and an answer says what happened.    *)
(***************************************************************************)
EXTENDS UseCases, TLAPS

(***************************************************************************)
(* The inductive invariant.  A row takes the call that made it as its id,  *)
(* and a call makes one row of a kind: what was read under an id is what   *)
(* is there under that id later, if anything is.                           *)
(***************************************************************************)

IsCall(r) ==
  /\ r = [op |-> r.op, asked |-> r.asked, req |-> r.req, by |-> r.by, pc |-> r.pc,
          rest |-> r.rest, roles |-> r.roles, saw |-> r.saw, wrote |-> r.wrote,
          answer |-> r.answer, alone |-> r.alone]
  /\ r.alone \in BOOLEAN

CallsShaped ==
  /\ call = [c \in Calls |-> call[c]]
  /\ \A c \in Calls : IsCall(call[c]) /\ (call[c].pc = "idle" => call[c] = Idle)

\* Two calls that run at a time are both disturbed.
Apart ==
  \A c, d \in Calls : c # d /\ Running(c) /\ Running(d) => ~call[c].alone /\ ~call[d].alone

-----------------------------------------------------------------------------
(* What is known of the row behind an id. *)

Lost == IF Constrained THEN {} ELSE {None}

Made(op, i) == i \in Calls => op \in call[i].wrote

AppIs(i, name) ==
  /\ i \in Ids /\ Made("createApp", i)
  /\ i \in DOMAIN apps => apps[i].name \in {name} \cup Lost

BundleIs(i, tag) ==
  /\ i \in Ids /\ Made("createBundle", i)
  /\ i \in DOMAIN bundles => bundles[i].tag = tag

EntrypointIs(i, url) ==
  /\ i \in Ids /\ Made("createEntrypoint", i)
  /\ i \in DOMAIN entrypoints => entrypoints[i].url \in {url} \cup Lost

OfApp(i, name) ==
  Constrained /\ i \in DOMAIN entrypoints => AppIs(entrypoints[i].app, name)

-----------------------------------------------------------------------------
(* The tables. *)

TablesTyped ==
  /\ DOMAIN apps \cup DOMAIN bundles \cup DOMAIN entrypoints
       \cup DOMAIN groups \cup DOMAIN users \subseteq Ids
  /\ \A i \in DOMAIN apps : apps[i].name \in AppNames \cup Lost
  /\ \A i \in DOMAIN bundles : bundles[i].tag \in Tags
  /\ \A i \in DOMAIN entrypoints :
       entrypoints[i] \in [url : (Urls \ InvalidUrls) \cup Lost,
                           app : Ids \cup Lost, bundle : Ids \cup {None}]
  /\ \A i \in DOMAIN users : users[i].login \in Logins \cup Lost
  /\ files \subseteq Ids \X Assets
  /\ members \subseteq Ids \X Ids
  /\ logs \subseteq Calls \X {r.op : r \in Requests}
  /\ backend \in {"pg", "memory"}
  /\ cuts \in Nat

\* A bundle that lacks an asset is being deleted, or its deletion was disturbed.
Lacking ==
  \A b \in DOMAIN bundles :
    \/ Complete(b)
    \/ \E d \in Calls : Removing(d, b) /\ (call[d].answer = 500 => ~call[d].alone)

-----------------------------------------------------------------------------
(* The calls, whatever the others do. *)

RequestTyped(op, r) ==
  /\ r.op = op
  /\ op \in {"createApp", "deploy"} => r.name \in AppNames
  /\ op \in {"createBundle", "deleteBundles", "deploy"} => r.tag \in Tags
  /\ op \in {"createEntrypoint", "deploy", "respond"} => r.url \in Urls
  /\ op \in {"updateApp", "deleteApp"} => r.id = "seed"
  /\ op \in {"updateEntrypoint", "deleteEntrypoint"} => r.id \in Ids
  /\ op = "createEntrypoint" => r.app \in Ids
  /\ op \in {"createEntrypoint", "updateEntrypoint"} => r.bundle \in Ids \cup {None}
  /\ op = "createGroup" => r.roles = RootRoles
  /\ op \in {"updateGroup", "deleteGroup", "updateUser", "deleteUser"} => r.id = "dev"
  /\ op = "updateGroup" => r.name \in {"devs", "new"}
  /\ op = "createUser" => r.login = "new"
  /\ op \in {"createUser", "updateUser"} => r.groups \in SUBSET Ids

DeployOps == {"deploy", "createApp", "createEntrypoint", "updateEntrypoint"}

Awaits ==
  [createApp |-> {"auth", "check", "act", "log"},
   updateApp |-> {"find", "auth", "act", "log"},
   deleteApp |-> {"find", "auth", "check", "act", "log"},
   createBundle |-> {"auth", "upload", "act", "log"},
   deleteBundles |-> {"auth", "find", "check", "unlink", "act", "log"},
   createEntrypoint |-> {"find", "auth", "check", "checkUrl", "act", "log"},
   updateEntrypoint |-> {"find", "auth", "check", "act", "log"},
   deleteEntrypoint |-> {"find", "auth", "act", "log"},
   deploy |-> {"find"},
   createGroup |-> {"auth", "check", "act", "log"},
   updateGroup |-> {"auth", "find", "check", "act", "log"},
   deleteGroup |-> {"auth", "find", "check", "act", "log"},
   createUser |-> {"auth", "check", "checkGroups", "act", "link", "log"},
   updateUser |-> {"auth", "find", "check", "act", "link", "unlink", "log"},
   deleteUser |-> {"auth", "find", "act", "log"},
   respond |-> {"find", "bundle", "content", "config"},
   bootstrap |-> {"find", "group", "user", "act", "link", "end"}]

Asking(c) ==
  Running(c) =>
    /\ call[c].op \in DOMAIN Awaits /\ call[c].pc \in Awaits[call[c].op]
    /\ call[c].op \notin {"respond", "bootstrap"} => call[c].by \in {"root", "dev"}
    /\ RequestTyped(call[c].op, Req(c))
    /\ RequestTyped(call[c].asked.op, call[c].asked)
    /\ call[c].asked.op # "deploy" => call[c].op = call[c].asked.op
    /\ call[c].asked.op = "deploy" => call[c].op \in DeployOps
    /\ call[c].rest # None =>
         /\ call[c].op = "createApp" /\ call[c].asked.op = "deploy"
         /\ RequestTyped("createEntrypoint", call[c].rest)

\* What a call found holds of the rows as long as they are there.
Finding(c) ==
  Running(c) =>
    /\ call[c].op \in {"updateApp", "deleteApp"} /\ call[c].pc \in {"auth", "check", "act"} =>
         AppIs(Req(c).id, call[c].saw)
    /\ call[c].op = "createEntrypoint" /\ call[c].pc \in {"auth", "check", "checkUrl", "act"} =>
         AppIs(Req(c).app, call[c].saw)
    /\ /\ call[c].op \in {"updateEntrypoint", "deleteEntrypoint"}
       /\ call[c].pc \in {"auth", "check", "act"}
       => EntrypointIs(Req(c).id, call[c].saw)

\* A deploy runs the use cases that fit what it read.
Deploying(c) ==
  Running(c) /\ call[c].asked.op = "deploy" =>
    /\ call[c].op = "deploy" =>
         /\ Req(c) = call[c].asked
         /\ "bundle" \in DOMAIN Seen(c) /\ Seen(c)["bundle"] # None =>
              BundleIs(Seen(c)["bundle"], call[c].asked.tag)
         /\ "app" \in DOMAIN Seen(c) /\ Seen(c)["app"] # None =>
              AppIs(Seen(c)["app"], call[c].asked.name)
         /\ "entrypoint" \in DOMAIN Seen(c) /\ Seen(c)["entrypoint"] # None =>
              \E e \in Ids, a \in Ids \cup {None} :
                /\ Seen(c)["entrypoint"] = <<e, a>> /\ EntrypointIs(e, call[c].asked.url)
                /\ e \in DOMAIN entrypoints => entrypoints[e].app \in {a} \cup Lost
    /\ call[c].op = "createApp" =>
         /\ Req(c).name = call[c].asked.name
         /\ c \in DOMAIN apps => apps[c].name \in {call[c].asked.name} \cup Lost
         /\ call[c].pc = "log" => "createApp" \in call[c].wrote
         /\ call[c].rest # None =>
              /\ call[c].rest.url = call[c].asked.url /\ call[c].rest.app = c
              /\ BundleIs(call[c].rest.bundle, call[c].asked.tag)
    /\ call[c].op = "createEntrypoint" =>
         /\ Req(c).url = call[c].asked.url
         /\ AppIs(Req(c).app, call[c].asked.name)
         /\ BundleIs(Req(c).bundle, call[c].asked.tag)
    /\ call[c].op = "updateEntrypoint" =>
         /\ EntrypointIs(Req(c).id, call[c].asked.url)
         /\ OfApp(Req(c).id, call[c].asked.name)
         /\ BundleIs(Req(c).bundle, call[c].asked.tag)

\* It has come past the Authorizer.
Passed(c) ==
  \/ call[c].pc \in {"check", "checkUrl", "checkGroups", "upload", "act", "link", "unlink", "log"}
  \/ call[c].pc = "find" /\ call[c].op \notin FindsFirst

Allowed(c) ==
  Running(c) /\ Passed(c) /\ call[c].op # "bootstrap" => Permitted(c, call[c].roles)

\* The second use case of a deploy that has created the application.
Second(c) ==
  call[c].asked.op = "deploy" /\ call[c].op = "createEntrypoint" /\ "createApp" \in call[c].wrote

Writing(c) ==
  Running(c) =>
    /\ \/ call[c].wrote = {}
       \/ call[c].op = "bootstrap" \/ call[c].pc \in {"log", "link"}
       \/ call[c].op = "updateUser" /\ call[c].pc = "unlink"
       \/ Second(c) /\ call[c].wrote = {"createApp"}
    /\ call[c].rest # None => call[c].wrote \subseteq {"createApp"}

Bundling(c) ==
  /\ Constrained /\ call[c].op = "createBundle" /\ call[c].pc = "act" => Complete(c)
  /\ call[c].op = "deleteBundles" /\ call[c].saw # None =>
       call[c].saw \in SUBSET Ids /\ \A i \in call[c].saw : Made("createBundle", i)
  /\ call[c].op = "deleteBundles" /\ call[c].pc \in {"auth", "find"} => call[c].saw = None
  /\ call[c].op = "deleteBundles" /\ call[c].pc \in {"check", "unlink", "act"} =>
       call[c].saw # None
  /\ Constrained /\ call[c].op = "deleteBundles" /\ call[c].pc = "act" =>
       FilesOf(call[c].saw) = {}

-----------------------------------------------------------------------------
(* What a step makes of the record of the call that takes it.             *)

Became(c, op, req, pc, rest) ==
  /\ call'[c].op = op /\ call'[c].req = req /\ call'[c].pc = pc /\ call'[c].rest = rest
  /\ call'[c].asked = call[c].asked /\ call'[c].by = call[c].by
  /\ call'[c].alone = call[c].alone
  /\ \A d \in Calls : d # c => call'[d] = call[d]
  /\ CallsShaped'

Keeps(c, roles, saw, wrote, answer) ==
  /\ call'[c].roles = roles /\ call'[c].saw = saw
  /\ call'[c].wrote = wrote /\ call'[c].answer = answer

Moves(c, pc) ==
  /\ Became(c, call[c].op, call[c].req, pc, call[c].rest)
  /\ Keeps(c, call[c].roles, call[c].saw, call[c].wrote, call[c].answer)
Sees(c, pc, what) ==
  /\ Became(c, call[c].op, call[c].req, pc, call[c].rest)
  /\ Keeps(c, call[c].roles, what, call[c].wrote, call[c].answer)
Grants(c, roles, pc) ==
  /\ Became(c, call[c].op, call[c].req, pc, call[c].rest)
  /\ Keeps(c, roles, call[c].saw, call[c].wrote, call[c].answer)
Writes(c, pc) ==
  /\ Became(c, call[c].op, call[c].req, pc, call[c].rest)
  /\ Keeps(c, call[c].roles, call[c].saw, call[c].wrote \cup {call[c].op}, call[c].answer)
Ends(c, status) ==
  /\ Became(c, call[c].op, call[c].req, "done", None)
  /\ Keeps(c, call[c].roles, call[c].saw, call[c].wrote, status)
Continues(c, now, then) ==
  /\ Became(c, now.op, now, First(now.op), then)
  /\ Keeps(c, call[c].roles, None, call[c].wrote, call[c].answer)

\* The record after an assignment to some of its fields.
LEMMA GotoMoves ==
  ASSUME CallsShaped, NEW c \in Calls, NEW pc, pc # "idle",
         Goto(c, pc)
  PROVE  Moves(c, pc)
<1>1. /\ call'[c] = [call[c] EXCEPT !.pc = pc]
      /\ \A d \in Calls : d # c => call'[d] = call[d]
      /\ call' = [d \in Calls |-> call'[d]]
  BY DEF CallsShaped, Goto
<1>2. IsCall(call[c])
  BY DEF CallsShaped
<1>3. IsCall(call'[c]) /\ call'[c].pc # "idle"
  BY <1>1, <1>2 DEF IsCall
<1>4. CallsShaped'
  BY <1>1, <1>3 DEF CallsShaped, IsCall
<1>. QED
  BY <1>1, <1>2, <1>4 DEF IsCall, Moves, Became, Keeps

LEMMA SeeSees ==
  ASSUME CallsShaped, NEW c \in Calls, NEW pc, NEW what, pc # "idle",
         See(c, pc, what)
  PROVE  Sees(c, pc, what)
<1>1. /\ call'[c] = [call[c] EXCEPT !.pc = pc, !.saw = what]
      /\ \A d \in Calls : d # c => call'[d] = call[d]
      /\ call' = [d \in Calls |-> call'[d]]
  BY DEF CallsShaped, See
<1>2. IsCall(call[c])
  BY DEF CallsShaped
<1>3. IsCall(call'[c]) /\ call'[c].pc # "idle"
  BY <1>1, <1>2 DEF IsCall
<1>4. CallsShaped'
  BY <1>1, <1>3 DEF CallsShaped, IsCall
<1>. QED
  BY <1>1, <1>2, <1>4 DEF IsCall, Sees, Became, Keeps

LEMMA AnswerEnds ==
  ASSUME CallsShaped, NEW c \in Calls, NEW status,
         Answer(c, status)
  PROVE  Ends(c, status)
<1>1. /\ call'[c] = [call[c] EXCEPT !.pc = "done", !.answer = status, !.rest = None]
      /\ \A d \in Calls : d # c => call'[d] = call[d]
      /\ call' = [d \in Calls |-> call'[d]]
  BY DEF CallsShaped, Answer
<1>2. IsCall(call[c])
  BY DEF CallsShaped
<1>3. IsCall(call'[c]) /\ call'[c].pc # "idle"
  BY <1>1, <1>2 DEF IsCall
<1>4. CallsShaped'
  BY <1>1, <1>3 DEF CallsShaped, IsCall
<1>. QED
  BY <1>1, <1>2, <1>4 DEF IsCall, Ends, Became, Keeps

LEMMA GrantGrants ==
  ASSUME CallsShaped, NEW c \in Calls, NEW roles, NEW pc, pc # "idle",
         call' = [call EXCEPT ![c].roles = roles, ![c].pc = pc]
  PROVE  Grants(c, roles, pc)
<1>1. /\ call'[c] = [call[c] EXCEPT !.roles = roles, !.pc = pc]
      /\ \A d \in Calls : d # c => call'[d] = call[d]
      /\ call' = [d \in Calls |-> call'[d]]
  BY DEF CallsShaped
<1>2. IsCall(call[c])
  BY DEF CallsShaped
<1>3. IsCall(call'[c]) /\ call'[c].pc # "idle"
  BY <1>1, <1>2 DEF IsCall
<1>4. CallsShaped'
  BY <1>1, <1>3 DEF CallsShaped, IsCall
<1>. QED
  BY <1>1, <1>2, <1>4 DEF IsCall, Grants, Became, Keeps

LEMMA WriteWrites ==
  ASSUME CallsShaped, NEW c \in Calls, NEW pc, pc # "idle",
         call' = [call EXCEPT ![c].pc = pc, ![c].wrote = @ \cup {call[c].op}]
  PROVE  Writes(c, pc)
<1>1. /\ call'[c] = [call[c] EXCEPT !.pc = pc, !.wrote = @ \cup {call[c].op}]
      /\ \A d \in Calls : d # c => call'[d] = call[d]
      /\ call' = [d \in Calls |-> call'[d]]
  BY DEF CallsShaped
<1>2. IsCall(call[c])
  BY DEF CallsShaped
<1>3. IsCall(call'[c]) /\ call'[c].pc # "idle"
  BY <1>1, <1>2 DEF IsCall
<1>4. CallsShaped'
  BY <1>1, <1>3 DEF CallsShaped, IsCall
<1>. QED
  BY <1>1, <1>2, <1>4 DEF IsCall, Writes, Became, Keeps

LEMMA RunsContinues ==
  ASSUME CallsShaped, NEW c \in Calls, NEW now, NEW then,
         Runs(c, now, then)
  PROVE  Continues(c, now, then)
<1>1. /\ call'[c] = [call[c] EXCEPT !.op = now.op, !.req = now, !.rest = then, !.pc = First(now.op), !.saw = None]
      /\ \A d \in Calls : d # c => call'[d] = call[d]
      /\ call' = [d \in Calls |-> call'[d]]
  BY DEF CallsShaped, Runs
<1>2. IsCall(call[c])
  BY DEF CallsShaped
<1>3. IsCall(call'[c]) /\ call'[c].pc # "idle"
  BY <1>1, <1>2 DEF IsCall, First
<1>4. CallsShaped'
  BY <1>1, <1>3 DEF CallsShaped, IsCall
<1>. QED
  BY <1>1, <1>2, <1>4 DEF IsCall, Continues, Became, Keeps

-----------------------------------------------------------------------------
(* What the routes ask for is typed. *)

LEMMA RequestsTyped ==
  ASSUME NEW r \in Requests
  PROVE  /\ RequestTyped(r.op, r)
         /\ r.op \in DOMAIN Awaits /\ First(r.op) \in Awaits[r.op]
         /\ r.op \notin {"respond", "bootstrap"} => Callers(r.op) = {"root", "dev"}
<1>0. /\ "seed" \in Ids /\ "dev" \in Ids
  BY DEF Ids
<1>1. CASE r \in CreateAppRequests \cup UpdateAppRequests \cup DeleteAppRequests
               \cup CreateBundleRequests \cup DeleteBundlesRequests
  BY <1>1 DEF CreateAppRequests, UpdateAppRequests, DeleteAppRequests, CreateBundleRequests,
       DeleteBundlesRequests, RequestTyped, Awaits, First, FindsFirst, Callers
<1>2. CASE r \in CreateEntrypointRequests \cup UpdateEntrypointRequests
               \cup DeleteEntrypointRequests \cup DeployRequests
  BY <1>0, <1>2 DEF CreateEntrypointRequests, UpdateEntrypointRequests,
       DeleteEntrypointRequests, DeployRequests, Bundle, RequestTyped, Awaits, First,
       FindsFirst, Callers
<1>3. CASE r \in CreateGroupRequests \cup UpdateGroupRequests \cup DeleteGroupRequests
  BY <1>3 DEF CreateGroupRequests, UpdateGroupRequests, DeleteGroupRequests, RequestTyped,
       Awaits, First, FindsFirst, Callers
<1>4. CASE r \in CreateUserRequests \cup UpdateUserRequests \cup DeleteUserRequests
               \cup RespondRequests \cup BootstrapRequests
  BY <1>0, <1>4 DEF CreateUserRequests, UpdateUserRequests, DeleteUserRequests,
       RespondRequests, BootstrapRequests, RequestTyped, Awaits, First, FindsFirst, Callers
<1>. QED
  BY <1>1, <1>2, <1>3, <1>4 DEF Requests

-----------------------------------------------------------------------------
(* Rows agree with rows, and objects with rows.                            *)

ReadsTyped(seen) ==
  /\ seen \in Readings
  /\ "bundle" \in DOMAIN seen => seen["bundle"] \in Ids \cup {None}
  /\ "app" \in DOMAIN seen => seen["app"] \in Ids \cup {None}
  /\ "entrypoint" \in DOMAIN seen /\ seen["entrypoint"] # None =>
       \E e \in Ids, a \in Ids \cup {None} : seen["entrypoint"] = <<e, a>>

Preparing(c) ==
  /\ call[c].answer \in Answers /\ (Running(c) => call[c].answer = None)
  /\ call[c].op = "createEntrypoint" /\ call[c].pc \in {"checkUrl", "act"} =>
       Req(c).url \notin InvalidUrls
  /\ call[c].op = "bootstrap" /\ call[c].pc \in {"group", "user", "act", "link"} =>
       call[c].saw \in Ids
  /\ Running(c) /\ call[c].op = "deploy" => ReadsTyped(Seen(c))

Unused(c) ==
  call[c].op = "deleteBundles" /\ call[c].pc \in {"unlink", "act"} /\ call[c].alone =>
    ~InUse(call[c].saw)

Own(c) == Asking(c) /\ Writing(c) /\ Preparing(c) /\ Bundling(c) /\ Unused(c)

BundlesMade == \A i \in DOMAIN bundles : Made("createBundle", i)

StoresInv ==
  /\ CallsShaped /\ Apart /\ TablesTyped /\ TablesAgree /\ BundlesMade
  /\ Lacking /\ ObjectsHaveRows
  /\ \A c \in Calls : Own(c)

\* A step of one call, as the others see it.
Stepped(c) ==
  /\ Running(c) /\ CallsShaped'
  /\ \A d \in Calls : d # c => call'[d] = call[d]
  /\ call'[c].alone = call[c].alone /\ call'[c].pc # "idle"
  /\ call[c].wrote \subseteq call'[c].wrote
  /\ backend' = backend

LEMMA Steppings ==
  ASSUME NEW c \in Calls, Running(c), backend' = backend
  PROVE  /\ \A pc : pc # "idle" /\ Moves(c, pc) => Stepped(c)
         /\ \A pc, what : pc # "idle" /\ Sees(c, pc, what) => Stepped(c)
         /\ \A roles, pc : pc # "idle" /\ Grants(c, roles, pc) => Stepped(c)
         /\ \A pc : pc # "idle" /\ Writes(c, pc) => Stepped(c)
         /\ \A status : Ends(c, status) => Stepped(c)
         /\ \A now, then : Continues(c, now, then) => Stepped(c)
  BY DEF Moves, Sees, Grants, Writes, Ends, Continues, Became, Keeps, Stepped, First

LEMMA ApartAgain ==
  ASSUME Apart, NEW c \in Calls, Stepped(c)
  PROVE  Apart'
  BY DEF Apart, Stepped, Running

\* What the others know stays true: a call that runs beside another is not alone.
LEMMA OthersOwn ==
  ASSUME Apart, NEW c \in Calls, Stepped(c), NEW d \in Calls, d # c, Own(d),
         \/ UNCHANGED files
         \/ /\ Constrained /\ call[d].op = "createBundle" /\ call[d].pc = "act" =>
                  Complete(d)'
            /\ Constrained /\ call[d].op = "deleteBundles" /\ call[d].pc = "act" =>
                  FilesOf(call[d].saw)' = {}
  PROVE  Own(d)'
<1>1. call'[d] = call[d] /\ backend' = backend
  BY DEF Stepped
<1>2. Asking(d)' /\ Writing(d)' /\ Preparing(d)'
  <2>1. Asking(d)' /\ Writing(d)'
    BY <1>1 DEF Own, Asking, Writing, Running, Second, Req
  <2>2. Preparing(d)'
    BY <1>1 DEF Own, Preparing, Running, Req, Seen, ReadsTyped
  <2>. QED
    BY <2>1, <2>2
<1>3. Bundling(d)'
  <2>1. \A i \in Ids : Made("createBundle", i) => Made("createBundle", i)'
    BY DEF Stepped, Made
  <2>2. /\ Constrained /\ call[d].op = "createBundle" /\ call[d].pc = "act" => Complete(d)'
        /\ Constrained /\ call[d].op = "deleteBundles" /\ call[d].pc = "act" =>
              FilesOf(call[d].saw)' = {}
    BY <1>1 DEF Own, Bundling, Complete, FilesOf
  <2>. QED
    BY <1>1, <2>1, <2>2 DEF Own, Bundling, Constrained
<1>4. Unused(d)'
  <2>1. call[d].pc \in {"unlink", "act"} => ~call[d].alone
    BY DEF Apart, Stepped, Running
  <2>. QED
    BY <1>1, <2>1 DEF Unused
<1>. QED
  BY <1>2, <1>3, <1>4 DEF Own

\* A step that leaves the bundles alone.
LEMMA BundlesStay ==
  ASSUME StoresInv, NEW c \in Calls, Stepped(c), UNCHANGED <<bundles, files>>,
         Own(c)', TablesTyped', TablesAgree',
         call[c].op = "deleteBundles" /\ call[c].saw # None =>
           /\ call'[c].op = call[c].op /\ call'[c].saw = call[c].saw
           /\ call[c].pc \in {"unlink", "act"} =>
                \/ call'[c].pc \in {"unlink", "act"} /\ call'[c].answer = call[c].answer
                \/ call'[c].answer = CutOff
                \/ call'[c].answer = 500 /\ ~call[c].alone,
         call[c].op = "createBundle" /\ call[c].pc \in {"upload", "act"} =>
           /\ call'[c].op = call[c].op
           /\ call'[c].pc \in {"upload", "act"} \/ call'[c].answer = CutOff
  PROVE  StoresInv'
<1>1. Apart' /\ CallsShaped'
  BY ApartAgain DEF StoresInv, Stepped
<1>2. \A d \in Calls : Own(d)'
  BY OthersOwn DEF StoresInv
<1>3. BundlesMade'
  BY DEF StoresInv, BundlesMade, Made, Stepped
<1>4. call[c].answer \notin {500, CutOff} /\ CutOff # 500
  BY StatusAssumption DEF StoresInv, Own, Preparing, Stepped, CutOff, Statuses
<1>5. Lacking'
  <2>. SUFFICES ASSUME NEW b \in DOMAIN bundles, ~Complete(b)
                PROVE  \E d \in Calls :
                         Removing(d, b)' /\ (call'[d].answer = 500 => ~call'[d].alone)
    BY DEF Lacking, Complete
  <2>1. PICK d \in Calls :
          Removing(d, b) /\ (call[d].answer = 500 => ~call[d].alone)
    BY DEF StoresInv, Lacking
  <2>2. CASE d # c
    BY <2>1, <2>2 DEF Stepped, Removing
  <2>3. CASE d = c
    BY <1>4, <2>1, <2>3 DEF Stepped, Removing
  <2>. QED
    BY <2>2, <2>3
<1>6. ObjectsHaveRows'
  <2>. SUFFICES ASSUME NEW f \in files, f[1] \notin DOMAIN bundles
                PROVE  /\ f[1] \in Calls /\ call'[f[1]].op = "createBundle"
                       /\ \/ call'[f[1]].pc \in {"upload", "act"}
                          \/ call'[f[1]].answer = CutOff
    BY DEF ObjectsHaveRows
  <2>1. /\ f[1] \in Calls /\ call[f[1]].op = "createBundle"
        /\ call[f[1]].pc \in {"upload", "act"} \/ call[f[1]].answer = CutOff
    BY DEF StoresInv, ObjectsHaveRows
  <2>. QED
    BY <1>4, <2>1 DEF Stepped
<1>. QED
  BY <1>1, <1>2, <1>3, <1>5, <1>6 DEF StoresInv

\* What a call itself knows after a step of its own.
LEMMA EndsOwn ==
  ASSUME NEW c \in Calls, Own(c), NEW status \in Answers, Ends(c, status)
  PROVE  Own(c)'
  BY DEF Own, Asking, Writing, Preparing, Bundling, Unused, Made, Ends, Became, Keeps,
         Running, Req

LEMMA MovesOwn ==
  ASSUME NEW c \in Calls, Running(c), Own(c), NEW pc \in Awaits[call[c].op],
         call[c].op \notin {"createBundle", "deleteBundles", "deploy"},
         call[c].pc \notin {"log", "link", "unlink"} \/ call[c].op = "bootstrap",
         \/ Moves(c, pc)
         \/ \E roles : Grants(c, roles, pc)
         \/ \E what : Sees(c, pc, what) /\ (call[c].op = "bootstrap" => what \in Ids),
         call[c].op = "createEntrypoint" /\ pc \in {"checkUrl", "act"} =>
           call[c].pc \in {"checkUrl", "act"} \/ Req(c).url \notin InvalidUrls,
         call[c].op = "bootstrap" => call[c].pc \notin {"find", "end"} \/ \E what \in Ids : Sees(c, pc, what)
  PROVE  Own(c)'
<1>1. /\ Became(c, call[c].op, call[c].req, pc, call[c].rest)
      /\ call'[c].wrote = call[c].wrote /\ call'[c].answer = call[c].answer
  BY DEF Moves, Grants, Sees, Keeps
<1>2. Asking(c)' /\ Writing(c)'
  BY <1>1 DEF Own, Asking, Writing, Became, Running, Req, Second
<1>3. Preparing(c)'
  <2>1. CASE call[c].op # "bootstrap"
    BY <1>1, <2>1 DEF Own, Preparing, Became, Running, Req
  <2>2. CASE call[c].op = "bootstrap"
    <3>1. call[c].pc \in {"find", "group", "user", "act", "link", "end"}
      BY <2>2 DEF Own, Asking, Awaits
    <3>. QED
      BY <1>1, <2>2, <3>1 DEF Own, Preparing, Became, Running, Moves, Grants, Sees, Keeps
  <2>. QED
    BY <2>1, <2>2
<1>4. Bundling(c)' /\ Unused(c)'
  BY <1>1 DEF Became, Bundling, Unused
<1>. QED
  BY <1>2, <1>3, <1>4 DEF Own

LEMMA WritesOwn ==
  ASSUME NEW c \in Calls, Running(c), Own(c), NEW pc \in Awaits[call[c].op], Writes(c, pc),
         call[c].op \notin {"createBundle", "deleteBundles", "deploy"},
         \/ pc \in {"log", "link"} \/ call[c].op = "bootstrap"
         \/ call[c].op = "updateUser" /\ pc = "unlink",
         call[c].op = "bootstrap" => call[c].pc \notin {"find", "end"}
  PROVE  Own(c)'
<1>1. /\ Became(c, call[c].op, call[c].req, pc, call[c].rest)
      /\ call'[c].saw = call[c].saw /\ call'[c].answer = call[c].answer
  BY DEF Writes, Keeps
<1>2. Asking(c)' /\ Writing(c)'
  <2>1. Asking(c)'
    BY <1>1 DEF Own, Asking, Became, Running, Req
  <2>2. call'[c].wrote = call[c].wrote \cup {call[c].op}
    BY DEF Writes, Keeps
  <2>3. Writing(c)'
    BY <1>1, <2>2 DEF Own, Asking, Writing, Became, Running, Second
  <2>. QED
    BY <2>1, <2>3
<1>3. Preparing(c)'
  <2>1. CASE call[c].op # "bootstrap"
    BY <1>1, <2>1 DEF Own, Preparing, Became, Running, Req
  <2>2. CASE call[c].op = "bootstrap"
    <3>1. call[c].pc \in {"find", "group", "user", "act", "link", "end"}
      BY <2>2 DEF Own, Asking, Awaits
    <3>. QED
      BY <1>1, <2>2, <3>1 DEF Own, Preparing, Became, Running
  <2>. QED
    BY <2>1, <2>2
<1>4. Bundling(c)' /\ Unused(c)'
  BY <1>1 DEF Became, Bundling, Unused
<1>. QED
  BY <1>2, <1>3, <1>4 DEF Own

\* Each change of a table keeps the tables in agreement.
LEMMA AppsKept ==
  ASSUME TablesTyped, TablesAgree, NEW c \in Calls,
         UNCHANGED <<backend, bundles, files, entrypoints, groups, users, members, logs,
                     cuts>>,
         \/ \E name \in AppNames : AppsCreatable(name) /\ AppsCreateOne(c, name)
         \/ \E id \in Ids : AppsUpdateOne(id, c)
         \/ \E id \in Ids : AppsDeletable(id) /\ AppsDeleteOne(id)
  PROVE  TablesTyped' /\ TablesAgree'
<1>1. CASE \E name \in AppNames : AppsCreatable(name) /\ AppsCreateOne(c, name)
  <2>1. TablesTyped'
    BY <1>1 DEF TablesTyped, Lost, Ids, Constrained, AppsCreatable, AppsCreateOne, AppNamed, With
  <2>2. TablesAgree'
    BY <1>1 DEF TablesTyped, TablesAgree, References, Lost, Constrained, AppsCreatable,
       AppsCreateOne, AppNamed, With
  <2>. QED
    BY <2>1, <2>2
<1>2. CASE \E id \in Ids : AppsUpdateOne(id, c)
  <2>1. TablesTyped'
    BY <1>2 DEF TablesTyped, Lost, Ids, Constrained, AppsUpdateOne, AppsUpdateInMemory, With
  <2>2. TablesAgree'
    BY <1>2 DEF TablesTyped, TablesAgree, References, Lost, Constrained, AppsUpdateOne,
       AppsUpdateInMemory, With
  <2>. QED
    BY <2>1, <2>2
<1>3. CASE \E id \in Ids : AppsDeletable(id) /\ AppsDeleteOne(id)
  <2>1. TablesTyped'
    BY <1>3 DEF TablesTyped, Lost, Ids, Constrained, AppsDeletable, AppsDeleteOne, Without
  <2>2. TablesAgree'
    BY <1>3 DEF TablesTyped, TablesAgree, References, Lost, Constrained, AppsDeletable,
       AppsDeleteOne, Without
  <2>. QED
    BY <2>1, <2>2
<1>. QED
  BY <1>1, <1>2, <1>3

LEMMA BundlesKept ==
  ASSUME TablesTyped, TablesAgree, NEW c \in Calls,
         UNCHANGED <<backend, apps, entrypoints, groups, users, members, logs, cuts>>,
         \/ files' \subseteq Ids \X Assets /\ bundles' = bundles
         \/ files' \subseteq Ids \X Assets /\ \E tag \in Tags : BundlesCreateRow(c, tag)
         \/ files' \subseteq Ids \X Assets /\ \E ids \in SUBSET Ids :
                BundlesDeletable(ids) /\ BundlesDeleteRows(ids)
  PROVE  TablesTyped' /\ TablesAgree'
<1>1. CASE files' \subseteq Ids \X Assets /\ bundles' = bundles
  <2>1. TablesTyped'
    BY <1>1 DEF TablesTyped, Lost, Ids, Constrained, With
  <2>2. TablesAgree'
    BY <1>1 DEF TablesTyped, TablesAgree, References, Lost, Constrained, With
  <2>. QED
    BY <2>1, <2>2
<1>2. CASE files' \subseteq Ids \X Assets /\ \E tag \in Tags : BundlesCreateRow(c, tag)
  <2>1. TablesTyped'
    BY <1>2 DEF TablesTyped, Lost, Ids, Constrained, BundlesCreateRow, With
  <2>2. TablesAgree'
    BY <1>2 DEF TablesTyped, TablesAgree, References, Lost, Constrained, BundlesCreateRow, With
  <2>. QED
    BY <2>1, <2>2
<1>3. CASE files' \subseteq Ids \X Assets /\ \E ids \in SUBSET Ids : BundlesDeletable(ids)
            /\ BundlesDeleteRows(ids)
  <2>1. TablesTyped'
    BY <1>3 DEF TablesTyped, Lost, Ids, Constrained, BundlesDeletable, BundlesDeleteRows, Without
  <2>2. TablesAgree'
    BY <1>3 DEF TablesTyped, TablesAgree, References, Lost, Constrained, BundlesDeletable,
       BundlesDeleteRows, Without
  <2>. QED
    BY <2>1, <2>2
<1>. QED
  BY <1>1, <1>2, <1>3

LEMMA EntrypointsKept ==
  ASSUME TablesTyped, TablesAgree, NEW c \in Calls,
         UNCHANGED <<backend, apps, bundles, files, groups, users, members, logs, cuts>>,
         \/ \E url \in Urls \ InvalidUrls, a \in Ids, b \in Ids \cup {None} :
                EntrypointsCreatable(url, a, b) /\ EntrypointsCreateOne(c, url, a, b)
         \/ \E id \in Ids, b \in Ids \cup {None} : EntrypointsUpdatable(id, b) /\
                EntrypointsUpdateOne(id, b)
         \/ \E id \in Ids : EntrypointsDeleteOne(id)
  PROVE  TablesTyped' /\ TablesAgree'
<1>1. CASE \E url \in Urls \ InvalidUrls, a \in Ids, b \in Ids \cup {None} :
            EntrypointsCreatable(url, a, b) /\ EntrypointsCreateOne(c, url, a, b)
  <2>1. TablesTyped'
    BY <1>1 DEF TablesTyped, Lost, Ids, Constrained, EntrypointsCreatable, EntrypointsCreateOne,
       EntrypointAt, With
  <2>2. TablesAgree'
    BY <1>1 DEF TablesTyped, TablesAgree, References, Lost, Constrained, EntrypointsCreatable,
       EntrypointsCreateOne, EntrypointAt, With
  <2>. QED
    BY <2>1, <2>2
<1>2. CASE \E id \in Ids, b \in Ids \cup {None} : EntrypointsUpdatable(id, b) /\
            EntrypointsUpdateOne(id, b)
  <2>1. TablesTyped'
    BY <1>2 DEF TablesTyped, Lost, Ids, Constrained, EntrypointsUpdatable, EntrypointsUpdateOne,
       EntrypointsUpdateInMemory, With
  <2>2. TablesAgree'
    BY <1>2 DEF TablesTyped, TablesAgree, References, Lost, Constrained, EntrypointsUpdatable,
       EntrypointsUpdateOne, EntrypointsUpdateInMemory, With
  <2>. QED
    BY <2>1, <2>2
<1>3. CASE \E id \in Ids : EntrypointsDeleteOne(id)
  <2>1. TablesTyped'
    BY <1>3 DEF TablesTyped, Lost, Ids, Constrained, EntrypointsDeleteOne, Without
  <2>2. TablesAgree'
    BY <1>3 DEF TablesTyped, TablesAgree, References, Lost, Constrained, EntrypointsDeleteOne,
       Without
  <2>. QED
    BY <2>1, <2>2
<1>. QED
  BY <1>1, <1>2, <1>3

LEMMA GroupsKept ==
  ASSUME TablesTyped, TablesAgree, NEW c \in Calls,
         UNCHANGED <<backend, apps, bundles, files, entrypoints, users, members, logs, cuts>>,
         \/ \E name, roles : GroupsCreatable(name) /\ GroupsCreateOne(c, name, roles)
         \/ \E id \in Ids : \E name, roles : GroupsUpdatable(id, name) /\
                GroupsUpdateOne(id, name, roles)
         \/ \E id \in Ids : GroupsDeletable(id) /\ GroupsDeleteOne(id)
  PROVE  TablesTyped' /\ TablesAgree'
<1>1. CASE \E name, roles : GroupsCreatable(name) /\ GroupsCreateOne(c, name, roles)
  <2>1. TablesTyped'
    BY <1>1 DEF TablesTyped, Lost, Ids, Constrained, GroupsCreatable, GroupsCreateOne, GroupNamed,
       With
  <2>2. TablesAgree'
    BY <1>1 DEF TablesTyped, TablesAgree, References, Lost, Constrained, GroupsCreatable,
       GroupsCreateOne, GroupNamed, With
  <2>. QED
    BY <2>1, <2>2
<1>2. CASE \E id \in Ids : \E name, roles : GroupsUpdatable(id, name) /\
            GroupsUpdateOne(id, name, roles)
  <2>1. TablesTyped'
    BY <1>2 DEF TablesTyped, Lost, Ids, Constrained, GroupsUpdatable, GroupsUpdateOne,
       GroupsUpdateInMemory, GroupNamed, With
  <2>2. TablesAgree'
    BY <1>2 DEF TablesTyped, TablesAgree, References, Lost, Constrained, GroupsUpdatable,
       GroupsUpdateOne, GroupsUpdateInMemory, GroupNamed, With
  <2>. QED
    BY <2>1, <2>2
<1>3. CASE \E id \in Ids : GroupsDeletable(id) /\ GroupsDeleteOne(id)
  <2>1. TablesTyped'
    BY <1>3 DEF TablesTyped, Lost, Ids, Constrained, GroupsDeletable, GroupsDeleteOne, Without
  <2>2. TablesAgree'
    BY <1>3 DEF TablesTyped, TablesAgree, References, Lost, Constrained, GroupsDeletable,
       GroupsDeleteOne, Without
  <2>. QED
    BY <2>1, <2>2
<1>. QED
  BY <1>1, <1>2, <1>3

LEMMA UsersKept ==
  ASSUME TablesTyped, TablesAgree, NEW c \in Calls,
         UNCHANGED <<backend, apps, bundles, files, entrypoints, groups, logs, cuts>>,
         \/ \E login \in Logins : UsersCreatable(login) /\ UsersCreateRow(c, login) /\
                members' = members
         \/ \E login \in Logins, gs \in SUBSET Ids : ~Constrained /\ UsersCreateRow(c,
                login) /\ MembersInsert(c, gs)
         \/ \E id \in Ids, gs \in SUBSET Ids : ~Constrained /\ UsersUpdateInMemory(id,
                gs)
         \/ \E id \in Ids, gs \in SUBSET Ids : MembersInsertable(id, gs) /\
                MembersInsert(id, gs) /\ users' = users
         \/ \E id \in Ids : \E gs : MembersKeepOnly(id, gs) /\ users' = users
         \/ \E id \in Ids : UsersDeleteOne(id)
  PROVE  TablesTyped' /\ TablesAgree'
<1>1. CASE \E login \in Logins : UsersCreatable(login) /\ UsersCreateRow(c, login) /\
            members' = members
  <2>1. TablesTyped'
    BY <1>1 DEF TablesTyped, Lost, Ids, Constrained, UsersCreatable, UsersCreateRow, UserWith, With
  <2>2. TablesAgree'
    BY <1>1 DEF TablesTyped, TablesAgree, References, Lost, Constrained, UsersCreatable,
       UsersCreateRow, UserWith, With
  <2>. QED
    BY <2>1, <2>2
<1>2. CASE \E login \in Logins, gs \in SUBSET Ids : ~Constrained /\ UsersCreateRow(c,
            login) /\ MembersInsert(c, gs)
  <2>1. TablesTyped'
    BY <1>2 DEF TablesTyped, Lost, Ids, Constrained, UsersCreateRow, MembersInsert, With
  <2>2. TablesAgree'
    BY <1>2 DEF TablesTyped, TablesAgree, References, Lost, Constrained, UsersCreateRow,
       MembersInsert, With
  <2>. QED
    BY <2>1, <2>2
<1>3. CASE \E id \in Ids, gs \in SUBSET Ids : ~Constrained /\ UsersUpdateInMemory(id, gs)
  <2>1. TablesTyped'
    BY <1>3 DEF TablesTyped, Lost, Ids, Constrained, UsersUpdateInMemory, With
  <2>2. TablesAgree'
    BY <1>3 DEF TablesTyped, TablesAgree, References, Lost, Constrained, UsersUpdateInMemory, With
  <2>. QED
    BY <2>1, <2>2
<1>4. CASE \E id \in Ids, gs \in SUBSET Ids : MembersInsertable(id, gs) /\
            MembersInsert(id, gs) /\ users' = users
  <2>1. TablesTyped'
    BY <1>4 DEF TablesTyped, Lost, Ids, Constrained, MembersInsertable, MembersInsert
  <2>2. TablesAgree'
    BY <1>4 DEF TablesTyped, TablesAgree, References, Lost, Constrained, MembersInsertable,
       MembersInsert
  <2>. QED
    BY <2>1, <2>2
<1>5. CASE \E id \in Ids : \E gs : MembersKeepOnly(id, gs) /\ users' = users
  <2>1. TablesTyped'
    BY <1>5 DEF TablesTyped, Lost, Ids, Constrained, MembersKeepOnly
  <2>2. TablesAgree'
    BY <1>5 DEF TablesTyped, TablesAgree, References, Lost, Constrained, MembersKeepOnly
  <2>. QED
    BY <2>1, <2>2
<1>6. CASE \E id \in Ids : UsersDeleteOne(id)
  <2>1. TablesTyped'
    BY <1>6 DEF TablesTyped, Lost, Ids, Constrained, UsersDeleteOne, Without
  <2>2. TablesAgree'
    BY <1>6 DEF TablesTyped, TablesAgree, References, Lost, Constrained, UsersDeleteOne, Without
  <2>. QED
    BY <2>1, <2>2
<1>. QED
  BY <1>1, <1>2, <1>3, <1>4, <1>5, <1>6

\* Every operation of the log is one that is asked for.
LEMMA OperationsAsked == \A op \in DOMAIN Awaits : op \in {r.op : r \in Requests}
<1>1. App \in AppNames /\ Url \in Urls /\ Tag \in Tags
  BY UseCasesAssumption
<1>2. /\ [op |-> "createApp", name |-> App] \in CreateAppRequests
      /\ [op |-> "updateApp", id |-> "seed"] \in UpdateAppRequests
      /\ [op |-> "deleteApp", id |-> "seed"] \in DeleteAppRequests
      /\ [op |-> "createBundle", tag |-> Tag] \in CreateBundleRequests
      /\ [op |-> "deleteBundles", tag |-> Tag] \in DeleteBundlesRequests
  BY <1>1 DEF CreateAppRequests, UpdateAppRequests, DeleteAppRequests, CreateBundleRequests,
       DeleteBundlesRequests
<1>3. /\ [op |-> "createEntrypoint", url |-> Url, app |-> "seed", bundle |-> None]
           \in CreateEntrypointRequests
      /\ [op |-> "updateEntrypoint", id |-> "seed", bundle |-> None]
           \in UpdateEntrypointRequests
      /\ [op |-> "deleteEntrypoint", id |-> "seed"] \in DeleteEntrypointRequests
      /\ [op |-> "deploy", tag |-> Tag, name |-> App, url |-> Url] \in DeployRequests
  BY <1>1 DEF CreateEntrypointRequests, UpdateEntrypointRequests, DeleteEntrypointRequests,
       DeployRequests, Bundle
<1>4. /\ [op |-> "createGroup", name |-> "new", roles |-> RootRoles] \in CreateGroupRequests
      /\ [op |-> "updateGroup", id |-> "dev", name |-> "new", roles |-> {}]
           \in UpdateGroupRequests
      /\ [op |-> "deleteGroup", id |-> "dev"] \in DeleteGroupRequests
  BY DEF CreateGroupRequests, UpdateGroupRequests, DeleteGroupRequests
<1>5. /\ [op |-> "createUser", login |-> "new", groups |-> {}] \in CreateUserRequests
      /\ [op |-> "updateUser", id |-> "dev", groups |-> {}] \in UpdateUserRequests
      /\ [op |-> "deleteUser", id |-> "dev"] \in DeleteUserRequests
      /\ [op |-> "respond", url |-> Url] \in RespondRequests
      /\ [op |-> "bootstrap"] \in BootstrapRequests
  BY <1>1 DEF CreateUserRequests, UpdateUserRequests, DeleteUserRequests, RespondRequests,
       BootstrapRequests
<1>6. \A r : \/ r \in CreateAppRequests \/ r \in UpdateAppRequests \/ r \in DeleteAppRequests
            \/ r \in CreateBundleRequests \/ r \in DeleteBundlesRequests
            \/ r \in CreateEntrypointRequests \/ r \in UpdateEntrypointRequests
            \/ r \in DeleteEntrypointRequests \/ r \in DeployRequests
            \/ r \in CreateGroupRequests \/ r \in UpdateGroupRequests
            \/ r \in DeleteGroupRequests \/ r \in CreateUserRequests
            \/ r \in UpdateUserRequests \/ r \in DeleteUserRequests
            \/ r \in RespondRequests \/ r \in BootstrapRequests
            => r \in Requests
  BY DEF Requests
<1>7. \A r \in Requests : r.op \in {q.op : q \in Requests}
  OBVIOUS
<1>8. /\ "createApp" \in {r.op : r \in Requests} /\ "updateApp" \in {r.op : r \in Requests}
      /\ "deleteApp" \in {r.op : r \in Requests}
      /\ "createBundle" \in {r.op : r \in Requests}
      /\ "deleteBundles" \in {r.op : r \in Requests}
  BY <1>2, <1>6, <1>7
<1>9. /\ "createEntrypoint" \in {r.op : r \in Requests}
      /\ "updateEntrypoint" \in {r.op : r \in Requests}
      /\ "deleteEntrypoint" \in {r.op : r \in Requests}
      /\ "deploy" \in {r.op : r \in Requests}
  BY <1>3, <1>6, <1>7
<1>10. /\ "createGroup" \in {r.op : r \in Requests}
       /\ "updateGroup" \in {r.op : r \in Requests}
       /\ "deleteGroup" \in {r.op : r \in Requests}
  BY <1>4, <1>6, <1>7
<1>11. /\ "createUser" \in {r.op : r \in Requests}
       /\ "updateUser" \in {r.op : r \in Requests}
       /\ "deleteUser" \in {r.op : r \in Requests}
       /\ "respond" \in {r.op : r \in Requests}
       /\ "bootstrap" \in {r.op : r \in Requests}
  BY <1>5, <1>6, <1>7
<1>. QED
  BY <1>8, <1>9, <1>10, <1>11 DEF Awaits

\* Steps that change no table, and steps that change one that is not the bundles'.
LEMMA EndsStores ==
  ASSUME StoresInv, NEW c \in Calls, Running(c), NEW status \in Answers, Ends(c, status),
         UNCHANGED db, cuts' \in Nat,
         \/ status = CutOff \/ call[c].op \notin {"createBundle", "deleteBundles"}
         \/ call[c].pc \notin {"upload", "unlink", "act"}
         \/ call[c].op = "deleteBundles" /\ status = 500 /\ ~call[c].alone
  PROVE  StoresInv'
<1>1. Stepped(c) /\ Own(c)'
  BY Steppings, EndsOwn DEF StoresInv, db
<1>2. TablesTyped' /\ TablesAgree'
  BY DEF StoresInv, db, tables, TablesTyped, TablesAgree, Lost, Constrained, References
<1>3. UNCHANGED <<bundles, files>>
  BY DEF db, tables
<1>. QED
  BY <1>1, <1>2, <1>3, BundlesStay DEF Ends, Became, Keeps

LEMMA MovesStores ==
  ASSUME StoresInv, NEW c \in Calls, Running(c), NEW pc \in Awaits[call[c].op],
         pc # "idle", UNCHANGED <<db, cuts>>,
         call[c].op \notin {"createBundle", "deleteBundles", "deploy"},
         call[c].pc \notin {"log", "link", "unlink"} \/ call[c].op = "bootstrap",
         \/ Moves(c, pc)
         \/ \E roles : Grants(c, roles, pc)
         \/ \E what : Sees(c, pc, what) /\ (call[c].op = "bootstrap" => what \in Ids),
         call[c].op = "createEntrypoint" /\ pc \in {"checkUrl", "act"} =>
           call[c].pc \in {"checkUrl", "act"} \/ Req(c).url \notin InvalidUrls,
         call[c].op = "bootstrap" => call[c].pc \notin {"find", "end"} \/ \E what \in Ids : Sees(c, pc, what)
  PROVE  StoresInv'
<1>1. Own(c)'
  BY MovesOwn DEF StoresInv
<1>2. TablesTyped' /\ TablesAgree' /\ UNCHANGED <<bundles, files>> /\ backend' = backend
  BY DEF StoresInv, db, tables, TablesTyped, TablesAgree, Lost, Constrained, References
<1>3. Stepped(c)
  BY <1>2, Steppings
<1>. QED
  BY <1>1, <1>2, <1>3, BundlesStay

LEMMA WritesStores ==
  ASSUME StoresInv, NEW c \in Calls, Running(c), NEW pc \in Awaits[call[c].op],
         pc # "idle", Writes(c, pc), UNCHANGED <<backend, bundles, files>>,
         TablesTyped', TablesAgree',
         call[c].op \notin {"createBundle", "deleteBundles", "deploy"},
         \/ pc \in {"log", "link"} \/ call[c].op = "bootstrap"
         \/ call[c].op = "updateUser" /\ pc = "unlink",
         call[c].op = "bootstrap" => call[c].pc \notin {"find", "end"}
  PROVE  StoresInv'
<1>1. Own(c)'
  BY WritesOwn DEF StoresInv
<1>3. Stepped(c)
  BY Steppings
<1>. QED
  BY <1>1, <1>3, BundlesStay

LEMMA EnsureStores ==
  ASSUME StoresInv, NEW c \in Calls, Running(c), NEW holds \in BOOLEAN,
         NEW pc \in Awaits[call[c].op], pc # "idle", NEW status \in Answers,
         Ensure(c, holds, pc, status),
         call[c].op \notin {"createBundle", "deleteBundles", "deploy", "bootstrap"},
         call[c].pc \notin {"log", "link", "unlink"},
         call[c].op = "createEntrypoint" /\ holds /\ pc \in {"checkUrl", "act"} =>
           call[c].pc \in {"checkUrl", "act"} \/ Req(c).url \notin InvalidUrls
  PROVE  StoresInv'
<1>1. UNCHANGED <<db, cuts>> /\ CallsShaped /\ cuts' \in Nat
  BY DEF Ensure, StoresInv, TablesTyped
<1>2. CASE holds
  <2>1. Moves(c, pc)
    BY <1>1, <1>2, GotoMoves DEF Ensure
  <2>. QED
    BY <1>1, <1>2, <2>1, MovesStores
<1>3. CASE ~holds
  <2>1. Ends(c, status)
    BY <1>1, <1>3, AnswerEnds DEF Ensure
  <2>. QED
    BY <1>1, <2>1, EndsStores
<1>. QED
  BY <1>2, <1>3

\* A statement that was refused.
LEMMA RefusedStores ==
  ASSUME StoresInv, NEW c \in Calls, Running(c), Answer(c, 500),
         UNCHANGED <<backend, logs, cuts, tables>>,
         call[c].op \notin {"createBundle", "deleteBundles"}
  PROVE  StoresInv'
<1>1. Ends(c, 500) /\ UNCHANGED db /\ cuts' \in Nat
  BY AnswerEnds DEF StoresInv, TablesTyped, db
<1>. QED
  BY <1>1, EndsStores DEF Answers, Statuses

LEMMA AuthorizeStores ==
  ASSUME StoresInv, NEW c \in Calls, Authorize(c)
  PROVE  StoresInv'
<1>1. /\ CallsShaped /\ call[c].pc = "auth" /\ Running(c) /\ UNCHANGED <<db, cuts>>
      /\ cuts' \in Nat
  BY DEF StoresInv, Authorize, Running, TablesTyped
<1>2. \/ \E status \in {403, 500} : Answer(c, status)
      \/ \E roles : call' = [call EXCEPT ![c].roles = roles, ![c].pc = Authorized(call[c].op)]
  BY ZenonT(60) DEF Authorize
<1>3. CASE \E status \in {403, 500} : Answer(c, status)
  <2>1. PICK status \in {403, 500} : Answer(c, status)
    BY <1>3
  <2>2. Ends(c, status) /\ status \in Answers
    BY <1>1, <2>1, AnswerEnds DEF Answers, Statuses
  <2>. QED
    BY <1>1, <2>2, EndsStores
<1>4. CASE \E roles : call' = [call EXCEPT ![c].roles = roles,
                                          ![c].pc = Authorized(call[c].op)]
  <2>1. PICK roles : call' = [call EXCEPT ![c].roles = roles, ![c].pc = Authorized(call[c].op)]
    BY <1>4
  <2>2. Authorized(call[c].op) # "idle"
    BY DEF Authorized
  <2>3. Grants(c, roles, Authorized(call[c].op))
    BY <1>1, <2>1, <2>2, GrantGrants
  <2>4. call[c].op \in DOMAIN Awaits /\ "auth" \in Awaits[call[c].op]
    BY <1>1 DEF StoresInv, Own, Asking
  <2>5. Authorized(call[c].op) \in Awaits[call[c].op]
    BY <2>4 DEF Authorized, Awaits
  <2>6. call[c].op \notin {"respond", "bootstrap", "deploy"}
    BY <2>4 DEF Awaits
  <2>7. CASE call[c].op \notin {"createBundle", "deleteBundles"}
    <3>1. call[c].op = "createEntrypoint" => Authorized(call[c].op) = "check"
      BY DEF Authorized
    <3>. QED
      BY <1>1, <2>2, <2>3, <2>5, <2>6, <2>7, <3>1, MovesStores
  <2>8. CASE call[c].op \in {"createBundle", "deleteBundles"}
    <3>1. /\ Became(c, call[c].op, call[c].req, Authorized(call[c].op), call[c].rest)
          /\ call'[c].wrote = call[c].wrote /\ call'[c].answer = call[c].answer
          /\ call'[c].saw = call[c].saw
      BY <2>3 DEF Grants, Keeps
    <3>2. /\ Authorized("deleteBundles") = "find"
          /\ Authorized("createBundle") = IF Constrained THEN "upload" ELSE "act"
      BY DEF Authorized
    <3>3. Asking(c)' /\ Writing(c)' /\ Preparing(c)'
      BY <1>1, <2>4, <2>5, <2>8, <3>1
         DEF StoresInv, Own, Asking, Writing, Preparing, Became, Running, Req, Second
    <3>4. Bundling(c)' /\ Unused(c)'
      BY <1>1, <2>8, <3>1, <3>2
         DEF StoresInv, Own, Became, Bundling, Unused, Constrained, db, Made
    <3>5. Stepped(c) /\ UNCHANGED <<bundles, files>> /\ TablesTyped' /\ TablesAgree'
      BY <1>1, <2>2, <2>3, Steppings
         DEF StoresInv, db, tables, TablesTyped, TablesAgree, Lost, Constrained, References
    <3>. QED
      BY <1>1, <3>1, <3>3, <3>4, <3>5, BundlesStay DEF Own, Became
  <2>. QED
    BY <2>7, <2>8
<1>. QED
  BY <1>2, <1>3, <1>4, ZenonT(60)

\* A use case of a deploy begins.
LEMMA ContinuesStores ==
  ASSUME StoresInv, NEW c \in Calls, Running(c), NEW now, NEW then,
         Continues(c, now, then), UNCHANGED <<backend, tables, cuts>>, TablesTyped',
         call[c].asked.op = "deploy", now.op \in DeployOps \ {"deploy"},
         RequestTyped(now.op, now),
         then # None => now.op = "createApp" /\ RequestTyped("createEntrypoint", then),
         \/ call[c].wrote = {}
         \/ call[c].wrote = {"createApp"} /\ now.op = "createEntrypoint"
  PROVE  StoresInv'
<1>1. Stepped(c)
  BY Steppings
<1>2. /\ Became(c, now.op, now, First(now.op), then)
      /\ call'[c].wrote = call[c].wrote /\ call'[c].answer = call[c].answer
  BY DEF Continues, Keeps
<1>3. First(now.op) \in Awaits[now.op] /\ First(now.op) \notin {"checkUrl", "act"}
      /\ now.op \in DOMAIN Awaits
  BY DEF First, FindsFirst, Awaits, DeployOps
<1>4. Asking(c)' /\ Writing(c)'
  BY <1>2, <1>3 DEF StoresInv, Own, Asking, Writing, Became, Running, Req, Second, DeployOps
<1>5. Preparing(c)' /\ Bundling(c)' /\ Unused(c)'
  BY <1>2, <1>3 DEF StoresInv, Own, Preparing, Became, Bundling, Unused, Running, DeployOps
<1>6. TablesAgree' /\ UNCHANGED <<bundles, files>>
  BY DEF StoresInv, tables, TablesAgree, Constrained, References
<1>7. call[c].op \in DeployOps
  BY DEF StoresInv, Own, Asking
<1>. QED
  BY <1>1, <1>4, <1>5, <1>6, <1>7, BundlesStay DEF Own, DeployOps

LEMMA LogStores ==
  ASSUME StoresInv, NEW c \in Calls, Log(c)
  PROVE  StoresInv'
<1>1. /\ CallsShaped /\ call[c].pc = "log" /\ Running(c) /\ Own(c)
      /\ UNCHANGED <<backend, tables, cuts>>
  BY DEF StoresInv, Log, Running
<1>2. call[c].op \in DOMAIN Awaits
  BY <1>1 DEF Own, Asking
<1>3. TablesTyped'
  BY <1>1, <1>2, OperationsAsked DEF StoresInv, Log, LogsCreateOne, TablesTyped, tables, Lost,
       Constrained
<1>4. CASE call[c].rest = None
  <2>1. Ends(c, 200)
    BY <1>1, <1>4, AnswerEnds DEF Log
  <2>2. 200 \in Answers
    BY DEF Answers, Statuses
  <2>3. Stepped(c) /\ Own(c)'
    BY <1>1, <2>1, <2>2, Steppings, EndsOwn
  <2>4. TablesAgree' /\ UNCHANGED <<bundles, files>>
    BY <1>1 DEF StoresInv, tables, TablesAgree, Constrained, References
  <2>. QED
    BY <1>1, <1>3, <2>1, <2>3, <2>4, BundlesStay DEF Ends, Became, Keeps
<1>5. CASE call[c].rest # None
  <2>1. Continues(c, call[c].rest, None)
    BY <1>1, <1>5, RunsContinues DEF Log
  <2>2. /\ call[c].asked.op = "deploy" /\ call[c].rest.op = "createEntrypoint"
        /\ call[c].wrote \subseteq {"createApp"}
        /\ RequestTyped("createEntrypoint", call[c].rest)
    BY <1>1, <1>5 DEF Own, Asking, Writing, RequestTyped
  <2>. QED
    BY <1>1, <1>3, <1>5, <2>1, <2>2, ContinuesStores DEF DeployOps
<1>. QED
  BY <1>4, <1>5

LEMMA CreateAppStores ==
  ASSUME StoresInv, NEW c \in Calls, CreateApp(c)
  PROVE  StoresInv'
<1>1. At(c, "createApp", "check") \/ At(c, "createApp", "act")
  BY Zenon DEF CreateApp
<1>2. /\ CallsShaped /\ Running(c) /\ Own(c) /\ {200, 400, 404, 409, 500} \subseteq Answers
      /\ call[c].op = "createApp"
  BY <1>1 DEF StoresInv, Running, At, Answers, Statuses
<1>3. /\ CallsShaped /\ Running(c) /\ Own(c) /\ {200, 400, 404, 409, 500} \subseteq Answers
      /\ call[c].op = "createApp" /\ {"act", "log"} \subseteq Awaits[call[c].op]
      /\ Req(c).name \in AppNames
  <2>1. RequestTyped(call[c].op, Req(c))
    BY <1>2 DEF Own, Asking
  <2>2. {"act", "log"} \subseteq Awaits[call[c].op]
    BY <1>2 DEF Awaits
  <2>. QED
    BY <1>2, <2>1, <2>2 DEF RequestTyped, Ids, Logins
<1>4. CASE At(c, "createApp", "check") /\ Ensure(c, AppNamed(Req(c).name) = {}, "act", 409)
  <2>1. PICK holds \in BOOLEAN : Ensure(c, holds, "act", 409)
    BY <1>4
  <2>2. call[c].op = "createApp" /\ call[c].pc = "check"
    BY <1>4 DEF At
  <2>3. "act" \in Awaits[call[c].op] /\ 409 \in Answers
    BY <1>3
  <2>. QED
    BY <1>3, <2>1, <2>2, <2>3, EnsureStores
<1>5. CASE At(c, "createApp", "act") /\ Attempt(c, AppsCreatable(Req(c).name), "log",
            AppsCreateOne(c, Req(c).name), <<bundles, files, entrypoints, groups, users,
            members>>)
  <2>1. CASE AppsCreatable(Req(c).name)
    <3>1. /\ AppsCreateOne(c, Req(c).name)
          /\ UNCHANGED <<backend, bundles, files, entrypoints, groups, users, members, logs,
                        cuts>>
          /\ Writes(c, "log")
      BY <1>3, <1>5, <2>1, WriteWrites DEF At, Attempt
    <3>2. TablesTyped' /\ TablesAgree'
      BY <1>3, <1>5, <2>1, <3>1, AppsKept DEF StoresInv, At
    <3>. QED
      BY <1>3, <1>5, <3>1, <3>2, WritesStores DEF At
  <2>2. CASE ~AppsCreatable(Req(c).name)
    BY <1>3, <1>5, <2>2, RefusedStores DEF At, Attempt, tables
  <2>. QED
    BY <2>1, <2>2
<1>. QED
  BY <1>4, <1>5 DEF CreateApp

LEMMA UpdateAppStores ==
  ASSUME StoresInv, NEW c \in Calls, UpdateApp(c)
  PROVE  StoresInv'
<1>1. At(c, "updateApp", "find") \/ At(c, "updateApp", "act")
  BY Zenon DEF UpdateApp
<1>2. /\ CallsShaped /\ Running(c) /\ Own(c) /\ {200, 400, 404, 409, 500} \subseteq Answers
      /\ call[c].op = "updateApp"
  BY <1>1 DEF StoresInv, Running, At, Answers, Statuses
<1>3. /\ CallsShaped /\ Running(c) /\ Own(c) /\ {200, 400, 404, 409, 500} \subseteq Answers
      /\ call[c].op = "updateApp" /\ {"auth", "act", "log"} \subseteq Awaits[call[c].op]
      /\ Req(c).id \in Ids
  <2>1. RequestTyped(call[c].op, Req(c))
    BY <1>2 DEF Own, Asking
  <2>2. {"auth", "act", "log"} \subseteq Awaits[call[c].op]
    BY <1>2 DEF Awaits
  <2>. QED
    BY <1>2, <2>1, <2>2 DEF RequestTyped, Ids, Logins
<1>4. CASE At(c, "updateApp", "find") /\ FindApp(c, Req(c).id)
  <2>1. CASE Req(c).id \in DOMAIN apps
    <3>1. Sees(c, "auth", apps[Req(c).id].name) /\ UNCHANGED <<db, cuts>>
      BY <1>3, <1>4, <2>1, SeeSees DEF FindApp
    <3>. QED
      BY <1>3, <1>4, <3>1, MovesStores, SMTT(30) DEF At
  <2>2. CASE Req(c).id \notin DOMAIN apps
    <3>1. Ends(c, 404) /\ UNCHANGED <<db, cuts>> /\ cuts' \in Nat
      BY <1>3, <1>4, <2>2, AnswerEnds DEF FindApp, StoresInv, TablesTyped
    <3>. QED
      BY <1>3, <1>4, <3>1, EndsStores DEF At
  <2>. QED
    BY <2>1, <2>2
<1>5. CASE At(c, "updateApp", "act") /\ Attempt(c, TRUE, "log", AppsUpdateOne(Req(c).id,
            c), <<bundles, files, entrypoints, groups, users, members>>)
  <2>1. /\ AppsUpdateOne(Req(c).id, c)
        /\ UNCHANGED <<backend, bundles, files, entrypoints, groups, users, members, logs,
                      cuts>>
        /\ Writes(c, "log")
    BY <1>3, <1>5, WriteWrites DEF At, Attempt
  <2>2. TablesTyped' /\ TablesAgree'
    BY <1>3, <1>5, <2>1, AppsKept DEF StoresInv, At
  <2>. QED
    BY <1>3, <1>5, <2>1, <2>2, WritesStores DEF At
<1>. QED
  BY <1>4, <1>5 DEF UpdateApp

LEMMA DeleteAppStores ==
  ASSUME StoresInv, NEW c \in Calls, DeleteApp(c)
  PROVE  StoresInv'
<1>1. At(c, "deleteApp", "find") \/ At(c, "deleteApp", "check") \/ At(c, "deleteApp", "act")
  BY Zenon DEF DeleteApp
<1>2. /\ CallsShaped /\ Running(c) /\ Own(c) /\ {200, 400, 404, 409, 500} \subseteq Answers
      /\ call[c].op = "deleteApp"
  BY <1>1 DEF StoresInv, Running, At, Answers, Statuses
<1>3. /\ CallsShaped /\ Running(c) /\ Own(c) /\ {200, 400, 404, 409, 500} \subseteq Answers
      /\ call[c].op = "deleteApp" /\ {"auth", "act", "log"} \subseteq Awaits[call[c].op]
      /\ Req(c).id \in Ids
  <2>1. RequestTyped(call[c].op, Req(c))
    BY <1>2 DEF Own, Asking
  <2>2. {"auth", "act", "log"} \subseteq Awaits[call[c].op]
    BY <1>2 DEF Awaits
  <2>. QED
    BY <1>2, <2>1, <2>2 DEF RequestTyped, Ids, Logins
<1>4. CASE At(c, "deleteApp", "find") /\ FindApp(c, Req(c).id)
  <2>1. CASE Req(c).id \in DOMAIN apps
    <3>1. Sees(c, "auth", apps[Req(c).id].name) /\ UNCHANGED <<db, cuts>>
      BY <1>3, <1>4, <2>1, SeeSees DEF FindApp
    <3>. QED
      BY <1>3, <1>4, <3>1, MovesStores, ZenonT(60) DEF At
  <2>2. CASE Req(c).id \notin DOMAIN apps
    <3>1. Ends(c, 404) /\ UNCHANGED <<db, cuts>> /\ cuts' \in Nat
      BY <1>3, <1>4, <2>2, AnswerEnds DEF FindApp, StoresInv, TablesTyped
    <3>. QED
      BY <1>3, <1>4, <3>1, EndsStores DEF At
  <2>. QED
    BY <2>1, <2>2
<1>5. CASE At(c, "deleteApp", "check") /\ Ensure(c, \A e \in DOMAIN entrypoints :
            entrypoints[e].app # Req(c).id, "act", 409)
  <2>0. UNCHANGED <<db, cuts>> /\ cuts' \in Nat
    BY <1>5 DEF Ensure, StoresInv, TablesTyped
  <2>1. CASE \A e \in DOMAIN entrypoints : entrypoints[e].app # Req(c).id
    <3>1. Moves(c, "act")
      BY <1>3, <1>5, <2>1, GotoMoves DEF Ensure
    <3>. QED
      BY <1>3, <1>5, <2>0, <2>1, <3>1, MovesStores DEF At
  <2>2. CASE ~(\A e \in DOMAIN entrypoints : entrypoints[e].app # Req(c).id)
    <3>1. Ends(c, 409)
      BY <1>3, <1>5, <2>2, AnswerEnds DEF Ensure
    <3>. QED
      BY <1>3, <1>5, <2>0, <3>1, EndsStores DEF At
  <2>. QED
    BY <2>1, <2>2
<1>6. CASE At(c, "deleteApp", "act") /\ Attempt(c, AppsDeletable(Req(c).id), "log",
            AppsDeleteOne(Req(c).id), <<bundles, files, entrypoints, groups, users,
            members>>)
  <2>1. CASE AppsDeletable(Req(c).id)
    <3>1. /\ AppsDeleteOne(Req(c).id)
          /\ UNCHANGED <<backend, bundles, files, entrypoints, groups, users, members, logs,
                        cuts>>
          /\ Writes(c, "log")
      BY <1>3, <1>6, <2>1, WriteWrites DEF At, Attempt
    <3>2. TablesTyped' /\ TablesAgree'
      BY <1>3, <1>6, <2>1, <3>1, AppsKept DEF StoresInv, At
    <3>. QED
      BY <1>3, <1>6, <3>1, <3>2, WritesStores DEF At
  <2>2. CASE ~AppsDeletable(Req(c).id)
    BY <1>3, <1>6, <2>2, RefusedStores DEF At, Attempt, tables
  <2>. QED
    BY <2>1, <2>2
<1>. QED
  BY <1>4, <1>5, <1>6 DEF DeleteApp

LEMMA CreateEntrypointStores ==
  ASSUME StoresInv, NEW c \in Calls, CreateEntrypoint(c)
  PROVE  StoresInv'
<1>1. At(c, "createEntrypoint", "find") \/ At(c, "createEntrypoint", "check") \/ At(c,
      "createEntrypoint", "checkUrl") \/ At(c, "createEntrypoint", "act")
  BY Zenon DEF CreateEntrypoint
<1>2. /\ CallsShaped /\ Running(c) /\ Own(c) /\ {200, 400, 404, 409, 500} \subseteq Answers
      /\ call[c].op = "createEntrypoint"
  BY <1>1 DEF StoresInv, Running, At, Answers, Statuses
<1>3. /\ CallsShaped /\ Running(c) /\ Own(c) /\ {200, 400, 404, 409, 500} \subseteq Answers
      /\ call[c].op = "createEntrypoint" /\ {"auth", "checkUrl", "act", "log"} \subseteq Awaits[call[c].op]
      /\ Req(c).url \in Urls /\ Req(c).app \in Ids /\ Req(c).bundle \in Ids \cup {None}
  <2>1. RequestTyped(call[c].op, Req(c))
    BY <1>2 DEF Own, Asking
  <2>2. {"auth", "checkUrl", "act", "log"} \subseteq Awaits[call[c].op]
    BY <1>2 DEF Awaits
  <2>. QED
    BY <1>2, <2>1, <2>2 DEF RequestTyped, Ids, Logins
<1>4. CASE At(c, "createEntrypoint", "find") /\ FindApp(c, Req(c).app)
  <2>1. CASE Req(c).app \in DOMAIN apps
    <3>1. Sees(c, "auth", apps[Req(c).app].name) /\ UNCHANGED <<db, cuts>>
      BY <1>3, <1>4, <2>1, SeeSees DEF FindApp
    <3>. QED
      BY <1>3, <1>4, <3>1, MovesStores, ZenonT(60) DEF At
  <2>2. CASE Req(c).app \notin DOMAIN apps
    <3>1. Ends(c, 404) /\ UNCHANGED <<db, cuts>> /\ cuts' \in Nat
      BY <1>3, <1>4, <2>2, AnswerEnds DEF FindApp, StoresInv, TablesTyped
    <3>. QED
      BY <1>3, <1>4, <3>1, EndsStores DEF At
  <2>. QED
    BY <2>1, <2>2
<1>5. CASE At(c, "createEntrypoint", "check") /\ Ensure(c, Req(c).url \notin InvalidUrls /\
            BundleFound(Req(c).bundle), "checkUrl", IF Req(c).url \in InvalidUrls THEN 400
            ELSE 404)
  <2>0. UNCHANGED <<db, cuts>> /\ cuts' \in Nat
    BY <1>5 DEF Ensure, StoresInv, TablesTyped
  <2>1. CASE Req(c).url \notin InvalidUrls /\ BundleFound(Req(c).bundle)
    <3>1. Moves(c, "checkUrl")
      BY <1>3, <1>5, <2>1, GotoMoves DEF Ensure
    <3>. QED
      BY <1>3, <1>5, <2>0, <2>1, <3>1, MovesStores DEF At
  <2>2. CASE ~(Req(c).url \notin InvalidUrls /\ BundleFound(Req(c).bundle))
    <3>1. Ends(c, IF Req(c).url \in InvalidUrls THEN 400 ELSE 404)
      BY <1>3, <1>5, <2>2, AnswerEnds DEF Ensure
    <3>. QED
      BY <1>3, <1>5, <2>0, <3>1, EndsStores DEF At
  <2>. QED
    BY <2>1, <2>2
<1>6. CASE At(c, "createEntrypoint", "checkUrl") /\ Ensure(c, EntrypointAt(Req(c).url) =
            {}, "act", 409)
  <2>1. PICK holds \in BOOLEAN : Ensure(c, holds, "act", 409)
    BY <1>6
  <2>2. call[c].op = "createEntrypoint" /\ call[c].pc = "checkUrl"
    BY <1>6 DEF At
  <2>3. "act" \in Awaits[call[c].op] /\ 409 \in Answers
    BY <1>3
  <2>. QED
    BY <1>3, <2>1, <2>2, <2>3, EnsureStores
<1>7. CASE At(c, "createEntrypoint", "act") /\ Attempt(c, EntrypointsCreatable(Req(c).url,
            Req(c).app, Req(c).bundle), "log", EntrypointsCreateOne(c, Req(c).url,
            Req(c).app, Req(c).bundle), <<apps, bundles, files, groups, users, members>>)
  <2>1. CASE EntrypointsCreatable(Req(c).url, Req(c).app, Req(c).bundle)
    <3>1. /\ EntrypointsCreateOne(c, Req(c).url, Req(c).app, Req(c).bundle)
          /\ UNCHANGED <<backend, apps, bundles, files, groups, users, members, logs, cuts>>
          /\ Writes(c, "log")
      BY <1>3, <1>7, <2>1, WriteWrites DEF At, Attempt
    <3>2. TablesTyped' /\ TablesAgree'
      BY <1>3, <1>7, <2>1, <3>1, EntrypointsKept DEF StoresInv, At, Own, Preparing
    <3>. QED
      BY <1>3, <1>7, <3>1, <3>2, WritesStores DEF At
  <2>2. CASE ~EntrypointsCreatable(Req(c).url, Req(c).app, Req(c).bundle)
    BY <1>3, <1>7, <2>2, RefusedStores DEF At, Attempt, tables
  <2>. QED
    BY <2>1, <2>2
<1>. QED
  BY <1>4, <1>5, <1>6, <1>7 DEF CreateEntrypoint

LEMMA UpdateEntrypointStores ==
  ASSUME StoresInv, NEW c \in Calls, UpdateEntrypoint(c)
  PROVE  StoresInv'
<1>1. At(c, "updateEntrypoint", "find") \/ At(c, "updateEntrypoint", "check") \/ At(c,
      "updateEntrypoint", "act")
  BY Zenon DEF UpdateEntrypoint
<1>2. /\ CallsShaped /\ Running(c) /\ Own(c) /\ {200, 400, 404, 409, 500} \subseteq Answers
      /\ call[c].op = "updateEntrypoint"
  BY <1>1 DEF StoresInv, Running, At, Answers, Statuses
<1>3. /\ CallsShaped /\ Running(c) /\ Own(c) /\ {200, 400, 404, 409, 500} \subseteq Answers
      /\ call[c].op = "updateEntrypoint" /\ {"auth", "act", "log"} \subseteq Awaits[call[c].op]
      /\ Req(c).id \in Ids /\ Req(c).bundle \in Ids \cup {None}
  <2>1. RequestTyped(call[c].op, Req(c))
    BY <1>2 DEF Own, Asking
  <2>2. {"auth", "act", "log"} \subseteq Awaits[call[c].op]
    BY <1>2 DEF Awaits
  <2>. QED
    BY <1>2, <2>1, <2>2 DEF RequestTyped, Ids, Logins
<1>4. CASE At(c, "updateEntrypoint", "find") /\ FindEntrypoint(c)
  <2>1. CASE Req(c).id \in DOMAIN entrypoints
    <3>1. Sees(c, "auth", entrypoints[Req(c).id].url) /\ UNCHANGED <<db, cuts>>
      BY <1>3, <1>4, <2>1, SeeSees DEF FindEntrypoint
    <3>. QED
      BY <1>3, <1>4, <3>1, MovesStores DEF At
  <2>2. CASE Req(c).id \notin DOMAIN entrypoints
    <3>1. Ends(c, 404) /\ UNCHANGED <<db, cuts>> /\ cuts' \in Nat
      BY <1>3, <1>4, <2>2, AnswerEnds DEF FindEntrypoint, StoresInv, TablesTyped
    <3>. QED
      BY <1>3, <1>4, <3>1, EndsStores DEF At
  <2>. QED
    BY <2>1, <2>2
<1>5. CASE At(c, "updateEntrypoint", "check") /\ Ensure(c, BundleFound(Req(c).bundle),
            "act", 404)
  <2>0. UNCHANGED <<db, cuts>> /\ cuts' \in Nat
    BY <1>5 DEF Ensure, StoresInv, TablesTyped
  <2>1. CASE BundleFound(Req(c).bundle)
    <3>1. Moves(c, "act")
      BY <1>3, <1>5, <2>1, GotoMoves DEF Ensure
    <3>. QED
      BY <1>3, <1>5, <2>0, <2>1, <3>1, MovesStores DEF At
  <2>2. CASE ~(BundleFound(Req(c).bundle))
    <3>1. Ends(c, 404)
      BY <1>3, <1>5, <2>2, AnswerEnds DEF Ensure
    <3>. QED
      BY <1>3, <1>5, <2>0, <3>1, EndsStores DEF At
  <2>. QED
    BY <2>1, <2>2
<1>6. CASE At(c, "updateEntrypoint", "act") /\ Attempt(c, EntrypointsUpdatable(Req(c).id,
            Req(c).bundle), "log", EntrypointsUpdateOne(Req(c).id, Req(c).bundle), <<apps,
            bundles, files, groups, users, members>>)
  <2>1. CASE EntrypointsUpdatable(Req(c).id, Req(c).bundle)
    <3>1. /\ EntrypointsUpdateOne(Req(c).id, Req(c).bundle)
          /\ UNCHANGED <<backend, apps, bundles, files, groups, users, members, logs, cuts>>
          /\ Writes(c, "log")
      BY <1>3, <1>6, <2>1, WriteWrites DEF At, Attempt
    <3>2. TablesTyped' /\ TablesAgree'
      BY <1>3, <1>6, <2>1, <3>1, EntrypointsKept DEF StoresInv, At
    <3>. QED
      BY <1>3, <1>6, <3>1, <3>2, WritesStores DEF At
  <2>2. CASE ~EntrypointsUpdatable(Req(c).id, Req(c).bundle)
    BY <1>3, <1>6, <2>2, RefusedStores DEF At, Attempt, tables
  <2>. QED
    BY <2>1, <2>2
<1>. QED
  BY <1>4, <1>5, <1>6 DEF UpdateEntrypoint

LEMMA DeleteEntrypointStores ==
  ASSUME StoresInv, NEW c \in Calls, DeleteEntrypoint(c)
  PROVE  StoresInv'
<1>1. At(c, "deleteEntrypoint", "find") \/ At(c, "deleteEntrypoint", "act")
  BY Zenon DEF DeleteEntrypoint
<1>2. /\ CallsShaped /\ Running(c) /\ Own(c) /\ {200, 400, 404, 409, 500} \subseteq Answers
      /\ call[c].op = "deleteEntrypoint"
  BY <1>1 DEF StoresInv, Running, At, Answers, Statuses
<1>3. /\ CallsShaped /\ Running(c) /\ Own(c) /\ {200, 400, 404, 409, 500} \subseteq Answers
      /\ call[c].op = "deleteEntrypoint" /\ {"auth", "act", "log"} \subseteq Awaits[call[c].op]
      /\ Req(c).id \in Ids
  <2>1. RequestTyped(call[c].op, Req(c))
    BY <1>2 DEF Own, Asking
  <2>2. {"auth", "act", "log"} \subseteq Awaits[call[c].op]
    BY <1>2 DEF Awaits
  <2>. QED
    BY <1>2, <2>1, <2>2 DEF RequestTyped, Ids, Logins
<1>4. CASE At(c, "deleteEntrypoint", "find") /\ FindEntrypoint(c)
  <2>1. CASE Req(c).id \in DOMAIN entrypoints
    <3>1. Sees(c, "auth", entrypoints[Req(c).id].url) /\ UNCHANGED <<db, cuts>>
      BY <1>3, <1>4, <2>1, SeeSees DEF FindEntrypoint
    <3>. QED
      BY <1>3, <1>4, <3>1, MovesStores DEF At
  <2>2. CASE Req(c).id \notin DOMAIN entrypoints
    <3>1. Ends(c, 404) /\ UNCHANGED <<db, cuts>> /\ cuts' \in Nat
      BY <1>3, <1>4, <2>2, AnswerEnds DEF FindEntrypoint, StoresInv, TablesTyped
    <3>. QED
      BY <1>3, <1>4, <3>1, EndsStores DEF At
  <2>. QED
    BY <2>1, <2>2
<1>5. CASE At(c, "deleteEntrypoint", "act") /\ Attempt(c, TRUE, "log",
            EntrypointsDeleteOne(Req(c).id), <<apps, bundles, files, groups, users,
            members>>)
  <2>1. /\ EntrypointsDeleteOne(Req(c).id)
        /\ UNCHANGED <<backend, apps, bundles, files, groups, users, members, logs, cuts>>
        /\ Writes(c, "log")
    BY <1>3, <1>5, WriteWrites DEF At, Attempt
  <2>2. TablesTyped' /\ TablesAgree'
    BY <1>3, <1>5, <2>1, EntrypointsKept DEF StoresInv, At
  <2>. QED
    BY <1>3, <1>5, <2>1, <2>2, WritesStores DEF At
<1>. QED
  BY <1>4, <1>5 DEF DeleteEntrypoint

LEMMA CreateGroupStores ==
  ASSUME StoresInv, NEW c \in Calls, CreateGroup(c)
  PROVE  StoresInv'
<1>1. At(c, "createGroup", "check") \/ At(c, "createGroup", "act")
  BY Zenon DEF CreateGroup
<1>2. /\ CallsShaped /\ Running(c) /\ Own(c) /\ {200, 400, 404, 409, 500} \subseteq Answers
      /\ call[c].op = "createGroup"
  BY <1>1 DEF StoresInv, Running, At, Answers, Statuses
<1>3. /\ CallsShaped /\ Running(c) /\ Own(c) /\ {200, 400, 404, 409, 500} \subseteq Answers
      /\ call[c].op = "createGroup" /\ {"act", "log"} \subseteq Awaits[call[c].op]
  <2>1. RequestTyped(call[c].op, Req(c))
    BY <1>2 DEF Own, Asking
  <2>2. {"act", "log"} \subseteq Awaits[call[c].op]
    BY <1>2 DEF Awaits
  <2>. QED
    BY <1>2, <2>1, <2>2 DEF RequestTyped, Ids, Logins
<1>4. CASE At(c, "createGroup", "check") /\ Ensure(c, GroupNamed(Req(c).name) = {}, "act",
            409)
  <2>1. PICK holds \in BOOLEAN : Ensure(c, holds, "act", 409)
    BY <1>4
  <2>2. call[c].op = "createGroup" /\ call[c].pc = "check"
    BY <1>4 DEF At
  <2>3. "act" \in Awaits[call[c].op] /\ 409 \in Answers
    BY <1>3
  <2>. QED
    BY <1>3, <2>1, <2>2, <2>3, EnsureStores
<1>5. CASE At(c, "createGroup", "act") /\ Attempt(c, GroupsCreatable(Req(c).name), "log",
            GroupsCreateOne(c, Req(c).name, Req(c).roles), <<apps, bundles, files,
            entrypoints, users, members>>)
  <2>1. CASE GroupsCreatable(Req(c).name)
    <3>1. /\ GroupsCreateOne(c, Req(c).name, Req(c).roles)
          /\ UNCHANGED <<backend, apps, bundles, files, entrypoints, users, members, logs,
                        cuts>>
          /\ Writes(c, "log")
      BY <1>3, <1>5, <2>1, WriteWrites DEF At, Attempt
    <3>2. TablesTyped' /\ TablesAgree'
      BY <1>3, <1>5, <2>1, <3>1, GroupsKept DEF StoresInv, At
    <3>. QED
      BY <1>3, <1>5, <3>1, <3>2, WritesStores DEF At
  <2>2. CASE ~GroupsCreatable(Req(c).name)
    BY <1>3, <1>5, <2>2, RefusedStores DEF At, Attempt, tables
  <2>. QED
    BY <2>1, <2>2
<1>. QED
  BY <1>4, <1>5 DEF CreateGroup

LEMMA UpdateGroupStores ==
  ASSUME StoresInv, NEW c \in Calls, UpdateGroup(c)
  PROVE  StoresInv'
<1>1. At(c, "updateGroup", "find") \/ At(c, "updateGroup", "check") \/ At(c, "updateGroup",
      "act")
  BY Zenon DEF UpdateGroup
<1>2. /\ CallsShaped /\ Running(c) /\ Own(c) /\ {200, 400, 404, 409, 500} \subseteq Answers
      /\ call[c].op = "updateGroup"
  BY <1>1 DEF StoresInv, Running, At, Answers, Statuses
<1>3. /\ CallsShaped /\ Running(c) /\ Own(c) /\ {200, 400, 404, 409, 500} \subseteq Answers
      /\ call[c].op = "updateGroup" /\ {"check", "act", "log"} \subseteq Awaits[call[c].op]
      /\ Req(c).id \in Ids
  <2>1. RequestTyped(call[c].op, Req(c))
    BY <1>2 DEF Own, Asking
  <2>2. {"check", "act", "log"} \subseteq Awaits[call[c].op]
    BY <1>2 DEF Awaits
  <2>. QED
    BY <1>2, <2>1, <2>2 DEF RequestTyped, Ids, Logins
<1>4. CASE At(c, "updateGroup", "find") /\ FindGroup(c, "check")
  <2>1. CASE Req(c).id \in DOMAIN groups
    <3>1. Sees(c, "check", groups[Req(c).id].name) /\ UNCHANGED <<db, cuts>>
      BY <1>3, <1>4, <2>1, SeeSees DEF FindGroup
    <3>. QED
      BY <1>3, <1>4, <3>1, MovesStores, SMTT(30) DEF At
  <2>2. CASE Req(c).id \notin DOMAIN groups
    <3>1. Ends(c, 404) /\ UNCHANGED <<db, cuts>> /\ cuts' \in Nat
      BY <1>3, <1>4, <2>2, AnswerEnds DEF FindGroup, StoresInv, TablesTyped
    <3>. QED
      BY <1>3, <1>4, <3>1, EndsStores DEF At
  <2>. QED
    BY <2>1, <2>2
<1>5. CASE At(c, "updateGroup", "check") /\ Ensure(c, Req(c).name = call[c].saw \/
            GroupNamed(Req(c).name) = {}, "act", 409)
  <2>0. UNCHANGED <<db, cuts>> /\ cuts' \in Nat
    BY <1>5 DEF Ensure, StoresInv, TablesTyped
  <2>1. CASE Req(c).name = call[c].saw \/ GroupNamed(Req(c).name) = {}
    <3>1. Moves(c, "act")
      BY <1>3, <1>5, <2>1, GotoMoves DEF Ensure
    <3>. QED
      BY <1>3, <1>5, <2>0, <2>1, <3>1, MovesStores DEF At
  <2>2. CASE ~(Req(c).name = call[c].saw \/ GroupNamed(Req(c).name) = {})
    <3>1. Ends(c, 409)
      BY <1>3, <1>5, <2>2, AnswerEnds DEF Ensure
    <3>. QED
      BY <1>3, <1>5, <2>0, <3>1, EndsStores DEF At
  <2>. QED
    BY <2>1, <2>2
<1>6. CASE At(c, "updateGroup", "act") /\ Attempt(c, GroupsUpdatable(Req(c).id,
            Req(c).name), "log", GroupsUpdateOne(Req(c).id, Req(c).name, Req(c).roles),
            <<apps, bundles, files, entrypoints, users, members>>)
  <2>1. CASE GroupsUpdatable(Req(c).id, Req(c).name)
    <3>1. /\ GroupsUpdateOne(Req(c).id, Req(c).name, Req(c).roles)
          /\ UNCHANGED <<backend, apps, bundles, files, entrypoints, users, members, logs,
                        cuts>>
          /\ Writes(c, "log")
      BY <1>3, <1>6, <2>1, WriteWrites DEF At, Attempt
    <3>2. TablesTyped' /\ TablesAgree'
      BY <1>3, <1>6, <2>1, <3>1, GroupsKept DEF StoresInv, At
    <3>. QED
      BY <1>3, <1>6, <3>1, <3>2, WritesStores DEF At
  <2>2. CASE ~GroupsUpdatable(Req(c).id, Req(c).name)
    BY <1>3, <1>6, <2>2, RefusedStores DEF At, Attempt, tables
  <2>. QED
    BY <2>1, <2>2
<1>. QED
  BY <1>4, <1>5, <1>6 DEF UpdateGroup

LEMMA DeleteGroupStores ==
  ASSUME StoresInv, NEW c \in Calls, DeleteGroup(c)
  PROVE  StoresInv'
<1>1. At(c, "deleteGroup", "find") \/ At(c, "deleteGroup", "check") \/ At(c, "deleteGroup",
      "act")
  BY Zenon DEF DeleteGroup
<1>2. /\ CallsShaped /\ Running(c) /\ Own(c) /\ {200, 400, 404, 409, 500} \subseteq Answers
      /\ call[c].op = "deleteGroup"
  BY <1>1 DEF StoresInv, Running, At, Answers, Statuses
<1>3. /\ CallsShaped /\ Running(c) /\ Own(c) /\ {200, 400, 404, 409, 500} \subseteq Answers
      /\ call[c].op = "deleteGroup" /\ {"check", "act", "log"} \subseteq Awaits[call[c].op]
      /\ Req(c).id \in Ids
  <2>1. RequestTyped(call[c].op, Req(c))
    BY <1>2 DEF Own, Asking
  <2>2. {"check", "act", "log"} \subseteq Awaits[call[c].op]
    BY <1>2 DEF Awaits
  <2>. QED
    BY <1>2, <2>1, <2>2 DEF RequestTyped, Ids, Logins
<1>4. CASE At(c, "deleteGroup", "find") /\ FindGroup(c, "check")
  <2>1. CASE Req(c).id \in DOMAIN groups
    <3>1. Sees(c, "check", groups[Req(c).id].name) /\ UNCHANGED <<db, cuts>>
      BY <1>3, <1>4, <2>1, SeeSees DEF FindGroup
    <3>. QED
      BY <1>3, <1>4, <3>1, MovesStores, ZenonT(60) DEF At
  <2>2. CASE Req(c).id \notin DOMAIN groups
    <3>1. Ends(c, 404) /\ UNCHANGED <<db, cuts>> /\ cuts' \in Nat
      BY <1>3, <1>4, <2>2, AnswerEnds DEF FindGroup, StoresInv, TablesTyped
    <3>. QED
      BY <1>3, <1>4, <3>1, EndsStores DEF At
  <2>. QED
    BY <2>1, <2>2
<1>5. CASE At(c, "deleteGroup", "check") /\ Ensure(c, \A m \in members : m[2] # Req(c).id,
            "act", 409)
  <2>0. UNCHANGED <<db, cuts>> /\ cuts' \in Nat
    BY <1>5 DEF Ensure, StoresInv, TablesTyped
  <2>1. CASE \A m \in members : m[2] # Req(c).id
    <3>1. Moves(c, "act")
      BY <1>3, <1>5, <2>1, GotoMoves DEF Ensure
    <3>. QED
      BY <1>3, <1>5, <2>0, <2>1, <3>1, MovesStores DEF At
  <2>2. CASE ~(\A m \in members : m[2] # Req(c).id)
    <3>1. Ends(c, 409)
      BY <1>3, <1>5, <2>2, AnswerEnds DEF Ensure
    <3>. QED
      BY <1>3, <1>5, <2>0, <3>1, EndsStores DEF At
  <2>. QED
    BY <2>1, <2>2
<1>6. CASE At(c, "deleteGroup", "act") /\ Attempt(c, GroupsDeletable(Req(c).id), "log",
            GroupsDeleteOne(Req(c).id), <<apps, bundles, files, entrypoints, users,
            members>>)
  <2>1. CASE GroupsDeletable(Req(c).id)
    <3>1. /\ GroupsDeleteOne(Req(c).id)
          /\ UNCHANGED <<backend, apps, bundles, files, entrypoints, users, members, logs,
                        cuts>>
          /\ Writes(c, "log")
      BY <1>3, <1>6, <2>1, WriteWrites DEF At, Attempt
    <3>2. TablesTyped' /\ TablesAgree'
      BY <1>3, <1>6, <2>1, <3>1, GroupsKept DEF StoresInv, At
    <3>. QED
      BY <1>3, <1>6, <3>1, <3>2, WritesStores DEF At
  <2>2. CASE ~GroupsDeletable(Req(c).id)
    BY <1>3, <1>6, <2>2, RefusedStores DEF At, Attempt, tables
  <2>. QED
    BY <2>1, <2>2
<1>. QED
  BY <1>4, <1>5, <1>6 DEF DeleteGroup

LEMMA InsertUserStores ==
  ASSUME StoresInv, NEW c \in Calls, Running(c), NEW login \in Logins, NEW gs \in SUBSET Ids,
         NEW next \in {"log", "end"}, next \in Awaits[call[c].op],
         call[c].op \in {"createUser", "bootstrap"}, call[c].pc = "act",
         next = "log" \/ call[c].op = "bootstrap",
         InsertUser(c, login, gs, next)
  PROVE  StoresInv'
<1>1. CallsShaped /\ {"link"} \subseteq Awaits[call[c].op] /\ TablesTyped /\ TablesAgree
  BY DEF StoresInv, Awaits
<1>2. CASE Constrained /\ UsersCreatable(login)
  <2>1. PICK pc \in {next, "link"} : call' = [call EXCEPT ![c].pc = pc, ![c].wrote = @ \cup {call[c].op}]
    BY <1>2 DEF InsertUser, Attempt
  <2>2. /\ UsersCreateRow(c, login)
        /\ UNCHANGED <<backend, apps, bundles, files, entrypoints, groups, members, logs, cuts>>
    BY <1>2 DEF InsertUser, Attempt
  <2>3. Writes(c, pc)
    BY <1>1, <2>1, WriteWrites
  <2>4. TablesTyped' /\ TablesAgree'
    BY <1>1, <1>2, <2>2, UsersKept
  <2>. QED
    BY <1>1, <2>2, <2>3, <2>4, WritesStores
<1>3. CASE Constrained /\ ~UsersCreatable(login)
  BY <1>3, RefusedStores DEF InsertUser, Attempt, tables
<1>4. CASE ~Constrained
  <2>1. /\ UsersCreateRow(c, login) /\ MembersInsert(c, gs) /\ Writes(c, next)
        /\ UNCHANGED <<backend, apps, bundles, files, entrypoints, groups, logs, cuts>>
    BY <1>1, <1>4, WriteWrites DEF InsertUser, Attempt
  <2>2. TablesTyped' /\ TablesAgree'
    BY <1>1, <1>4, <2>1, UsersKept
  <2>. QED
    BY <1>1, <2>1, <2>2, WritesStores
<1>. QED
  BY <1>2, <1>3, <1>4

LEMMA LinkUserStores ==
  ASSUME StoresInv, NEW c \in Calls, Running(c), NEW user \in Ids, NEW gs \in SUBSET Ids,
         NEW next \in {"log", "end", "unlink"}, next \in Awaits[call[c].op],
         call[c].op \in {"createUser", "updateUser", "bootstrap"}, call[c].pc = "link",
         next \in {"log", "end"} => call[c].op \in {"createUser", "bootstrap"},
         next = "end" => call[c].op = "bootstrap",
         next = "unlink" => call[c].op = "updateUser",
         LinkUser(c, user, gs, next)
  PROVE  StoresInv'
<1>1. CallsShaped /\ TablesTyped /\ TablesAgree
  BY DEF StoresInv
<1>2. CASE MembersInsertable(user, gs)
  <2>1. /\ MembersInsert(user, gs) /\ Writes(c, next)
        /\ UNCHANGED <<backend, apps, bundles, files, entrypoints, groups, users, logs, cuts>>
    BY <1>1, <1>2, WriteWrites DEF LinkUser, Attempt
  <2>2. TablesTyped' /\ TablesAgree'
    BY <1>1, <1>2, <2>1, UsersKept
  <2>. QED
    BY <1>1, <2>1, <2>2, WritesStores
<1>3. CASE ~MembersInsertable(user, gs)
  BY <1>3, RefusedStores DEF LinkUser, Attempt, tables
<1>. QED
  BY <1>2, <1>3

LEMMA CreateUserStores ==
  ASSUME StoresInv, NEW c \in Calls, CreateUser(c)
  PROVE  StoresInv'
<1>1. At(c, "createUser", "check") \/ At(c, "createUser", "checkGroups") \/ At(c,
      "createUser", "act") \/ At(c, "createUser", "link")
  BY Zenon DEF CreateUser
<1>2. /\ CallsShaped /\ Running(c) /\ Own(c) /\ {200, 400, 404, 409, 500} \subseteq Answers
      /\ call[c].op = "createUser"
  BY <1>1 DEF StoresInv, Running, At, Answers, Statuses
<1>3. /\ CallsShaped /\ Running(c) /\ Own(c) /\ {200, 400, 404, 409, 500} \subseteq Answers
      /\ call[c].op = "createUser" /\ {"checkGroups", "act", "log"} \subseteq Awaits[call[c].op]
      /\ Req(c).login \in Logins /\ Req(c).groups \in SUBSET Ids /\ c \in Ids
  <2>1. RequestTyped(call[c].op, Req(c))
    BY <1>2 DEF Own, Asking
  <2>2. {"checkGroups", "act", "log"} \subseteq Awaits[call[c].op]
    BY <1>2 DEF Awaits
  <2>. QED
    BY <1>2, <2>1, <2>2 DEF RequestTyped, Ids, Logins
<1>4. CASE At(c, "createUser", "check") /\ Ensure(c, UserWith(Req(c).login) = {},
            "checkGroups", 409)
  <2>1. PICK holds \in BOOLEAN : Ensure(c, holds, "checkGroups", 409)
    BY <1>4
  <2>2. call[c].op = "createUser" /\ call[c].pc = "check"
    BY <1>4 DEF At
  <2>3. "checkGroups" \in Awaits[call[c].op] /\ 409 \in Answers
    BY <1>3
  <2>. QED
    BY <1>3, <2>1, <2>2, <2>3, EnsureStores
<1>5. CASE At(c, "createUser", "checkGroups") /\ Ensure(c, GroupsFound(Req(c).groups),
            "act", 404)
  <2>0. UNCHANGED <<db, cuts>> /\ cuts' \in Nat
    BY <1>5 DEF Ensure, StoresInv, TablesTyped
  <2>1. CASE GroupsFound(Req(c).groups)
    <3>1. Moves(c, "act")
      BY <1>3, <1>5, <2>1, GotoMoves DEF Ensure
    <3>. QED
      BY <1>3, <1>5, <2>0, <2>1, <3>1, MovesStores DEF At
  <2>2. CASE ~(GroupsFound(Req(c).groups))
    <3>1. Ends(c, 404)
      BY <1>3, <1>5, <2>2, AnswerEnds DEF Ensure
    <3>. QED
      BY <1>3, <1>5, <2>0, <3>1, EndsStores DEF At
  <2>. QED
    BY <2>1, <2>2
<1>6. CASE At(c, "createUser", "act") /\ InsertUser(c, Req(c).login, Req(c).groups, "log")
  BY <1>3, <1>6, InsertUserStores DEF At
<1>7. CASE At(c, "createUser", "link") /\ LinkUser(c, c, Req(c).groups, "log")
  BY <1>3, <1>7, LinkUserStores DEF At
<1>. QED
  BY <1>4, <1>5, <1>6, <1>7 DEF CreateUser

LEMMA UpdateUserStores ==
  ASSUME StoresInv, NEW c \in Calls, UpdateUser(c)
  PROVE  StoresInv'
<1>1. At(c, "updateUser", "find") \/ At(c, "updateUser", "check") \/ At(c, "updateUser",
      "act") \/ At(c, "updateUser", "act") \/ At(c, "updateUser", "link") \/ At(c,
      "updateUser", "unlink")
  BY Zenon DEF UpdateUser, FindUser, ReplaceGroups
<1>2. /\ CallsShaped /\ Running(c) /\ Own(c) /\ {200, 400, 404, 409, 500} \subseteq Answers
      /\ call[c].op = "updateUser"
  BY <1>1 DEF StoresInv, Running, At, Answers, Statuses
<1>3. /\ CallsShaped /\ Running(c) /\ Own(c) /\ {200, 400, 404, 409, 500} \subseteq Answers
      /\ call[c].op = "updateUser" /\ {"check", "act", "link", "unlink", "log"} \subseteq Awaits[call[c].op]
      /\ Req(c).id \in Ids /\ Req(c).groups \in SUBSET Ids
  <2>1. RequestTyped(call[c].op, Req(c))
    BY <1>2 DEF Own, Asking
  <2>2. {"check", "act", "link", "unlink", "log"} \subseteq Awaits[call[c].op]
    BY <1>2 DEF Awaits
  <2>. QED
    BY <1>2, <2>1, <2>2 DEF RequestTyped, Ids, Logins
<1>4. CASE At(c, "updateUser", "find") /\ Ensure(c, Req(c).id \in DOMAIN users, "check",
            404)
  <2>0. UNCHANGED <<db, cuts>> /\ cuts' \in Nat
    BY <1>4 DEF Ensure, StoresInv, TablesTyped
  <2>1. CASE Req(c).id \in DOMAIN users
    <3>1. Moves(c, "check")
      BY <1>3, <1>4, <2>1, GotoMoves DEF Ensure
    <3>. QED
      BY <1>3, <1>4, <2>0, <2>1, <3>1, MovesStores DEF At
  <2>2. CASE ~(Req(c).id \in DOMAIN users)
    <3>1. Ends(c, 404)
      BY <1>3, <1>4, <2>2, AnswerEnds DEF Ensure
    <3>. QED
      BY <1>3, <1>4, <2>0, <3>1, EndsStores DEF At
  <2>. QED
    BY <2>1, <2>2
<1>5. CASE At(c, "updateUser", "check") /\ Ensure(c, GroupsFound(Req(c).groups), "act",
            404)
  <2>0. UNCHANGED <<db, cuts>> /\ cuts' \in Nat
    BY <1>5 DEF Ensure, StoresInv, TablesTyped
  <2>1. CASE GroupsFound(Req(c).groups)
    <3>1. Moves(c, "act")
      BY <1>3, <1>5, <2>1, GotoMoves DEF Ensure
    <3>. QED
      BY <1>3, <1>5, <2>0, <2>1, <3>1, MovesStores DEF At
  <2>2. CASE ~(GroupsFound(Req(c).groups))
    <3>1. Ends(c, 404)
      BY <1>3, <1>5, <2>2, AnswerEnds DEF Ensure
    <3>. QED
      BY <1>3, <1>5, <2>0, <3>1, EndsStores DEF At
  <2>. QED
    BY <2>1, <2>2
<1>6. CASE /\ At(c, "updateUser", "act") /\ Constrained /\ UNCHANGED <<db, cuts>>
            /\ Goto(c, IF Req(c).groups = {} THEN "unlink" ELSE "link")
  <2>1. PICK pc \in {"unlink", "link"} : Moves(c, pc)
    BY <1>3, <1>6, GotoMoves
  <2>. QED
    BY <1>3, <1>6, <2>1, MovesStores DEF At
<1>7. CASE /\ At(c, "updateUser", "act") /\ ~Constrained
            /\ Attempt(c, TRUE, "log", UsersUpdateInMemory(Req(c).id, Req(c).groups),
                       <<apps, bundles, files, entrypoints, groups>>)
  <2>1. /\ UsersUpdateInMemory(Req(c).id, Req(c).groups) /\ Writes(c, "log")
        /\ UNCHANGED <<backend, apps, bundles, files, entrypoints, groups, logs, cuts>>
    BY <1>3, <1>7, WriteWrites DEF At, Attempt
  <2>2. TablesTyped' /\ TablesAgree'
    BY <1>3, <1>7, <2>1, UsersKept DEF StoresInv, At
  <2>. QED
    BY <1>3, <1>7, <2>1, <2>2, WritesStores DEF At
<1>8. CASE At(c, "updateUser", "link") /\ LinkUser(c, Req(c).id, Req(c).groups, "unlink")
  BY <1>3, <1>8, LinkUserStores DEF At
<1>9. CASE At(c, "updateUser", "unlink") /\ Attempt(c, TRUE, "log",
            MembersKeepOnly(Req(c).id, Req(c).groups), <<apps, bundles, files, entrypoints,
            groups, users>>)
  <2>1. /\ MembersKeepOnly(Req(c).id, Req(c).groups)
        /\ UNCHANGED <<backend, apps, bundles, files, entrypoints, groups, users, logs, cuts>>
        /\ Writes(c, "log")
    BY <1>3, <1>9, WriteWrites DEF At, Attempt
  <2>2. TablesTyped' /\ TablesAgree'
    BY <1>3, <1>9, <2>1, UsersKept DEF StoresInv, At
  <2>. QED
    BY <1>3, <1>9, <2>1, <2>2, WritesStores DEF At
<1>. QED
  BY <1>4, <1>5, <1>6, <1>7, <1>8, <1>9 DEF UpdateUser, FindUser, ReplaceGroups

LEMMA DeleteUserStores ==
  ASSUME StoresInv, NEW c \in Calls, DeleteUser(c)
  PROVE  StoresInv'
<1>1. At(c, "deleteUser", "find") \/ At(c, "deleteUser", "act")
  BY Zenon DEF DeleteUser, FindUser
<1>2. /\ CallsShaped /\ Running(c) /\ Own(c) /\ {200, 400, 404, 409, 500} \subseteq Answers
      /\ call[c].op = "deleteUser"
  BY <1>1 DEF StoresInv, Running, At, Answers, Statuses
<1>3. /\ CallsShaped /\ Running(c) /\ Own(c) /\ {200, 400, 404, 409, 500} \subseteq Answers
      /\ call[c].op = "deleteUser" /\ {"act", "log"} \subseteq Awaits[call[c].op]
      /\ Req(c).id \in Ids
  <2>1. RequestTyped(call[c].op, Req(c))
    BY <1>2 DEF Own, Asking
  <2>2. {"act", "log"} \subseteq Awaits[call[c].op]
    BY <1>2 DEF Awaits
  <2>. QED
    BY <1>2, <2>1, <2>2 DEF RequestTyped, Ids, Logins
<1>4. CASE At(c, "deleteUser", "find") /\ Ensure(c, Req(c).id \in DOMAIN users, "act", 404)
  <2>0. UNCHANGED <<db, cuts>> /\ cuts' \in Nat
    BY <1>4 DEF Ensure, StoresInv, TablesTyped
  <2>1. CASE Req(c).id \in DOMAIN users
    <3>1. Moves(c, "act")
      BY <1>3, <1>4, <2>1, GotoMoves DEF Ensure
    <3>. QED
      BY <1>3, <1>4, <2>0, <2>1, <3>1, MovesStores DEF At
  <2>2. CASE ~(Req(c).id \in DOMAIN users)
    <3>1. Ends(c, 404)
      BY <1>3, <1>4, <2>2, AnswerEnds DEF Ensure
    <3>. QED
      BY <1>3, <1>4, <2>0, <3>1, EndsStores DEF At
  <2>. QED
    BY <2>1, <2>2
<1>5. CASE At(c, "deleteUser", "act") /\ Attempt(c, TRUE, "log", UsersDeleteOne(Req(c).id),
            <<apps, bundles, files, entrypoints, groups>>)
  <2>1. /\ UsersDeleteOne(Req(c).id)
        /\ UNCHANGED <<backend, apps, bundles, files, entrypoints, groups, logs, cuts>>
        /\ Writes(c, "log")
    BY <1>3, <1>5, WriteWrites DEF At, Attempt
  <2>2. TablesTyped' /\ TablesAgree'
    BY <1>3, <1>5, <2>1, UsersKept DEF StoresInv, At
  <2>. QED
    BY <1>3, <1>5, <2>1, <2>2, WritesStores DEF At
<1>. QED
  BY <1>4, <1>5 DEF DeleteUser, FindUser

LEMMA BootstrapStores ==
  ASSUME StoresInv, NEW c \in Calls, Bootstrap(c)
  PROVE  StoresInv'
<1>1. call[c].op = "bootstrap" /\ call[c].pc \in {"find", "group", "user", "act", "link", "end"}
  BY Zenon DEF Bootstrap, At
<1>2. /\ CallsShaped /\ Running(c) /\ Own(c) /\ TablesTyped /\ c \in Ids /\ 200 \in Answers
      /\ Awaits["bootstrap"] = {"find", "group", "user", "act", "link", "end"}
      /\ "root" \in Logins
  BY <1>1 DEF StoresInv, Running, Ids, Answers, Statuses, Awaits, Logins
<1>3. CASE /\ At(c, "bootstrap", "find") /\ UNCHANGED <<db, cuts>>
           /\ \E g \in OneOf(GroupNamed("root")) :
                IF g = None THEN See(c, "group", c) ELSE See(c, "user", g)
  <2>1. PICK pc \in {"group", "user"}, g \in Ids : See(c, pc, g)
    BY <1>2, <1>3 DEF OneOf, GroupNamed, TablesTyped
  <2>2. Sees(c, pc, g)
    BY <1>2, <2>1, SeeSees
  <2>. QED
    BY <1>1, <1>2, <1>3, <2>2, MovesStores
<1>4. CASE /\ At(c, "bootstrap", "group")
           /\ Attempt(c, GroupsCreatable("root"), "user", GroupsCreateOne(c, "root", RootRoles),
                      <<apps, bundles, files, entrypoints, users, members>>)
  <2>1. CASE GroupsCreatable("root")
    <3>1. /\ GroupsCreateOne(c, "root", RootRoles) /\ Writes(c, "user")
          /\ UNCHANGED <<backend, apps, bundles, files, entrypoints, users, members, logs, cuts>>
      BY <1>2, <1>4, <2>1, WriteWrites DEF At, Attempt
    <3>2. TablesTyped' /\ TablesAgree'
      BY <1>2, <2>1, <3>1, GroupsKept DEF StoresInv
    <3>. QED
      BY <1>1, <1>2, <1>4, <3>1, <3>2, WritesStores DEF At
  <2>2. CASE ~GroupsCreatable("root")
    BY <1>1, <1>2, <1>4, <2>2, RefusedStores DEF At, Attempt, tables
  <2>. QED
    BY <2>1, <2>2
<1>5. CASE /\ At(c, "bootstrap", "user") /\ UNCHANGED <<db, cuts>>
           /\ IF UserWith("root") = {} THEN Goto(c, "act") ELSE Answer(c, 200)
  <2>1. CASE UserWith("root") = {}
    <3>1. Moves(c, "act")
      BY <1>2, <1>5, <2>1, GotoMoves
    <3>. QED
      BY <1>1, <1>2, <1>5, <3>1, MovesStores DEF At
  <2>2. CASE UserWith("root") # {}
    <3>1. Ends(c, 200) /\ cuts' \in Nat /\ UNCHANGED db
      BY <1>2, <1>5, <2>2, AnswerEnds DEF TablesTyped
    <3>. QED
      BY <1>1, <1>2, <3>1, EndsStores
  <2>. QED
    BY <2>1, <2>2
<1>6. CASE At(c, "bootstrap", "act") /\ InsertUser(c, "root", {call[c].saw}, "end")
  <2>1. {call[c].saw} \in SUBSET Ids
    BY <1>2, <1>6 DEF Own, Preparing, At
  <2>. QED
    BY <1>1, <1>2, <1>6, <2>1, InsertUserStores DEF At
<1>7. CASE At(c, "bootstrap", "link") /\ LinkUser(c, c, {call[c].saw}, "end")
  <2>1. {call[c].saw} \in SUBSET Ids
    BY <1>2, <1>7 DEF Own, Preparing, At
  <2>. QED
    BY <1>1, <1>2, <1>7, <2>1, LinkUserStores DEF At
<1>8. CASE At(c, "bootstrap", "end") /\ Answer(c, 200) /\ UNCHANGED <<db, cuts>>
  <2>1. Ends(c, 200) /\ cuts' \in Nat /\ UNCHANGED db
    BY <1>2, <1>8, AnswerEnds DEF TablesTyped
  <2>. QED
    BY <1>1, <1>2, <2>1, EndsStores
<1>. QED
  BY <1>3, <1>4, <1>5, <1>6, <1>7, <1>8 DEF Bootstrap

LEMMA RespondStores ==
  ASSUME StoresInv, NEW c \in Calls, Respond(c)
  PROVE  StoresInv'
<1>1. /\ CallsShaped /\ TablesTyped /\ call[c].op = "respond" /\ Running(c)
      /\ call[c].pc \in {"find", "bundle", "content", "config"} /\ UNCHANGED <<db, cuts>>
  BY DEF StoresInv, Respond, Running
<1>2. {"bundle", "content", "config"} \subseteq Awaits[call[c].op] /\ cuts' \in Nat
      /\ {200, 404, 500} \subseteq Answers
  BY <1>1 DEF Awaits, TablesTyped, Answers, Statuses
<1>3. \/ \E status \in {200, 404, 500} : Answer(c, status)
      \/ \E pc \in {"content", "config"} : Goto(c, pc)
      \/ \E what : See(c, "bundle", what)
  <2>1. CASE call[c].pc = "find"
    <3>1. PICK e \in OneOf(EntrypointAt(Req(c).url)) :
            IF e = None \/ entrypoints[e].bundle = None THEN Answer(c, 404)
            ELSE See(c, "bundle", entrypoints[e])
      BY <2>1 DEF Respond
    <3>. QED
      BY <3>1
  <2>2. CASE call[c].pc = "bundle"
    BY <2>2 DEF Respond
  <2>3. CASE call[c].pc = "content"
    <3>1. PICK asset \in Assets :
            IF <<call[c].saw.bundle, asset>> \in files THEN Goto(c, "config") ELSE Answer(c, 500)
      BY <2>3 DEF Respond
    <3>. QED
      BY <3>1
  <2>4. CASE call[c].pc = "config"
    BY <2>4 DEF Respond
  <2>. QED
    BY <1>1, <2>1, <2>2, <2>3, <2>4
<1>4. CASE \E status \in {200, 404, 500} : Answer(c, status)
  <2>1. PICK status \in {200, 404, 500} : Ends(c, status)
    BY <1>1, <1>4, AnswerEnds
  <2>. QED
    BY <1>1, <1>2, <2>1, EndsStores
<1>5. CASE \E pc \in {"content", "config"} : Goto(c, pc)
  <2>1. PICK pc \in {"content", "config"} : Moves(c, pc)
    BY <1>1, <1>5, GotoMoves
  <2>. QED
    BY <1>1, <1>2, <2>1, MovesStores
<1>6. CASE \E what : See(c, "bundle", what)
  <2>1. PICK what : Sees(c, "bundle", what)
    BY <1>1, <1>6, SeeSees
  <2>. QED
    BY <1>1, <1>2, <2>1, MovesStores
<1>. QED
  BY <1>3, <1>4, <1>5, <1>6

LEMMA OneReading ==
  ASSUME NEW what \in Reads, NEW id \in Ids \cup {None} \cup (Ids \X (Ids \cup {None}))
  PROVE  /\ With(Nothing, what, id) \in Readings
         /\ DOMAIN With(Nothing, what, id) = {what} /\ With(Nothing, what, id)[what] = id
<1>1. /\ With(Nothing, what, id) \in [{what} -> Ids \cup {None} \cup (Ids \X (Ids \cup {None}))]
      /\ With(Nothing, what, id)[what] = id
  BY DEF With, Nothing
<1>. QED
  BY <1>1 DEF Readings

\* One more of the three that a deploy reads.
LEMMA DeploySees ==
  ASSUME StoresInv, NEW c \in Calls, DeployReads(c)
  PROVE  \E what, id :
           /\ what \in Reads
           /\ ReadsTyped(With(Nothing, what, id)) /\ Sees(c, "find", With(Seen(c), what, id))
           /\ With(Seen(c), what, id) \in Readings /\ Seen(c)' = With(Seen(c), what, id)
           /\ \/ what = "bundle" /\ id \in OneOf(LatestTagged(Req(c).tag))
              \/ what = "app" /\ id \in OneOf(AppNamed(Req(c).name))
              \/ /\ what = "entrypoint"
                 /\ \E e \in OneOf(EntrypointAt(Req(c).url)) :
                      id = IF e = None THEN None ELSE <<e, entrypoints[e].app>>
<1>1. /\ CallsShaped /\ TablesTyped /\ call[c].op = "deploy" /\ call[c].pc = "find"
      /\ Running(c) /\ Own(c)
  BY DEF StoresInv, DeployReads, At, Running
<1>. DEFINE Asks(what, id) ==
              \/ what = "bundle" /\ id \in OneOf(LatestTagged(Req(c).tag))
              \/ what = "app" /\ id \in OneOf(AppNamed(Req(c).name))
              \/ /\ what = "entrypoint"
                 /\ \E e \in OneOf(EntrypointAt(Req(c).url)) :
                      id = IF e = None THEN None ELSE <<e, entrypoints[e].app>>
<1>2. PICK what, id :
        /\ what \in Reads
        /\ Read(c, what, id) /\ ReadsTyped(With(Nothing, what, id)) /\ Asks(what, id)
  <2>1. CASE \E b \in OneOf(LatestTagged(Req(c).tag)) : Read(c, "bundle", b)
    <3>1. PICK b \in OneOf(LatestTagged(Req(c).tag)) : Read(c, "bundle", b)
      BY <2>1
    <3>2. b \in Ids \cup {None}
      BY <1>1 DEF OneOf, LatestTagged, Tagged, TablesTyped
    <3>3. ReadsTyped(With(Nothing, "bundle", b))
      BY <3>2, OneReading DEF ReadsTyped, Reads
    <3>. QED
      BY <3>1, <3>3 DEF Reads
  <2>2. CASE \E a \in OneOf(AppNamed(Req(c).name)) : Read(c, "app", a)
    <3>1. PICK a \in OneOf(AppNamed(Req(c).name)) : Read(c, "app", a)
      BY <2>2
    <3>2. a \in Ids \cup {None}
      BY <1>1 DEF OneOf, AppNamed, TablesTyped
    <3>3. ReadsTyped(With(Nothing, "app", a))
      BY <3>2, OneReading DEF ReadsTyped, Reads
    <3>. QED
      BY <3>1, <3>3 DEF Reads
  <2>3. CASE \E e \in OneOf(EntrypointAt(Req(c).url)) :
               Read(c, "entrypoint", IF e = None THEN None ELSE <<e, entrypoints[e].app>>)
    <3>1. PICK e \in OneOf(EntrypointAt(Req(c).url)) :
            Read(c, "entrypoint", IF e = None THEN None ELSE <<e, entrypoints[e].app>>)
      BY <2>3
    <3>2. e # None => e \in Ids /\ entrypoints[e].app \in Ids \cup {None}
      BY <1>1, <3>1 DEF OneOf, EntrypointAt, TablesTyped, Lost
    <3>3. ReadsTyped(With(Nothing, "entrypoint",
                          IF e = None THEN None ELSE <<e, entrypoints[e].app>>))
      BY <3>2, OneReading DEF ReadsTyped, Reads
    <3>. QED
      BY <3>1, <3>3 DEF Reads
  <2>. QED
    BY <2>1, <2>2, <2>3 DEF DeployReads, Reads
<1>3. Sees(c, "find", With(Seen(c), what, id))
  BY <1>1, <1>2, SeeSees DEF Read
<1>4. With(Seen(c), what, id) \in Readings
  <2>1. PICK some \in SUBSET Reads :
          Seen(c) \in [some -> Ids \cup {None} \cup (Ids \X (Ids \cup {None}))]
    BY <1>1 DEF Own, Preparing, ReadsTyped, Readings
  <2>2. id \in Ids \cup {None} \cup (Ids \X (Ids \cup {None}))
    <3>1. id = With(Nothing, what, id)[what] /\ what \in DOMAIN With(Nothing, what, id)
      BY DEF With
    <3>. QED
      BY <1>2, <3>1 DEF ReadsTyped, Readings
  <2>3. With(Seen(c), what, id)
          \in [some \cup {what} -> Ids \cup {None} \cup (Ids \X (Ids \cup {None}))]
    BY <2>1, <2>2 DEF With
  <2>. QED
    <3>1. some \cup {what} \in SUBSET Reads
      BY <1>2
    <3>. QED
      BY <2>3, <3>1 DEF Readings
<1>5. Seen(c)' = With(Seen(c), what, id)
  BY <1>3, <1>4, ReadsAssumption DEF Sees, Keeps, Seen
<1>. QED
  BY <1>2, <1>3, <1>4, <1>5

LEMMA DeployReadsStores ==
  ASSUME StoresInv, NEW c \in Calls, DeployReads(c)
  PROVE  StoresInv'
<1>1. /\ CallsShaped /\ TablesTyped /\ call[c].op = "deploy" /\ call[c].pc = "find"
      /\ Running(c) /\ UNCHANGED <<db, cuts>> /\ Own(c)
  BY DEF StoresInv, DeployReads, At, Running
<1>2. PICK what, id :
        /\ what \in Reads
        /\ ReadsTyped(With(Nothing, what, id)) /\ Sees(c, "find", With(Seen(c), what, id))
        /\ With(Seen(c), what, id) \in Readings /\ Seen(c)' = With(Seen(c), what, id)
  BY DeploySees
<1>4. ReadsTyped(Seen(c)')
  <2>1. ReadsTyped(Seen(c))
    BY <1>1 DEF Own, Preparing
  <2>. QED
    BY <1>2, <2>1 DEF ReadsTyped, With, Nothing
<1>5. /\ Became(c, call[c].op, call[c].req, call[c].pc, call[c].rest)
      /\ call'[c].wrote = call[c].wrote /\ call'[c].answer = call[c].answer
  BY <1>1, <1>2 DEF Sees, Keeps
<1>6. Own(c)'
  BY <1>1, <1>4, <1>5 DEF Own, Asking, Writing, Preparing, Bundling, Unused, Became, Running, Req,
       Second
<1>7. TablesTyped' /\ TablesAgree' /\ UNCHANGED <<bundles, files>> /\ backend' = backend
  BY <1>1 DEF StoresInv, db, tables, TablesTyped, TablesAgree, Lost, Constrained, References
<1>8. Stepped(c)
  BY <1>1, <1>2, <1>7, Steppings
<1>. QED
  BY <1>1, <1>6, <1>7, <1>8, BundlesStay

\* What a deploy runs is well formed.
LEMMA DeploymentTyped ==
  ASSUME NEW c \in Calls, NEW seen, ReadsTyped(seen), DOMAIN seen = Reads, ~Mismatched(seen),
         RequestTyped("deploy", Req(c))
  PROVE  LET now == Deployment(c, seen).now
             then == Deployment(c, seen).then
         IN  /\ now.op \in DeployOps \ {"deploy"} /\ RequestTyped(now.op, now)
             /\ then # None => now.op = "createApp" /\ RequestTyped("createEntrypoint", then)
<1>. DEFINE now == Deployment(c, seen).now
            then == Deployment(c, seen).then
<1>1. /\ Req(c).url \in Urls /\ Req(c).name \in AppNames
      /\ seen["bundle"] \in Ids \cup {None} /\ seen["app"] \in Ids \cup {None}
      /\ c \in Ids
  BY DEF RequestTyped, ReadsTyped, Reads, Ids
<1>2. CASE seen["entrypoint"] # None
  <2>1. PICK e \in Ids, a \in Ids \cup {None} : seen["entrypoint"] = <<e, a>>
    BY <1>2 DEF ReadsTyped, Reads
  <2>2. now = [op |-> "updateEntrypoint", id |-> e, bundle |-> seen["bundle"]] /\ then = None
    BY <1>2, <2>1 DEF Deployment
  <2>. QED
    BY <1>1, <2>2 DEF DeployOps, RequestTyped
<1>3. CASE seen["entrypoint"] = None /\ seen["app"] # None
  <2>1. /\ now = [op |-> "createEntrypoint", url |-> Req(c).url, app |-> seen["app"],
                  bundle |-> seen["bundle"]]
        /\ then = None
    BY <1>3 DEF Deployment
  <2>. QED
    BY <1>1, <1>3, <2>1 DEF DeployOps, RequestTyped
<1>4. CASE seen["entrypoint"] = None /\ seen["app"] = None
  <2>1. /\ now = [op |-> "createApp", name |-> Req(c).name]
        /\ then = [op |-> "createEntrypoint", url |-> Req(c).url, app |-> c,
                   bundle |-> seen["bundle"]]
    BY <1>4 DEF Deployment
  <2>2. RequestTyped("createEntrypoint", then) /\ RequestTyped("createApp", now)
    BY <1>1, <2>1 DEF RequestTyped
  <2>. QED
    BY <2>1, <2>2 DEF DeployOps
<1>. QED
  BY <1>2, <1>3, <1>4

LEMMA DeployStores ==
  ASSUME StoresInv, NEW c \in Calls, Deploy(c)
  PROVE  StoresInv'
<1>. DEFINE seen == Seen(c)
<1>1. /\ CallsShaped /\ TablesTyped /\ call[c].op = "deploy" /\ call[c].pc = "find"
      /\ Running(c) /\ UNCHANGED <<db, cuts>> /\ Own(c) /\ DOMAIN seen = Reads
      /\ cuts' \in Nat
  BY DEF StoresInv, Deploy, At, Running, TablesTyped
<1>2. CASE \E status \in {400, 404} : Answer(c, status)
  <2>1. PICK status \in {400, 404} : Ends(c, status)
    BY <1>1, <1>2, AnswerEnds
  <2>. QED
    BY <1>1, <2>1, EndsStores DEF Answers, Statuses
<1>3. CASE /\ Runs(c, Deployment(c, seen).now, Deployment(c, seen).then)
           /\ ~Mismatched(seen)
  <2>1. Continues(c, Deployment(c, seen).now, Deployment(c, seen).then)
    BY <1>1, <1>3, RunsContinues
  <2>2. ReadsTyped(seen) /\ RequestTyped("deploy", Req(c)) /\ call[c].wrote = {}
        /\ call[c].asked.op = "deploy"
    BY <1>1 DEF Own, Asking, Preparing, Writing, Second
  <2>3. TablesTyped' /\ UNCHANGED <<backend, tables, cuts>>
    BY <1>1 DEF db, tables, TablesTyped, Lost, Constrained
  <2>. HIDE DEF seen
  <2>. QED
    BY <1>1, <1>3, <2>1, <2>2, <2>3, DeploymentTyped, ContinuesStores
<1>. QED
  BY <1>2, <1>3 DEF Deploy

LEMMA CutStores ==
  ASSUME StoresInv, NEW c \in Calls, Cut(c)
  PROVE  StoresInv'
<1>1. Ends(c, CutOff) /\ UNCHANGED db /\ cuts' \in Nat /\ CutOff \in Answers /\ Running(c)
  BY AnswerEnds DEF StoresInv, Cut, TablesTyped, Answers, Statuses
<1>. QED
  BY <1>1, EndsStores

\* A call that starts disturbs those that run, and they it.
Began(c, r, by) ==
  /\ call'[c].op = r.op /\ call'[c].asked = r /\ call'[c].req = r /\ call'[c].by = by
  /\ call'[c].pc = First(r.op) /\ call'[c].rest = None
  /\ Keeps(c, {}, None, {}, None)
  /\ call'[c].alone \in BOOLEAN
  /\ call'[c].alone => \A d \in Calls : ~Running(d)
  /\ CallsShaped'

Disturbed(d) ==
  /\ call'[d].op = call[d].op /\ call'[d].asked = call[d].asked
  /\ call'[d].req = call[d].req /\ call'[d].by = call[d].by /\ call'[d].pc = call[d].pc
  /\ call'[d].rest = call[d].rest
  /\ Keeps(d, call[d].roles, call[d].saw, call[d].wrote, call[d].answer)
  /\ call'[d].alone \in BOOLEAN
  /\ call'[d].alone => call[d].alone /\ ~Running(d)
  /\ ~Running(d) => call'[d] = call[d]

LEMMA StartBegins ==
  ASSUME CallsShaped, NEW c \in Calls, NEW r, NEW by, Start(c, r, by)
  PROVE  /\ call[c] = Idle /\ UNCHANGED <<db, cuts>>
         /\ Began(c, r, by) /\ \A d \in Calls : d # c => Disturbed(d)
<1>. DEFINE others == {d \in Calls : Running(d)}
<1>1. call[c] = Idle /\ UNCHANGED <<db, cuts>>
  BY DEF Start
<1>2. call' = [d \in Calls |->
                 IF d = c
                 THEN [Idle EXCEPT !.op = r.op, !.asked = r, !.req = r, !.by = by,
                                   !.pc = First(r.op), !.alone = others = {}]
                 ELSE IF d \in others THEN [call[d] EXCEPT !.alone = FALSE] ELSE call[d]]
  <2>1. c \notin others
    BY <1>1 DEF Idle, Running
  <2>. HIDE DEF others
  <2>. QED
    BY <2>1 DEF Start, others
<1>3. \A d \in Calls : d # c =>
        call'[d] = IF Running(d) THEN [call[d] EXCEPT !.alone = FALSE] ELSE call[d]
  BY <1>2
<1>4. \A d \in Calls : IsCall(call[d])
  BY DEF CallsShaped
<1>5. ASSUME NEW d \in Calls, d # c
      PROVE  Disturbed(d) /\ IsCall(call'[d])
  <2>1. CASE Running(d)
    <3>1. call'[d] = [call[d] EXCEPT !.alone = FALSE]
      BY <1>3, <1>5, <2>1
    <3>. QED
      BY <1>4, <2>1, <3>1, ZenonT(60) DEF Disturbed, Keeps, IsCall
  <2>2. CASE ~Running(d)
    BY <1>3, <1>4, <1>5, <2>2 DEF Disturbed, Keeps, IsCall
  <2>. QED
    BY <2>1, <2>2
<1>6. /\ call'[c] = [Idle EXCEPT !.op = r.op, !.asked = r, !.req = r, !.by = by,
                                 !.pc = First(r.op), !.alone = others = {}]
      /\ call' = [d \in Calls |-> call'[d]]
  BY <1>2
<1>7. (others = {}) \in BOOLEAN /\ (others = {} => \A d \in Calls : ~Running(d))
  OBVIOUS
<1>. HIDE DEF others
<1>8. /\ call'[c].op = r.op /\ call'[c].asked = r /\ call'[c].req = r /\ call'[c].by = by
      /\ call'[c].pc = First(r.op) /\ call'[c].rest = None
      /\ Keeps(c, {}, None, {}, None)
      /\ call'[c].alone = (others = {}) /\ IsCall(call'[c])
  BY <1>6, <1>7, ZenonT(60) DEF Idle, IsCall, Keeps
<1>9. CallsShaped'
  <2>1. call'[c].pc # "idle"
    BY <1>8 DEF First
  <2>2. \A d \in Calls : d # c /\ call[d].pc = "idle" => call'[d] = call[d]
    BY <1>5 DEF Running, Disturbed
  <2>3. \A d \in Calls : d # c => call'[d].pc = call[d].pc
    BY <1>5 DEF Disturbed
  <2>. QED
    BY <1>5, <1>6, <1>8, <2>1, <2>2, <2>3 DEF CallsShaped
<1>. QED
  BY <1>1, <1>5, <1>7, <1>8, <1>9 DEF Began

LEMMA StartStores ==
  ASSUME StoresInv, NEW c \in Calls, NEW r \in Requests, NEW by \in Callers(r.op),
         Start(c, r, by)
  PROVE  StoresInv'
<1>1. /\ call[c] = Idle /\ UNCHANGED <<db, cuts>> /\ CallsShaped'
      /\ Began(c, r, by) /\ \A d \in Calls : d # c => Disturbed(d)
  BY StartBegins DEF StoresInv, Began
<1>2. /\ call[c].op = None /\ call[c].wrote = {} /\ call[c].answer = None
      /\ call[c].pc = "idle" /\ call[c].saw = None /\ ~Running(c)
  BY <1>1 DEF Idle, Running
<1>5. Apart'
  <2>. SUFFICES ASSUME NEW d \in Calls, NEW e \in Calls, d # e, Running(d)', Running(e)'
                PROVE  ~call'[d].alone /\ ~call'[e].alone
    BY DEF Apart
  <2>1. \A x \in Calls : x # c /\ Running(x)' => Running(x) /\ ~call'[x].alone
    BY <1>1 DEF Disturbed, Running
  <2>2. \A x \in Calls : Running(x) => ~call'[c].alone
    BY <1>1 DEF Began
  <2>. QED
    BY <2>1, <2>2
<1>6. /\ TablesTyped' /\ TablesAgree'
  BY <1>1 DEF StoresInv, db, tables, TablesTyped, TablesAgree, Lost, Constrained, References
<1>7. Own(c)'
  <2>1. Asking(c)'
    BY <1>1, RequestsTyped DEF Began, Asking, Running, Req, DeployOps
  <2>2. Writing(c)' /\ Preparing(c)'
    <3>1. Nothing \in Readings
      <4>1. Nothing \in [{} -> Ids \cup {None} \cup (Ids \X (Ids \cup {None}))]
        BY DEF Nothing
      <4>. QED
        BY <4>1 DEF Readings
    <3>2. Seen(c)' = Nothing /\ ReadsTyped(Nothing)
      BY <1>1, <3>1 DEF Began, Keeps, Seen, ReadsTyped, Nothing
    <3>3. First(r.op) \in {"find", "auth"}
      BY DEF First
    <3>. QED
      BY <1>1, <3>2, <3>3 DEF Began, Keeps, Writing, Preparing, Answers
  <2>3. Bundling(c)' /\ Unused(c)'
    BY <1>1 DEF Began, Keeps, Bundling, Unused, First
  <2>. QED
    BY <2>1, <2>2, <2>3 DEF Own
<1>8. \A d \in Calls \ {c} : Own(d)'
  <2>. SUFFICES ASSUME NEW d \in Calls, d # c
                PROVE  Own(d)'
    OBVIOUS
  <2>0. Disturbed(d) /\ Own(d)
    BY <1>1 DEF StoresInv
  <2>1. Asking(d)' /\ Writing(d)'
    BY <2>0 DEF Own, Asking, Writing, Running, Req, Second, Disturbed, Keeps
  <2>2. Preparing(d)'
    BY <2>0 DEF Own, Preparing, Running, Req, Seen, ReadsTyped, Disturbed, Keeps
  <2>3. Bundling(d)' /\ Unused(d)'
    <3>1. \A i \in Ids : Made("createBundle", i) => Made("createBundle", i)'
      BY <1>1, <1>2 DEF Made, Disturbed, Keeps
    <3>2. UNCHANGED <<files, entrypoints, backend>>
      BY <1>1 DEF db, tables
    <3>. QED
      BY <2>0, <3>1, <3>2 DEF Own, Bundling, Unused, Constrained, Complete, FilesOf,
           InUse, Disturbed, Keeps, Running
  <2>. QED
    BY <2>1, <2>2, <2>3 DEF Own
<1>10. UNCHANGED <<bundles, files, backend>>
  BY <1>1 DEF db, tables
<1>9. BundlesMade'
  BY <1>1, <1>2, <1>10 DEF StoresInv, BundlesMade, Made, Disturbed, Keeps
<1>11. Lacking'
  <2>. SUFFICES ASSUME NEW b \in DOMAIN bundles, ~Complete(b)
                PROVE  \E d \in Calls :
                         Removing(d, b)' /\ (call'[d].answer = 500 => ~call'[d].alone)
    BY <1>10 DEF Lacking, Complete
  <2>1. PICK d \in Calls :
          Removing(d, b) /\ (call[d].answer = 500 => ~call[d].alone)
    BY DEF StoresInv, Lacking
  <2>2. d # c
    BY <1>2, <2>1, StatusAssumption DEF Removing, CutOff, Statuses
  <2>. QED
    BY <1>1, <2>1, <2>2 DEF Removing, Disturbed, Keeps
<1>12. ObjectsHaveRows'
  <2>. SUFFICES ASSUME NEW f \in files, f[1] \notin DOMAIN bundles
                PROVE  /\ f[1] \in Calls /\ call'[f[1]].op = "createBundle"
                       /\ \/ call'[f[1]].pc \in {"upload", "act"}
                          \/ call'[f[1]].answer = CutOff
    BY <1>10 DEF ObjectsHaveRows
  <2>1. /\ f[1] \in Calls /\ call[f[1]].op = "createBundle"
        /\ call[f[1]].pc \in {"upload", "act"} \/ call[f[1]].answer = CutOff
    BY DEF StoresInv, ObjectsHaveRows
  <2>2. f[1] # c
    BY <1>2, <2>1, StatusAssumption DEF CutOff, Statuses
  <2>. QED
    BY <1>1, <2>1, <2>2 DEF Disturbed, Keeps
<1>. QED
  BY <1>1, <1>5, <1>6, <1>7, <1>8, <1>9, <1>11, <1>12 DEF StoresInv

-----------------------------------------------------------------------------
(* Bundles. *)

\* A step that changes the rows or the objects of bundles.
LEMMA BundlesChange ==
  ASSUME StoresInv, NEW c \in Calls, Stepped(c), Own(c)', TablesTyped', TablesAgree',
         \A d \in Calls : d # c /\ Constrained /\ call[d].op = "createBundle"
                          /\ call[d].pc = "act" => Complete(d)',
         \A d \in Calls : d # c /\ Constrained /\ call[d].op = "deleteBundles"
                          /\ call[d].pc = "act" => FilesOf(call[d].saw)' = {},
         DOMAIN bundles' \subseteq DOMAIN bundles \cup {i \in {c} : Made("createBundle", c)'},
         Lacking', ObjectsHaveRows'
  PROVE  StoresInv'
<1>1. Apart' /\ CallsShaped'
  BY ApartAgain DEF StoresInv, Stepped
<1>2. \A d \in Calls : Own(d)'
  BY OthersOwn DEF StoresInv
<1>3. BundlesMade'
  BY DEF StoresInv, BundlesMade, Made, Stepped
<1>. QED
  BY <1>1, <1>2, <1>3 DEF StoresInv

\* What is being uploaded is of no bundle yet, and no other call's to delete.
LEMMA UploadsFresh ==
  ASSUME StoresInv, NEW c \in Calls, call[c].op = "createBundle",
         call[c].pc \in {"upload", "act"}
  PROVE  /\ call[c].wrote = {}
         /\ \A d \in Calls : call[d].op = "deleteBundles" /\ call[d].saw # None =>
              c \notin call[d].saw
<1>1. call[c].wrote = {}
  BY DEF StoresInv, Own, Writing, Running, Second
<1>. QED
  BY <1>1 DEF StoresInv, Own, Bundling, Made

LEMMA UploadStores ==
  ASSUME StoresInv, NEW c \in Calls, Upload(c)
  PROVE  StoresInv'
<1>1. /\ CallsShaped /\ call[c].op = "createBundle" /\ call[c].pc = "upload" /\ Running(c)
      /\ UNCHANGED <<backend, apps, bundles, entrypoints, groups, users, members, logs, cuts>>
      /\ Own(c) /\ c \in Ids
  BY DEF StoresInv, Upload, At, Running, Ids
<1>2. PICK asset \in Assets, pc \in {"upload", "act"} :
        /\ files' = files \cup {<<c, asset>>} /\ Goto(c, pc)
        /\ pc = "act" => {a \in Assets : <<c, a>> \notin files} = {asset}
  BY DEF Upload
<1>3. Moves(c, pc)
  BY <1>1, <1>2, GotoMoves
<1>4. Stepped(c)
  BY <1>1, <1>2, <1>3, Steppings
<1>5. /\ Became(c, call[c].op, call[c].req, pc, call[c].rest)
      /\ Keeps(c, call[c].roles, call[c].saw, call[c].wrote, call[c].answer)
  BY <1>3 DEF Moves
<1>6. pc = "act" => Complete(c)'
  BY <1>2 DEF Complete
<1>7. Own(c)'
  <2>1. pc \in Awaits["createBundle"]
    BY <1>2 DEF Awaits
  <2>2. Asking(c)' /\ Writing(c)'
    BY <1>1, <1>5, <2>1 DEF Own, Asking, Writing, Became, Keeps, Running, Req, Second
  <2>3. Preparing(c)' /\ Unused(c)'
    BY <1>1, <1>5 DEF Own, Preparing, Unused, Became, Keeps, Running
  <2>4. Bundling(c)'
    BY <1>1, <1>5, <1>6 DEF Bundling, Became
  <2>. QED
    BY <2>2, <2>3, <2>4 DEF Own
<1>8. TablesTyped' /\ TablesAgree'
  <2>1. files' \subseteq Ids \X Assets
    BY <1>1, <1>2 DEF StoresInv, TablesTyped
  <2>. QED
    BY <1>1, <2>1, BundlesKept DEF StoresInv
<1>9. \A d \in Calls : call[d].op = "deleteBundles" /\ call[d].saw # None => c \notin call[d].saw
  BY <1>1, UploadsFresh
<1>10. \A d \in Calls :
         /\ Constrained /\ call[d].op = "createBundle" /\ call[d].pc = "act" => Complete(d)'
         /\ Constrained /\ call[d].op = "deleteBundles" /\ call[d].pc = "act" =>
              FilesOf(call[d].saw)' = {} \/ d = c
  <2>. SUFFICES ASSUME NEW d \in Calls, d # c
                PROVE  /\ Constrained /\ call[d].op = "createBundle" /\ call[d].pc = "act" =>
                            Complete(d)'
                       /\ Constrained /\ call[d].op = "deleteBundles" /\ call[d].pc = "act" =>
                            FilesOf(call[d].saw)' = {}
    BY <1>1
  <2>1. call'[d] = call[d] /\ Bundling(d)
    BY <1>4 DEF Stepped, StoresInv, Own
  <2>. QED
    BY <1>2, <1>9, <2>1 DEF Bundling, Complete, FilesOf
<1>11. Lacking'
  <2>. SUFFICES ASSUME NEW b \in DOMAIN bundles, ~Complete(b)
                PROVE  \E d \in Calls :
                         Removing(d, b)' /\ (call'[d].answer = 500 => ~call'[d].alone)
    BY <1>1, <1>2 DEF Lacking, Complete
  <2>1. PICK d \in Calls :
          Removing(d, b) /\ (call[d].answer = 500 => ~call[d].alone)
    BY DEF StoresInv, Lacking
  <2>. QED
    BY <1>1, <1>4, <2>1 DEF Stepped, Removing
<1>12. ObjectsHaveRows'
  <2>. SUFFICES ASSUME NEW f \in files', f[1] \notin DOMAIN bundles
                PROVE  /\ f[1] \in Calls /\ call'[f[1]].op = "createBundle"
                       /\ \/ call'[f[1]].pc \in {"upload", "act"}
                          \/ call'[f[1]].answer = CutOff
    BY <1>1 DEF ObjectsHaveRows
  <2>1. CASE f \in files
    BY <1>1, <1>5, <2>1 DEF StoresInv, ObjectsHaveRows, Became
  <2>2. CASE f = <<c, asset>>
    BY <1>1, <1>5, <2>2 DEF Became
  <2>. QED
    BY <1>2, <2>1, <2>2
<1>. QED
  BY <1>1, <1>4, <1>7, <1>8, <1>10, <1>11, <1>12, BundlesChange

LEMMA CreateBundleStores ==
  ASSUME StoresInv, NEW c \in Calls, CreateBundle(c)
  PROVE  StoresInv'
<1>1. CASE Upload(c)
  BY <1>1, UploadStores
<1>2. CASE At(c, "createBundle", "act") /\ ~Upload(c)
  <2>1. /\ CallsShaped /\ call[c].op = "createBundle" /\ call[c].pc = "act" /\ Running(c)
        /\ Own(c) /\ c \in Ids /\ Req(c).tag \in Tags
    BY <1>2 DEF StoresInv, At, Running, Ids, Own, Asking, RequestTyped
  <2>2. /\ UNCHANGED <<backend, apps, entrypoints, groups, users, members, logs, cuts>>
        /\ Writes(c, "log") /\ BundlesCreateRow(c, Req(c).tag)
        /\ files' = IF Constrained THEN files ELSE files \cup ({c} \X Assets)
    <3>1. CASE Constrained
      BY <1>2, <2>1, <3>1, WriteWrites DEF CreateBundle, Attempt
    <3>2. CASE ~Constrained
      BY <1>2, <2>1, <3>2, WriteWrites DEF CreateBundle, Attempt, BundlesCreateInMemory
    <3>. QED
      BY <3>1, <3>2
  <2>3. Stepped(c)
    BY <2>1, <2>2, Steppings
  <2>4. /\ Became(c, call[c].op, call[c].req, "log", call[c].rest)
        /\ Keeps(c, call[c].roles, call[c].saw, call[c].wrote \cup {call[c].op}, call[c].answer)
    BY <2>2 DEF Writes
  <2>5. Own(c)'
    <3>1. "log" \in Awaits["createBundle"]
      BY DEF Awaits
    <3>2. Asking(c)'
      BY <2>1, <2>4, <3>1 DEF Own, Asking, Became, Keeps, Running, Req
    <3>3. Writing(c)' /\ Preparing(c)' /\ Bundling(c)' /\ Unused(c)'
      BY <2>1, <2>4 DEF Own, Asking, Writing, Preparing, Bundling, Unused, Became, Keeps, Running
    <3>. QED
      BY <3>2, <3>3 DEF Own
  <2>6. TablesTyped' /\ TablesAgree'
    <3>1. files' \subseteq Ids \X Assets
      BY <2>1, <2>2 DEF StoresInv, TablesTyped
    <3>. QED
      BY <2>1, <2>2, <3>1, BundlesKept DEF StoresInv
  <2>7. \A d \in Calls :
          /\ Constrained /\ call[d].op = "createBundle" /\ call[d].pc = "act" /\ d # c =>
               Complete(d)'
          /\ Constrained /\ call[d].op = "deleteBundles" /\ call[d].pc = "act" /\ d # c =>
               FilesOf(call[d].saw)' = {}
    BY <2>2, <2>3 DEF StoresInv, Own, Bundling, Complete, FilesOf, Stepped
  <2>8. /\ DOMAIN bundles' = DOMAIN bundles \cup {c} /\ Made("createBundle", c)'
        /\ Complete(c)'
    <3>1. DOMAIN bundles' = DOMAIN bundles \cup {c} /\ Made("createBundle", c)'
      BY <2>1, <2>2, <2>4 DEF BundlesCreateRow, With, Made, Keeps
    <3>2. Complete(c)'
      BY <2>1, <2>2 DEF Own, Bundling, Complete
    <3>. QED
      BY <3>1, <3>2
  <2>9. Lacking'
    <3>. SUFFICES ASSUME NEW b \in DOMAIN bundles, b # c, ~Complete(b)
                  PROVE  \E d \in Calls :
                           Removing(d, b)' /\ (call'[d].answer = 500 => ~call'[d].alone)
      BY <2>2, <2>8 DEF Lacking, Complete
    <3>1. PICK d \in Calls :
            Removing(d, b) /\ (call[d].answer = 500 => ~call[d].alone)
      BY DEF StoresInv, Lacking
    <3>. QED
      BY <2>1, <2>3, <3>1 DEF Stepped, Removing
  <2>10. ObjectsHaveRows'
    <3>. SUFFICES ASSUME NEW f \in files', f[1] \notin DOMAIN bundles, f[1] # c
                  PROVE  /\ f[1] \in Calls /\ call'[f[1]].op = "createBundle"
                         /\ \/ call'[f[1]].pc \in {"upload", "act"}
                            \/ call'[f[1]].answer = CutOff
      BY <2>8 DEF ObjectsHaveRows
    <3>1. f \in files
      BY <2>2
    <3>. QED
      BY <2>4, <3>1 DEF StoresInv, ObjectsHaveRows, Became
  <2>. QED
    BY <2>3, <2>5, <2>6, <2>7, <2>8, <2>9, <2>10, BundlesChange
<1>. QED
  BY <1>1, <1>2 DEF CreateBundle

LEMMA UnlinkStores ==
  ASSUME StoresInv, NEW c \in Calls, Unlink(c)
  PROVE  StoresInv'
<1>1. /\ CallsShaped /\ call[c].op = "deleteBundles" /\ call[c].pc = "unlink" /\ Running(c)
      /\ UNCHANGED <<backend, apps, bundles, entrypoints, groups, users, members, logs, cuts>>
      /\ Own(c) /\ call[c].saw # None /\ call[c].saw \in SUBSET Ids
  BY DEF StoresInv, Unlink, At, Running, Own, Bundling
<1>2. CASE FilesOf(call[c].saw) = {} /\ Goto(c, "act") /\ UNCHANGED files
  <2>1. Moves(c, "act")
    BY <1>1, <1>2, GotoMoves
  <2>2. Stepped(c)
    BY <1>1, <2>1, Steppings
  <2>3. /\ Became(c, call[c].op, call[c].req, "act", call[c].rest)
        /\ Keeps(c, call[c].roles, call[c].saw, call[c].wrote, call[c].answer)
    BY <2>1 DEF Moves
  <2>4. Own(c)'
    <3>1. "act" \in Awaits["deleteBundles"]
      BY DEF Awaits
    <3>2. Asking(c)' /\ Writing(c)'
      BY <1>1, <2>3, <3>1 DEF Own, Asking, Writing, Became, Keeps, Running, Req, Second
    <3>3. Preparing(c)' /\ Unused(c)'
      BY <1>1, <2>3 DEF Own, Preparing, Unused, Became, Keeps, Running, InUse
    <3>4. \A i \in Ids : Made("createBundle", i) => Made("createBundle", i)'
      BY <2>2 DEF Stepped, Made
    <3>5. FilesOf(call[c].saw)' = {}
      BY <1>1, <1>2, <2>3 DEF FilesOf, Keeps
    <3>6. Bundling(c)'
      BY <1>1, <2>3, <3>4, <3>5 DEF Own, Bundling, Became, Keeps
    <3>. QED
      BY <3>2, <3>3, <3>6 DEF Own
  <2>5. TablesTyped' /\ TablesAgree'
    BY <1>1, <1>2 DEF StoresInv, TablesTyped, TablesAgree, Lost, Constrained, References
  <2>. QED
    BY <1>1, <1>2, <2>2, <2>3, <2>4, <2>5, BundlesStay DEF Became, Keeps
<1>3. CASE \E f \in FilesOf(call[c].saw) : files' = files \ {f} /\ UNCHANGED call
  <2>1. PICK f \in files : f[1] \in call[c].saw /\ files' = files \ {f} /\ UNCHANGED call
    BY <1>3 DEF FilesOf
  <2>2. Stepped(c)
    BY <1>1, <2>1 DEF Stepped, CallsShaped, IsCall, Idle
  <2>3. Own(c)'
    <3>1. Asking(c)' /\ Writing(c)'
      BY <1>1, <2>1 DEF Own, Asking, Writing, Running, Req, Second
    <3>2. Preparing(c)' /\ Unused(c)'
      BY <1>1, <2>1 DEF Own, Preparing, Unused, Running, InUse
    <3>3. Bundling(c)'
      BY <1>1, <2>1 DEF Own, Bundling, Made
    <3>. QED
      BY <3>1, <3>2, <3>3 DEF Own
  <2>4. TablesTyped' /\ TablesAgree'
    <3>1. files' \subseteq Ids \X Assets
      BY <2>1 DEF StoresInv, TablesTyped
    <3>. QED
      BY <1>1, <3>1, BundlesKept DEF StoresInv
  <2>5. \A d \in Calls :
          /\ Constrained /\ call[d].op = "createBundle" /\ call[d].pc = "act" => Complete(d)'
          /\ Constrained /\ call[d].op = "deleteBundles" /\ call[d].pc = "act" =>
               FilesOf(call[d].saw)' = {}
    <3>. SUFFICES ASSUME NEW d \in Calls
                  PROVE  /\ Constrained /\ call[d].op = "createBundle" /\ call[d].pc = "act" =>
                              Complete(d)'
                         /\ Constrained /\ call[d].op = "deleteBundles" /\ call[d].pc = "act" =>
                              FilesOf(call[d].saw)' = {}
      OBVIOUS
    <3>1. call[d].op = "createBundle" /\ call[d].pc = "act" => f[1] # d
      BY <1>1, <2>1, UploadsFresh
    <3>2. Bundling(d)
      BY DEF StoresInv, Own
    <3>. QED
      BY <2>1, <3>1, <3>2 DEF Bundling, Complete, FilesOf
  <2>6. Lacking'
    <3>. SUFFICES ASSUME NEW b \in DOMAIN bundles, ~Complete(b)'
                  PROVE  \E d \in Calls :
                           Removing(d, b) /\ (call[d].answer = 500 => ~call[d].alone)
      BY <1>1, <2>1 DEF Lacking, Removing
    <3>1. CASE b = f[1]
      <4>1. call[c].answer # 500
        BY <1>1, StatusAssumption DEF Own, Preparing, Statuses
      <4>. QED
        BY <1>1, <2>1, <3>1, <4>1 DEF Removing
    <3>2. CASE b # f[1]
      <4>1. ~Complete(b)
        BY <2>1, <3>2 DEF Complete
      <4>. QED
        BY <4>1 DEF StoresInv, Lacking
    <3>. QED
      BY <3>1, <3>2
  <2>7. ObjectsHaveRows'
    BY <1>1, <2>1 DEF StoresInv, ObjectsHaveRows
  <2>. QED
    BY <1>1, <2>2, <2>3, <2>4, <2>5, <2>6, <2>7, BundlesChange
<1>. QED
  BY <1>2, <1>3 DEF Unlink

\* The rows, in memory with their objects.
LEMMA DeletedBundlesStores ==
  ASSUME StoresInv, NEW c \in Calls, Running(c), At(c, "deleteBundles", "act"),
         BundlesDeletable(call[c].saw), BundlesDeleteRows(call[c].saw), Writes(c, "log"),
         files' = IF Constrained THEN files ELSE files \ FilesOf(call[c].saw),
         UNCHANGED <<backend, apps, entrypoints, groups, users, members, logs, cuts>>
  PROVE  StoresInv'
<1>1. /\ call[c].op = "deleteBundles" /\ call[c].pc = "act"
      /\ Own(c) /\ call[c].saw # None /\ call[c].saw \in SUBSET Ids
      /\ Constrained => FilesOf(call[c].saw) = {}
  BY DEF StoresInv, At, Own, Bundling
<1>2. Stepped(c)
  BY Steppings
<1>3. /\ Became(c, call[c].op, call[c].req, "log", call[c].rest)
      /\ Keeps(c, call[c].roles, call[c].saw, call[c].wrote \cup {call[c].op}, call[c].answer)
  BY DEF Writes
<1>4. Own(c)'
  <2>1. "log" \in Awaits["deleteBundles"]
    BY DEF Awaits
  <2>2. Asking(c)'
    BY <1>1, <1>3, <2>1 DEF Own, Asking, Became, Keeps, Running, Req
  <2>3. Writing(c)' /\ Preparing(c)' /\ Unused(c)'
    BY <1>1, <1>3 DEF Own, Asking, Writing, Preparing, Unused, Became, Keeps, Running
  <2>4. \A i \in Ids : Made("createBundle", i) => Made("createBundle", i)'
    BY <1>2 DEF Stepped, Made
  <2>5. Bundling(c)'
    BY <1>1, <1>3, <2>4 DEF Own, Bundling, Became, Keeps
  <2>. QED
    BY <2>2, <2>3, <2>5 DEF Own
<1>5. TablesTyped' /\ TablesAgree'
  <2>1. files' \subseteq Ids \X Assets
    BY DEF StoresInv, TablesTyped
  <2>. QED
    BY <1>1, <2>1, BundlesKept DEF StoresInv
<1>6. \A d \in Calls :
        /\ Constrained /\ call[d].op = "createBundle" /\ call[d].pc = "act" => Complete(d)'
        /\ Constrained /\ call[d].op = "deleteBundles" /\ call[d].pc = "act" /\ d # c =>
             FilesOf(call[d].saw)' = {}
  BY <1>2 DEF StoresInv, Own, Bundling, Complete, FilesOf, Stepped
<1>7. DOMAIN bundles' = DOMAIN bundles \ call[c].saw
  BY DEF BundlesDeleteRows, Without
<1>8. Lacking'
  <2>. SUFFICES ASSUME NEW b \in DOMAIN bundles, b \notin call[c].saw, ~Complete(b)'
                PROVE  \E d \in Calls :
                         Removing(d, b)' /\ (call'[d].answer = 500 => ~call'[d].alone)
    BY <1>7 DEF Lacking
  <2>1. ~Complete(b)
    BY DEF Complete, FilesOf
  <2>2. PICK d \in Calls :
          Removing(d, b) /\ (call[d].answer = 500 => ~call[d].alone)
    BY <2>1 DEF StoresInv, Lacking
  <2>. QED
    BY <1>1, <1>2, <2>2 DEF Stepped, Removing
<1>9. ObjectsHaveRows'
  <2>. SUFFICES ASSUME NEW f \in files', f[1] \notin DOMAIN bundles'
                PROVE  /\ f[1] \in Calls /\ call'[f[1]].op = "createBundle"
                       /\ \/ call'[f[1]].pc \in {"upload", "act"}
                          \/ call'[f[1]].answer = CutOff
    BY DEF ObjectsHaveRows
  <2>1. f \in files /\ f[1] \notin DOMAIN bundles
    BY <1>1, <1>7 DEF FilesOf
  <2>. QED
    BY <1>1, <1>2, <2>1 DEF StoresInv, ObjectsHaveRows, Stepped
<1>. QED
  BY <1>2, <1>4, <1>5, <1>6, <1>7, <1>8, <1>9, BundlesChange

LEMMA DeleteBundlesStores ==
  ASSUME StoresInv, NEW c \in Calls, DeleteBundles(c)
  PROVE  StoresInv'
<1>1. call[c].op = "deleteBundles" /\ call[c].pc \in {"find", "check", "unlink", "act"}
  BY Zenon DEF DeleteBundles, Unlink, At
<1>2. /\ CallsShaped /\ TablesTyped /\ TablesAgree /\ Running(c) /\ Own(c)
      /\ {409, 500} \subseteq Answers
      /\ {"check", "unlink", "act", "log"} \subseteq Awaits["deleteBundles"]
  BY <1>1 DEF StoresInv, Running, Answers, Statuses, Awaits
<1>3. CASE UNCHANGED <<db, cuts>> /\ At(c, "deleteBundles", "find")
           /\ See(c, "check", Tagged(Req(c).tag))
  <2>1. Sees(c, "check", Tagged(Req(c).tag))
    BY <1>2, <1>3, SeeSees
  <2>2. /\ Became(c, call[c].op, call[c].req, "check", call[c].rest)
        /\ Keeps(c, call[c].roles, Tagged(Req(c).tag), call[c].wrote, call[c].answer)
    BY <2>1 DEF Sees
  <2>3. Tagged(Req(c).tag) \in SUBSET Ids /\ Tagged(Req(c).tag) # None
        /\ \A i \in Tagged(Req(c).tag) : Made("createBundle", i)
    BY <1>2, IdsAssumption DEF StoresInv, BundlesMade, Tagged, TablesTyped
  <2>4. Stepped(c) /\ UNCHANGED <<bundles, files>> /\ TablesTyped' /\ TablesAgree'
    BY <1>2, <1>3, <2>1, Steppings
       DEF db, tables, TablesTyped, TablesAgree, Lost, Constrained, References
  <2>5. Own(c)'
    <3>1. Asking(c)' /\ Writing(c)' /\ Preparing(c)' /\ Unused(c)'
      BY <1>1, <1>2, <1>3, <2>2
         DEF Own, Asking, Writing, Preparing, Unused, Became, Keeps, Running, Req, At, Second
    <3>2. \A i \in Ids : Made("createBundle", i) => Made("createBundle", i)'
      BY <2>4 DEF Stepped, Made
    <3>3. Bundling(c)'
      BY <1>1, <2>2, <2>3, <3>2 DEF Bundling, Became, Keeps
    <3>. QED
      BY <3>1, <3>3 DEF Own
  <2>6. call[c].saw = None
    BY <1>2, <1>3 DEF Own, Bundling, At
  <2>. QED
    BY <1>1, <2>2, <2>4, <2>5, <2>6, BundlesStay DEF Own
<1>4. CASE /\ At(c, "deleteBundles", "check")
           /\ Ensure(c, ~InUse(call[c].saw), IF Constrained THEN "unlink" ELSE "act", 409)
  <2>0. UNCHANGED <<db, cuts>> /\ cuts' \in Nat
    BY <1>2, <1>4 DEF Ensure, TablesTyped
  <2>1. CASE InUse(call[c].saw)
    <3>1. Ends(c, 409)
      BY <1>2, <1>4, <2>1, AnswerEnds DEF Ensure
    <3>. QED
      BY <1>2, <1>4, <2>0, <3>1, EndsStores DEF At
  <2>2. CASE ~InUse(call[c].saw)
    <3>1. PICK pc \in {"unlink", "act"} : Moves(c, pc) /\ (Constrained => pc = "unlink")
      BY <1>2, <1>4, <2>2, GotoMoves DEF Ensure
    <3>2. /\ Became(c, call[c].op, call[c].req, pc, call[c].rest)
          /\ Keeps(c, call[c].roles, call[c].saw, call[c].wrote, call[c].answer)
      BY <3>1 DEF Moves
    <3>3. Stepped(c) /\ UNCHANGED <<bundles, files, entrypoints, backend>>
          /\ TablesTyped' /\ TablesAgree'
      BY <1>2, <2>0, <3>1, Steppings
         DEF StoresInv, db, tables, TablesTyped, TablesAgree, Lost, Constrained, References
    <3>4. Own(c)'
      <4>1. Asking(c)' /\ Writing(c)' /\ Preparing(c)'
        BY <1>1, <1>2, <1>4, <3>2
           DEF Own, Asking, Writing, Preparing, Became, Keeps, Running, Req, At, Second
      <4>2. \A i \in Ids : Made("createBundle", i) => Made("createBundle", i)'
        BY <3>3 DEF Stepped, Made
      <4>3. Bundling(c)'
        BY <1>2, <1>4, <3>1, <3>2, <3>3, <4>2
           DEF Own, Bundling, Became, Keeps, Constrained, At
      <4>4. Unused(c)'
        BY <2>2, <3>2, <3>3 DEF Unused, InUse, Keeps
      <4>. QED
        BY <4>1, <4>3, <4>4 DEF Own
    <3>. QED
      BY <1>1, <3>2, <3>3, <3>4, BundlesStay DEF Own, Became, Keeps
  <2>. QED
    BY <2>1, <2>2
<1>5. CASE Unlink(c)
  BY <1>5, UnlinkStores
<1>6. CASE /\ At(c, "deleteBundles", "act") /\ Constrained
           /\ Attempt(c, BundlesDeletable(call[c].saw), "log", BundlesDeleteRows(call[c].saw),
                      <<apps, files, entrypoints, groups, users, members>>)
  <2>1. CASE BundlesDeletable(call[c].saw)
    <3>1. /\ BundlesDeleteRows(call[c].saw) /\ Writes(c, "log")
          /\ UNCHANGED <<backend, apps, files, entrypoints, groups, users, members, logs, cuts>>
      BY <1>2, <1>6, <2>1, WriteWrites DEF Attempt
    <3>. QED
      BY <1>2, <1>6, <2>1, <3>1, DeletedBundlesStores
  <2>2. CASE ~BundlesDeletable(call[c].saw)
    <3>1. Ends(c, 500) /\ UNCHANGED db /\ cuts' \in Nat
      BY <1>2, <1>6, <2>2, AnswerEnds DEF Attempt, db, TablesTyped
    <3>2. ~call[c].alone
      BY <1>2, <1>6, <2>2 DEF Own, Unused, InUse, BundlesDeletable, At
    <3>. QED
      BY <1>1, <1>2, <3>1, <3>2, EndsStores
  <2>. QED
    BY <2>1, <2>2
<1>7. CASE /\ At(c, "deleteBundles", "act") /\ ~Constrained
           /\ Attempt(c, TRUE, "log", BundlesDeleteInMemory(call[c].saw),
                      <<apps, entrypoints, groups, users, members>>)
  <2>1. /\ BundlesDeleteRows(call[c].saw) /\ Writes(c, "log")
        /\ files' = files \ FilesOf(call[c].saw)
        /\ UNCHANGED <<backend, apps, entrypoints, groups, users, members, logs, cuts>>
    BY <1>2, <1>7, WriteWrites DEF Attempt, BundlesDeleteInMemory
  <2>2. BundlesDeletable(call[c].saw)
    BY <1>7 DEF BundlesDeletable
  <2>. QED
    BY <1>2, <1>7, <2>1, <2>2, DeletedBundlesStores
<1>. QED
  BY <1>3, <1>4, <1>5, <1>6, <1>7 DEF DeleteBundles

-----------------------------------------------------------------------------

LEMMA StepStores ==
  ASSUME StoresInv, NEW c \in Calls, Step(c)
  PROVE  StoresInv'
BY AuthorizeStores, LogStores, CreateAppStores, UpdateAppStores, DeleteAppStores,
   CreateBundleStores, DeleteBundlesStores, CreateEntrypointStores, UpdateEntrypointStores,
   DeleteEntrypointStores, DeployReadsStores, DeployStores, RespondStores, CreateGroupStores,
   UpdateGroupStores, DeleteGroupStores, CreateUserStores, UpdateUserStores, DeleteUserStores,
   BootstrapStores DEF Step

LEMMA InitStores == Init => StoresInv
<1>. SUFFICES ASSUME Init
              PROVE  StoresInv
  OBVIOUS
<1>1. /\ call = [c \in Calls |-> Idle] /\ cuts = 0 /\ logs = {} /\ backend \in {"pg", "memory"}
      /\ EmptyInit \/ SeedInit(App, Tag, Url, DevRoles)
  BY DEF Init
<1>2. \A c \in Calls :
        /\ call[c] = Idle /\ IsCall(call[c]) /\ ~Running(c) /\ call[c].pc = "idle"
        /\ call[c].op = None /\ call[c].saw = None /\ call[c].wrote = {}
        /\ call[c].answer = None /\ call[c].alone
  BY <1>1 DEF Idle, IsCall, Running
<1>3. CallsShaped /\ Apart
  BY <1>1, <1>2 DEF CallsShaped, Apart
<1>4. \A c \in Calls : Own(c)
  BY <1>2 DEF Own, Asking, Writing, Preparing, Bundling, Unused, Answers
<1>5. /\ "seed" \in Ids /\ "dev" \in Ids /\ "seed" \notin Calls /\ "seed" # "dev"
      /\ App \in AppNames /\ Url \in Urls \ InvalidUrls /\ Tag \in Tags
      /\ {"root", "dev"} \subseteq Logins
  BY IdsAssumption, UseCasesAssumption DEF Ids, Logins
<1>6. CASE EmptyInit
  BY <1>1, <1>3, <1>4, <1>6 DEF EmptyInit, Nothing, StoresInv, TablesTyped, TablesAgree,
     BundlesMade, Lacking, ObjectsHaveRows
<1>7. CASE SeedInit(App, Tag, Url, DevRoles)
  <2>1. /\ apps = [i \in {"seed"} |-> [name |-> App, conf |-> "seed"]]
        /\ bundles = [i \in {"seed"} |-> [tag |-> Tag]]
        /\ files = SeedFiles
        /\ groups = [i \in {"seed", "dev"} |-> IF i = "dev" THEN [name |-> "devs", roles |-> DevRoles]
                                               ELSE [name |-> "root", roles |-> RootRoles]]
        /\ users = [i \in {"seed", "dev"} |-> IF i = "dev" THEN [login |-> "dev"] ELSE [login |-> "root"]]
        /\ members = {<<"seed", "seed">>, <<"dev", "dev">>}
    BY <1>7 DEF SeedInit, With, Nothing
  <2>2. \/ DOMAIN entrypoints = {}
        \/ /\ DOMAIN entrypoints = {"seed"}
           /\ \E b \in {"seed", None} : entrypoints["seed"] = [url |-> Url, app |-> "seed", bundle |-> b]
    BY <1>7 DEF SeedInit, With, Nothing
  <2>3. TablesTyped
    BY <1>1, <1>5, <2>1, <2>2 DEF TablesTyped, SeedFiles
  <2>4. TablesAgree
    BY <2>1, <2>2 DEF TablesAgree, References
  <2>5. BundlesMade /\ Lacking /\ ObjectsHaveRows
    BY <1>5, <2>1 DEF BundlesMade, Made, Lacking, Complete, ObjectsHaveRows, SeedFiles
  <2>. QED
    BY <1>3, <1>4, <2>3, <2>4, <2>5 DEF StoresInv
<1>. QED
  BY <1>1, <1>6, <1>7

\* The invariant of the storages holds in every reachable state: what every call under way
\* may still ask of them, what only memory-storages lack, and who made the row of an id.
THEOREM StoresInductive == Spec => []StoresInv
<1>1. Init => StoresInv
  BY InitStores
<1>2. StoresInv /\ [Next]_vars => StoresInv'
  <2>. SUFFICES ASSUME StoresInv, [Next]_vars
                PROVE  StoresInv'
    OBVIOUS
  <2>1. ASSUME NEW c \in Calls, NEW r \in Requests, NEW by \in Callers(r.op), Start(c, r, by)
        PROVE  StoresInv'
    BY <2>1, StartStores
  <2>2. ASSUME NEW c \in Calls, Step(c)
        PROVE  StoresInv'
    BY <2>2, StepStores
  <2>3. ASSUME NEW c \in Calls, Cut(c)
        PROVE  StoresInv'
    BY <2>3, CutStores
  <2>4. CASE UNCHANGED vars
    <3>1. UNCHANGED call
      BY <2>4 DEF vars
    <3>2. UNCHANGED <<backend, apps, bundles, files, entrypoints, groups, users, members, logs, cuts>>
      BY <2>4 DEF vars, db, tables
    <3>3. CallsShaped' /\ Apart'
      BY <3>1 DEF StoresInv, CallsShaped, Apart, Running, IsCall, Idle
    <3>4. TablesTyped' /\ TablesAgree' /\ BundlesMade'
      BY <3>1, <3>2 DEF StoresInv, TablesTyped, TablesAgree, BundlesMade, Made, Lost, Constrained,
         References
    <3>5. Lacking' /\ ObjectsHaveRows'
      BY <3>1, <3>2 DEF StoresInv, Lacking, Removing, ObjectsHaveRows, Complete
    <3>6. ASSUME NEW c \in Calls
          PROVE  Own(c)'
      <4>1. Asking(c)' /\ Writing(c)'
        BY <3>1 DEF StoresInv, Own, Asking, Writing, Running, Req, Second
      <4>2. Preparing(c)' /\ Unused(c)' /\ Bundling(c)'
        BY <3>1, <3>2 DEF StoresInv, Own, Preparing, Unused, Bundling, Running, Req, Seen,
           ReadsTyped, InUse, Made, Complete, FilesOf, Constrained
      <4>. QED
        BY <4>1, <4>2 DEF Own
    <3>. QED
      BY <3>3, <3>4, <3>5, <3>6 DEF StoresInv
  <2>. QED
    BY <2>1, <2>2, <2>3, <2>4 DEF Next
<1>. QED
  BY <1>1, <1>2, PTL DEF Spec

\* What the tables and the bucket hold agrees, in either storage: a name, an address and a
\* login are of one row, a reference is to a row that is there, a bundle that is linked to
\* has its assets and an object has its row, whatever calls overlapped or were cut off.
THEOREM StoresAlwaysAgree == Spec => []StoresAgree
<1>1. StoresInv => StoresAgree
  <2>. SUFFICES ASSUME StoresInv
                PROVE  StoresAgree
    OBVIOUS
  <2>1. UseCasesTypeOK
    BY DEF StoresInv, TablesTyped, UseCasesTypeOK, Lost, Own, Preparing
  <2>2. LinkedBundlesAreComplete
    <3>. SUFFICES ASSUME NEW e \in DOMAIN entrypoints,
                         entrypoints[e].bundle \in DOMAIN bundles,
                         ~Complete(entrypoints[e].bundle)
                  PROVE  \E c \in Calls : /\ Removing(c, entrypoints[e].bundle)
                                          /\ ~call[c].alone \/ call[c].answer = CutOff
      BY DEF LinkedBundlesAreComplete
    <3>1. PICK c \in Calls :
            Removing(c, entrypoints[e].bundle) /\ (call[c].answer = 500 => ~call[c].alone)
      BY DEF StoresInv, Lacking
    <3>2. Unused(c)
      BY DEF StoresInv, Own
    <3>. QED
      BY <3>1, <3>2 DEF Unused, InUse, Removing
  <2>. QED
    BY <2>1, <2>2 DEF StoresInv, StoresAgree
<1>. QED
  BY <1>1, StoresInductive, PTL

-----------------------------------------------------------------------------
(* Every change is one that its caller may make and meant to make.         *)

Replacing(c) ==
  call[c].op = "updateUser" /\ call[c].pc = "unlink" /\ call[c].alone =>
    Req(c).groups \subseteq GroupsOf(Req(c).id)

RowsNamed ==
  /\ \A i \in DOMAIN apps : Made("createApp", i)
  /\ \A i \in DOMAIN entrypoints : Made("createEntrypoint", i)

Meant(c) == Finding(c) /\ Deploying(c) /\ Allowed(c) /\ Replacing(c)

MeaningInv == RowsNamed /\ \A c \in Calls : Meant(c)

\* What a step of a call does to the rows that others have read: they are there as they
\* were, or gone, or back in memory without a name; a new one is the call's own.
Evolves(c) ==
  /\ \A i \in DOMAIN apps' :
       \/ i \in DOMAIN apps /\ apps'[i].name = apps[i].name
       \/ ~Constrained /\ apps'[i].name = None
       \/ i = c /\ "createApp" \notin call[c].wrote
  /\ \A i \in DOMAIN bundles' :
       \/ i \in DOMAIN bundles /\ bundles'[i].tag = bundles[i].tag
       \/ i = c /\ "createBundle" \notin call[c].wrote
  /\ \A i \in DOMAIN entrypoints' :
       \/ /\ i \in DOMAIN entrypoints
          /\ entrypoints'[i].url = entrypoints[i].url /\ entrypoints'[i].app = entrypoints[i].app
       \/ ~Constrained /\ entrypoints'[i].url = None /\ entrypoints'[i].app = None
       \/ i = c /\ "createEntrypoint" \notin call[c].wrote

LEMMA FactsStay ==
  ASSUME NEW c \in Calls, Stepped(c), Evolves(c)
  PROVE  /\ \A i \in Ids : \A op : Made(op, i) => Made(op, i)'
         /\ \A i, name : AppIs(i, name) => AppIs(i, name)'
         /\ \A i, tag : BundleIs(i, tag) => BundleIs(i, tag)'
         /\ \A i, url : EntrypointIs(i, url) => EntrypointIs(i, url)'
         /\ \A i, url, name : EntrypointIs(i, url) /\ OfApp(i, name) => OfApp(i, name)'
<1>1. backend' = backend /\ Lost' = Lost
  BY DEF Stepped, Lost, Constrained
<1>2. \A i \in Ids : \A op : Made(op, i) => Made(op, i)'
  BY DEF Stepped, Made
<1>3. \A i, name : AppIs(i, name) => AppIs(i, name)'
  BY <1>1, <1>2 DEF AppIs, Evolves, Made, Lost
<1>4. \A i, tag : BundleIs(i, tag) => BundleIs(i, tag)'
  BY <1>2 DEF BundleIs, Evolves, Made
<1>5. \A i, url : EntrypointIs(i, url) => EntrypointIs(i, url)'
  BY <1>1, <1>2 DEF EntrypointIs, Evolves, Made, Lost
<1>6. ASSUME NEW i, NEW url, NEW name, EntrypointIs(i, url), OfApp(i, name)
      PROVE  OfApp(i, name)'
  <2>. SUFFICES ASSUME Constrained, i \in DOMAIN entrypoints'
                PROVE  AppIs(entrypoints[i].app, name)'
    BY <1>1 DEF OfApp, Constrained
  <2>1. i \in DOMAIN entrypoints /\ entrypoints'[i].app = entrypoints[i].app
    BY <1>6 DEF EntrypointIs, Evolves, Made
  <2>2. AppIs(entrypoints[i].app, name)
    BY <1>6, <2>1 DEF OfApp
  <2>3. AppIs(entrypoints[i].app, name)
        => \A a : a = entrypoints[i].app => AppIs(a, name)'
    BY <1>3
  <2>. QED
    BY <2>1, <2>2, <2>3 DEF AppIs
<1>. QED
  BY <1>2, <1>3, <1>4, <1>5, <1>6

LEMMA OthersMeant ==
  ASSUME Apart, NEW c \in Calls, Stepped(c), Evolves(c), NEW d \in Calls, d # c, Meant(d)
  PROVE  Meant(d)'
<1>1. call'[d] = call[d] /\ backend' = backend /\ Lost' = Lost
  BY DEF Stepped, Lost, Constrained
<1>2. Finding(d)'
  BY <1>1, FactsStay DEF Meant, Finding, Running, Req
<1>3. Deploying(d)'
  <2>1. d \in DOMAIN apps' => \/ d \in DOMAIN apps /\ apps'[d].name = apps[d].name
                              \/ apps'[d].name \in Lost
    BY DEF Evolves, Lost
  <2>2. ASSUME NEW e \in Ids, NEW a, EntrypointIs(e, call[d].asked.url),
               e \in DOMAIN entrypoints => entrypoints[e].app \in {a} \cup Lost
        PROVE  e \in DOMAIN entrypoints' => entrypoints'[e].app \in {a} \cup Lost
    BY <2>2 DEF EntrypointIs, Evolves, Made, Lost
  <2>. SUFFICES ASSUME Running(d), call[d].asked.op = "deploy"
                PROVE  Deploying(d)'
    BY <1>1 DEF Deploying, Running
  <2>3. CASE call[d].op = "deploy"
    BY <1>1, <2>2, <2>3, FactsStay DEF Meant, Deploying, Running, Req, Seen
  <2>4. CASE call[d].op = "createApp"
    BY <1>1, <2>1, <2>4, FactsStay DEF Meant, Deploying, Running, Req
  <2>5. CASE call[d].op = "createEntrypoint"
    BY <1>1, <2>5, FactsStay DEF Meant, Deploying, Running, Req
  <2>6. CASE call[d].op = "updateEntrypoint"
    BY <1>1, <2>6, FactsStay DEF Meant, Deploying, Running, Req
  <2>. QED
    BY <1>1, <2>3, <2>4, <2>5, <2>6 DEF Deploying
<1>4. Allowed(d)'
  BY <1>1 DEF Meant, Allowed, Passed, Permitted, Running, Req
<1>5. Replacing(d)'
  <2>1. call[d].pc = "unlink" => ~call[d].alone
    BY DEF Apart, Stepped, Running
  <2>. QED
    BY <1>1, <2>1 DEF Replacing
<1>. QED
  BY <1>2, <1>3, <1>4, <1>5 DEF Meant

LEMMA MeaningStays ==
  ASSUME StoresInv, MeaningInv, NEW c \in Calls, Stepped(c), Evolves(c), Meant(c)', RowsNamed'
  PROVE  MeaningInv'
  BY OthersMeant DEF StoresInv, MeaningInv

LEMMA QuietEvolves ==
  ASSUME NEW c \in Calls, UNCHANGED <<apps, bundles, entrypoints>>
  PROVE  Evolves(c) /\ (StoresInv /\ MeaningInv /\ Stepped(c) => RowsNamed')
  BY DEF Evolves, MeaningInv, RowsNamed, Made, Stepped

LEMMA EndsMeaning ==
  ASSUME StoresInv, MeaningInv, NEW c \in Calls, Running(c), NEW status, Ends(c, status),
         UNCHANGED <<backend, apps, bundles, entrypoints>>
  PROVE  MeaningInv'
<1>1. Stepped(c)
  BY Steppings
<1>2. Evolves(c) /\ RowsNamed'
  BY <1>1, QuietEvolves
<1>3. Meant(c)'
  BY DEF Ends, Became, Meant, Finding, Deploying, Allowed, Replacing, Running
<1>. QED
  BY <1>1, <1>2, <1>3, MeaningStays

\* A step to the next await that leaves what was found, and the roles.
Proceeds(c, pc) ==
  /\ Running(c) /\ pc # "idle" /\ Became(c, call[c].op, call[c].req, pc, call[c].rest)
  /\ call'[c].roles = call[c].roles /\ call'[c].wrote = call[c].wrote
  /\ call[c].op \in DeployOps \cup {"updateApp", "deleteApp", "deleteEntrypoint"} =>
       call'[c].saw = call[c].saw

LEMMA Proceedings ==
  ASSUME NEW c \in Calls, NEW pc, pc # "idle", Running(c)
  PROVE  /\ Moves(c, pc) => Proceeds(c, pc)
         /\ \A what : /\ Sees(c, pc, what)
                      /\ call[c].op \notin DeployOps \cup {"updateApp", "deleteApp", "deleteEntrypoint"}
                      => Proceeds(c, pc)
  BY DEF Moves, Sees, Keeps, Proceeds

LEMMA ProceedsMeaning ==
  ASSUME StoresInv, MeaningInv, NEW c \in Calls, NEW pc, Proceeds(c, pc),
         UNCHANGED <<backend, apps, bundles, entrypoints>>,
         \/ Passed(c) \/ call[c].op = "bootstrap"
         \/ call[c].op = "respond" /\ pc \in {"bundle", "content", "config"},
         call[c].op \notin {"updateGroup", "deleteGroup", "updateUser", "deleteUser",
                            "deleteBundles", "respond", "bootstrap"} => call[c].pc # "find",
         call[c].op = "updateUser" /\ pc = "unlink" => Req(c).groups = {},
         call[c].pc # "log", pc # "log"
  PROVE  MeaningInv'
<1>0. /\ Meant(c) /\ Became(c, call[c].op, call[c].req, pc, call[c].rest)
      /\ Asking(c) /\ backend' = backend /\ Lost' = Lost
  BY DEF MeaningInv, Proceeds, StoresInv, Own, Lost, Constrained
<1>1. Stepped(c)
  BY DEF Proceeds, Became, Stepped
<1>2. Evolves(c) /\ RowsNamed'
  BY <1>1, QuietEvolves
<1>3. Finding(c)'
  <2>1. call[c].op \in {"updateApp", "deleteApp", "createEntrypoint", "updateEntrypoint",
                        "deleteEntrypoint"} =>
          /\ call'[c].saw = call[c].saw
          /\ call[c].pc \in {"auth", "check", "checkUrl", "act", "log"}
          /\ call[c].op # "createEntrypoint" => call[c].pc # "checkUrl"
    BY <1>0 DEF Asking, Awaits, Proceeds, DeployOps
  <2>. QED
    BY <1>0, <1>1, <1>2, <2>1, FactsStay DEF Proceeds, Became, Meant, Finding, Running, Req
<1>4. Deploying(c)'
  <2>. SUFFICES ASSUME Running(c), call[c].asked.op = "deploy"
                PROVE  Deploying(c)'
    BY <1>0 DEF Deploying, Running, Became, Proceeds
  <2>1. call[c].op \in {"createApp", "createEntrypoint", "updateEntrypoint"}
    BY <1>0 DEF Asking, Awaits, DeployOps
  <2>2. CASE call[c].op = "createApp"
    BY <1>0, <1>1, <1>2, <2>2, FactsStay DEF Meant, Deploying, Running, Req, Became
  <2>3. CASE call[c].op = "createEntrypoint"
    BY <1>0, <1>1, <1>2, <2>3, FactsStay DEF Meant, Deploying, Running, Req, Became
  <2>4. CASE call[c].op = "updateEntrypoint"
    BY <1>0, <1>1, <1>2, <2>4, FactsStay DEF Meant, Deploying, Running, Req, Became
  <2>. QED
    BY <2>1, <2>2, <2>3, <2>4
<1>5. Allowed(c)'
  <2>1. CASE call[c].op \in {"respond", "bootstrap"}
    BY <1>0, <2>1 DEF Allowed, Passed, Became, FindsFirst, Asking, Awaits, Proceeds
  <2>2. CASE call[c].op \notin {"respond", "bootstrap"}
    <3>1. Permitted(c, call[c].roles)
      BY <1>0, <2>2 DEF Meant, Allowed, Proceeds
    <3>2. call'[c].roles = call[c].roles /\ call'[c].op = call[c].op /\ call'[c].req = call[c].req
      BY <1>0 DEF Proceeds, Became
    <3>3. Permitted(c, call[c].roles)'
      BY <3>1, <3>2 DEF Permitted, Req, Proceeds, DeployOps
    <3>. QED
      BY <3>3 DEF Allowed
  <2>. QED
    BY <2>1, <2>2
<1>6. Replacing(c)'
  BY <1>0 DEF Replacing, Became, Req
<1>. QED
  BY <1>1, <1>2, <1>3, <1>4, <1>5, <1>6, MeaningStays DEF Meant

\* A change, once it is permitted.
LEMMA WritesMeaning ==
  ASSUME StoresInv, MeaningInv, NEW c \in Calls, Running(c), NEW pc, Writes(c, pc),
         backend' = backend, Evolves(c), RowsNamed', Replacing(c)',
         pc \in {"log", "link", "unlink", "user", "end"},
         Passed(c) \/ call[c].op = "bootstrap",
         call[c].op = "createApp" /\ c \in DOMAIN apps' =>
           apps'[c].name \in {Req(c).name} \cup Lost
  PROVE  MeaningInv'
<1>0. /\ Meant(c) /\ Became(c, call[c].op, call[c].req, pc, call[c].rest)
      /\ Keeps(c, call[c].roles, call[c].saw, call[c].wrote \cup {call[c].op}, call[c].answer)
      /\ Asking(c) /\ Lost' = Lost
  BY DEF MeaningInv, Writes, StoresInv, Own, Lost, Constrained
<1>1. Stepped(c)
  BY Steppings
<1>3. Finding(c)'
  BY <1>0 DEF Became, Finding
<1>4. Deploying(c)'
  <2>. SUFFICES ASSUME call[c].asked.op = "deploy"
                PROVE  Deploying(c)'
    BY <1>0 DEF Deploying, Became
  <2>1. call[c].op \in {"createApp", "createEntrypoint", "updateEntrypoint"}
    <3>1. call[c].op \in DeployOps /\ call[c].pc \in Awaits[call[c].op]
      BY <1>0 DEF Asking, Running, DeployOps
    <3>2. call[c].op # "deploy"
      BY <3>1 DEF Awaits, Passed, FindsFirst
    <3>. QED
      BY <3>1, <3>2 DEF DeployOps
  <2>2. CASE call[c].op = "createApp"
    BY <1>0, <1>1, <2>2, FactsStay DEF Meant, Deploying, Running, Req, Became, Keeps
  <2>3. CASE call[c].op = "createEntrypoint"
    BY <1>0, <1>1, <2>3, FactsStay DEF Meant, Deploying, Running, Req, Became, Keeps
  <2>4. CASE call[c].op = "updateEntrypoint"
    BY <1>0, <1>1, <2>4, FactsStay DEF Meant, Deploying, Running, Req, Became, Keeps
  <2>. QED
    BY <2>1, <2>2, <2>3, <2>4
<1>5. Allowed(c)'
  <2>1. CASE call[c].op = "bootstrap"
    BY <1>0, <2>1 DEF Allowed, Became
  <2>2. CASE call[c].op # "bootstrap"
    <3>1. Permitted(c, call[c].roles)
      BY <1>0, <2>2 DEF Meant, Allowed
    <3>. QED
      BY <1>0, <3>1 DEF Allowed, Permitted, Req, Became, Keeps
  <2>. QED
    BY <2>1, <2>2
<1>. QED
  BY <1>1, <1>3, <1>4, <1>5, MeaningStays DEF Meant

-----------------------------------------------------------------------------

Proper ==
  /\ \A c \in Calls : AuthorizedChange(c) /\ DeployedWhereAsked(c)
  /\ \A u \in DOMAIN users \cap DOMAIN users' : KeepsOrReplaces(u)

LEMMA QuietProper ==
  ASSUME UNCHANGED tables
  PROVE  Proper
  BY DEF Proper, AuthorizedChange, DeployedWhereAsked, KeepsOrReplaces, Makes, GroupsOf, tables

LEMMA OneProper ==
  ASSUME NEW c \in Calls, Stepped(c), AuthorizedChange(c), DeployedWhereAsked(c),
         \A u \in DOMAIN users \cap DOMAIN users' : KeepsOrReplaces(u)
  PROVE  Proper
  BY DEF Proper, Stepped, AuthorizedChange, DeployedWhereAsked, Makes

\* Whoever comes past the Authorizer holds the role for what was found, and that is what is
\* there now, if anything is.
LEMMA ChangeAllowed ==
  ASSUME StoresInv, MeaningInv, NEW c \in Calls, Running(c), Passed(c), call[c].pc # "log"
  PROVE  AuthorizedChange(c)
<1>1. /\ Asking(c) /\ Finding(c) /\ call[c].op \in DOMAIN Awaits
      /\ call[c].op # "bootstrap" => Permitted(c, call[c].roles)
      /\ call[c].pc \in Awaits[call[c].op]
  BY DEF StoresInv, Own, MeaningInv, Meant, Asking, Allowed
<1>2. CASE call[c].op \in {"updateApp", "deleteApp"}
  <2>1. AppIs(Req(c).id, call[c].saw) /\ Manages(call[c].roles, "app-manager", call[c].saw)
    BY <1>1, <1>2 DEF Finding, Permitted, Passed, FindsFirst, Awaits
  <2>. QED
    BY <1>2, <2>1 DEF AuthorizedChange, AppIs, Holds, Lost
<1>3. CASE call[c].op \in {"createBundle", "deleteBundles"}
  BY <1>1, <1>3 DEF AuthorizedChange, Permitted
<1>4. CASE call[c].op = "createEntrypoint"
  <2>1. AppIs(Req(c).app, call[c].saw) /\ Manages(call[c].roles, "app-manager", call[c].saw)
        /\ Manages(call[c].roles, "entrypoint-manager", Req(c).url)
    BY <1>1, <1>4 DEF Finding, Permitted, Passed, FindsFirst, Awaits
  <2>. QED
    BY <1>4, <2>1 DEF AuthorizedChange, AppIs, Holds, Lost
<1>5. CASE call[c].op \in {"updateEntrypoint", "deleteEntrypoint"}
  <2>1. /\ EntrypointIs(Req(c).id, call[c].saw)
        /\ Manages(call[c].roles, "entrypoint-manager", call[c].saw)
    BY <1>1, <1>5 DEF Finding, Permitted, Passed, FindsFirst, Awaits
  <2>. QED
    BY <1>5, <2>1 DEF AuthorizedChange, EntrypointIs, Holds, Lost
<1>6. CASE call[c].op \notin {"updateApp", "deleteApp", "createBundle", "deleteBundles",
                              "createEntrypoint", "updateEntrypoint", "deleteEntrypoint"}
  BY <1>1, <1>6 DEF AuthorizedChange, Permitted
<1>. QED
  BY <1>2, <1>3, <1>4, <1>5, <1>6

\* A change of other tables than the entrypoints and the relation of users and groups.
LEMMA ElsewhereProper ==
  ASSUME StoresInv, MeaningInv, NEW c \in Calls, Running(c), Stepped(c),
         Passed(c) \/ call[c].op = "bootstrap", call[c].pc # "log",
         UNCHANGED entrypoints, members \subseteq members'
  PROVE  Proper
<1>1. AuthorizedChange(c)
  BY ChangeAllowed DEF AuthorizedChange
<1>2. DeployedWhereAsked(c)
  BY DEF DeployedWhereAsked, Makes
<1>3. \A u : KeepsOrReplaces(u)
  BY DEF KeepsOrReplaces, GroupsOf
<1>. QED
  BY <1>1, <1>2, <1>3, OneProper

LEMMA EndsProper ==
  ASSUME StoresInv, MeaningInv, NEW c \in Calls, Running(c), NEW status, Ends(c, status),
         UNCHANGED <<backend, tables>>
  PROVE  MeaningInv' /\ Proper
  BY EndsMeaning, QuietProper DEF tables

\* A use case that comes past the Authorizer goes on, or answers.
LEMMA EnsureMeaning ==
  ASSUME StoresInv, MeaningInv, NEW c \in Calls, Running(c), NEW pc,
         Goto(c, pc) \/ \E status : Answer(c, status), UNCHANGED <<backend, tables>>,
         pc \notin {"idle", "log", "unlink"}, Passed(c), call[c].pc # "log",
         call[c].op \notin {"updateGroup", "deleteGroup", "updateUser", "deleteUser",
                            "deleteBundles"} => call[c].pc # "find"
  PROVE  MeaningInv' /\ Proper
<1>1. UNCHANGED <<apps, bundles, entrypoints>> /\ CallsShaped
  BY DEF tables, StoresInv
<1>2. CASE Goto(c, pc)
  <2>1. Proceeds(c, pc)
    BY <1>1, <1>2, GotoMoves, Proceedings
  <2>. QED
    BY <1>1, <2>1, ProceedsMeaning, QuietProper
<1>3. CASE \E status : Answer(c, status)
  BY <1>1, <1>3, AnswerEnds, EndsProper
<1>. QED
  BY <1>2, <1>3

\* What a use case finds before it asks who is calling.
LEMMA FoundMeaning ==
  ASSUME StoresInv, MeaningInv, NEW c \in Calls, Running(c), NEW what, Sees(c, "auth", what),
         UNCHANGED <<backend, tables>>, call[c].op \notin {"deploy", "createApp"},
         call[c].op \in {"updateApp", "deleteApp"} => AppIs(Req(c).id, what),
         call[c].op = "createEntrypoint" => AppIs(Req(c).app, what),
         call[c].op \in {"updateEntrypoint", "deleteEntrypoint"} => EntrypointIs(Req(c).id, what)
  PROVE  MeaningInv' /\ Proper
<1>0. /\ Meant(c) /\ Became(c, call[c].op, call[c].req, "auth", call[c].rest)
      /\ call'[c].saw = what /\ UNCHANGED <<apps, bundles, entrypoints>>
  BY DEF MeaningInv, Sees, Keeps, tables
<1>1. Stepped(c)
  BY Steppings
<1>2. Evolves(c) /\ RowsNamed'
  BY <1>0, <1>1, QuietEvolves
<1>3. Finding(c)'
  BY <1>0, <1>1, <1>2, FactsStay DEF Finding, Became, Req
<1>4. Deploying(c)'
  BY <1>0, <1>1, <1>2, FactsStay DEF Meant, Deploying, Running, Req, Became
<1>5. Allowed(c)' /\ Replacing(c)'
  BY <1>0 DEF Allowed, Passed, Replacing, Became
<1>. QED
  BY <1>1, <1>2, <1>3, <1>4, <1>5, MeaningStays, QuietProper DEF Meant

LEMMA AuthorizeMeaning ==
  ASSUME StoresInv, MeaningInv, NEW c \in Calls, Authorize(c)
  PROVE  MeaningInv' /\ Proper
<1>1. /\ CallsShaped /\ call[c].pc = "auth" /\ Running(c) /\ UNCHANGED <<backend, tables>>
      /\ Asking(c) /\ UNCHANGED <<apps, bundles, entrypoints>>
  BY DEF StoresInv, Own, Authorize, Running, db, tables
<1>2. \/ \E status \in {403, 500} : Answer(c, status)
      \/ \E roles : /\ Permitted(c, roles)
                    /\ call' = [call EXCEPT ![c].roles = roles,
                                            ![c].pc = Authorized(call[c].op)]
  BY DEF Authorize
<1>3. CASE \E status \in {403, 500} : Answer(c, status)
  BY <1>1, <1>3, AnswerEnds, EndsProper
<1>4. ASSUME NEW roles, Permitted(c, roles),
             call' = [call EXCEPT ![c].roles = roles, ![c].pc = Authorized(call[c].op)]
      PROVE  MeaningInv' /\ Proper
  <2>1. Authorized(call[c].op) \notin {"idle", "auth", "log", "done", "unlink"}
    BY DEF Authorized
  <2>2. Grants(c, roles, Authorized(call[c].op)) /\ Stepped(c)
    BY <1>1, <1>4, <2>1, GrantGrants, Steppings
  <2>3. /\ Became(c, call[c].op, call[c].req, Authorized(call[c].op), call[c].rest)
        /\ call'[c].roles = roles /\ call'[c].saw = call[c].saw /\ Meant(c)
        /\ call'[c].wrote = call[c].wrote
    BY <2>2 DEF Grants, Keeps, MeaningInv
  <2>4. Evolves(c) /\ RowsNamed'
    BY <1>1, <2>2, QuietEvolves
  <2>5. Finding(c)'
    BY <1>1, <2>2, <2>3, <2>4, FactsStay DEF Meant, Finding, Became, Running, Req
  <2>6. Deploying(c)'
    <3>1. call[c].op # "deploy"
      BY <1>1 DEF Asking, Awaits
    <3>. SUFFICES ASSUME call[c].asked.op = "deploy"
                  PROVE  Deploying(c)'
      BY <2>3 DEF Deploying, Became
    <3>2. call[c].op \in {"createApp", "createEntrypoint", "updateEntrypoint"}
      BY <1>1, <3>1 DEF Asking, DeployOps
    <3>3. CASE call[c].op = "createApp"
      BY <1>1, <2>1, <2>2, <2>3, <2>4, <3>3, FactsStay
         DEF Meant, Deploying, Running, Req, Became, Lost, Constrained
    <3>4. CASE call[c].op = "createEntrypoint"
      BY <1>1, <2>2, <2>3, <2>4, <3>4, FactsStay DEF Meant, Deploying, Running, Req, Became
    <3>5. CASE call[c].op = "updateEntrypoint"
      BY <1>1, <2>2, <2>3, <2>4, <3>5, FactsStay DEF Meant, Deploying, Running, Req, Became
    <3>. QED
      BY <3>2, <3>3, <3>4, <3>5
  <2>7. Allowed(c)'
    <3>1. Permitted(c, roles)'
      BY <1>4, <2>3 DEF Permitted, Became, Req
    <3>. QED
      BY <2>3, <3>1 DEF Allowed
  <2>8. Replacing(c)'
    BY <2>1, <2>3 DEF Replacing, Became
  <2>. QED
    BY <1>1, <2>2, <2>4, <2>5, <2>6, <2>7, <2>8, MeaningStays, QuietProper DEF Meant
<1>. QED
  BY <1>2, <1>3, <1>4, ZenonT(60)

\* A use case of a deploy begins, with what the deploy has read.
LEMMA ContinuesMeaning ==
  ASSUME StoresInv, MeaningInv, NEW c \in Calls, Running(c), NEW now, NEW then,
         Continues(c, now, then), UNCHANGED <<backend, tables>>,
         now.op \in DeployOps \ {"deploy"},
         now.op = "createApp" =>
           /\ now.name = call[c].asked.name /\ c \notin DOMAIN apps
           /\ then.url = call[c].asked.url /\ then.app = c
           /\ BundleIs(then.bundle, call[c].asked.tag),
         now.op = "createEntrypoint" =>
           /\ now.url = call[c].asked.url /\ AppIs(now.app, call[c].asked.name)
           /\ BundleIs(now.bundle, call[c].asked.tag),
         now.op = "updateEntrypoint" =>
           /\ EntrypointIs(now.id, call[c].asked.url) /\ OfApp(now.id, call[c].asked.name)
           /\ BundleIs(now.bundle, call[c].asked.tag)
  PROVE  MeaningInv' /\ Proper
<1>1. Stepped(c) /\ UNCHANGED <<apps, bundles, entrypoints>>
  BY Steppings DEF tables
<1>2. /\ Became(c, now.op, now, First(now.op), then)
      /\ First(now.op) = IF now.op = "createApp" THEN "auth" ELSE "find"
  BY DEF Continues, First, FindsFirst, DeployOps
<1>3. Evolves(c) /\ RowsNamed'
  BY <1>1, QuietEvolves
<1>4. Finding(c)' /\ Allowed(c)' /\ Replacing(c)'
  BY <1>2 DEF Finding, Allowed, Passed, Replacing, Became, FindsFirst, DeployOps
<1>5. Deploying(c)'
  <2>1. CASE now.op = "createApp"
    BY <1>1, <1>2, <1>3, <2>1, FactsStay DEF Deploying, Became, Req
  <2>2. CASE now.op = "createEntrypoint"
    BY <1>1, <1>2, <1>3, <2>2, FactsStay DEF Deploying, Became, Req
  <2>3. CASE now.op = "updateEntrypoint"
    BY <1>1, <1>2, <1>3, <2>3, FactsStay DEF Deploying, Became, Req
  <2>. QED
    BY <2>1, <2>2, <2>3 DEF DeployOps
<1>. QED
  BY <1>1, <1>3, <1>4, <1>5, MeaningStays, QuietProper DEF Meant

LEMMA LogMeaning ==
  ASSUME StoresInv, MeaningInv, NEW c \in Calls, Log(c)
  PROVE  MeaningInv' /\ Proper
<1>1. /\ CallsShaped /\ call[c].pc = "log" /\ Running(c) /\ Own(c) /\ Meant(c)
      /\ UNCHANGED <<backend, tables>>
  BY DEF StoresInv, Log, Running, MeaningInv
<1>2. CASE call[c].rest = None
  BY <1>1, <1>2, AnswerEnds, EndsProper DEF Log
<1>3. CASE call[c].rest # None
  <2>1. Continues(c, call[c].rest, None)
    BY <1>1, <1>3, RunsContinues DEF Log
  <2>2. /\ call[c].asked.op = "deploy" /\ call[c].op = "createApp"
        /\ call[c].rest.op = "createEntrypoint"
    BY <1>1, <1>3 DEF Own, Asking, RequestTyped
  <2>3. /\ call[c].rest.url = call[c].asked.url
        /\ AppIs(call[c].rest.app, call[c].asked.name)
        /\ BundleIs(call[c].rest.bundle, call[c].asked.tag)
    BY <1>1, <1>3, <2>2 DEF Meant, Deploying, AppIs, Made, Ids
  <2>. QED
    BY <1>1, <2>1, <2>2, <2>3, ContinuesMeaning DEF DeployOps
<1>. QED
  BY <1>2, <1>3

LEMMA CutMeaning ==
  ASSUME StoresInv, MeaningInv, NEW c \in Calls, Cut(c)
  PROVE  MeaningInv' /\ Proper
<1>1. CallsShaped /\ Running(c) /\ UNCHANGED <<backend, tables>> /\ Answer(c, CutOff)
  BY DEF StoresInv, Cut, db
<1>. QED
  BY <1>1, AnswerEnds, EndsProper

LEMMA RespondMeaning ==
  ASSUME StoresInv, MeaningInv, NEW c \in Calls, Respond(c)
  PROVE  MeaningInv' /\ Proper
<1>1. /\ CallsShaped /\ call[c].op = "respond" /\ Running(c)
      /\ UNCHANGED <<backend, tables>> /\ UNCHANGED <<backend, apps, bundles, entrypoints>>
  BY DEF StoresInv, Respond, Running, db, tables
<1>2. \/ \E status : Answer(c, status)
      \/ \E pc \in {"content", "config"} : call[c].pc # "log" /\ Goto(c, pc)
      \/ \E what : call[c].pc # "log" /\ See(c, "bundle", what)
  BY ZenonT(60) DEF Respond
<1>3. CASE \E status : Answer(c, status)
  BY <1>1, <1>3, AnswerEnds, EndsProper
<1>4. CASE \/ \E pc \in {"content", "config"} : call[c].pc # "log" /\ Goto(c, pc)
           \/ \E what : call[c].pc # "log" /\ See(c, "bundle", what)
  <2>1. PICK pc \in {"bundle", "content", "config"} : Proceeds(c, pc)
    BY <1>1, <1>4, GotoMoves, SeeSees, Proceedings DEF DeployOps
  <2>2. call[c].pc # "log"
    BY <1>4
  <2>. QED
    BY <1>1, <2>1, <2>2, ProceedsMeaning, QuietProper
<1>. QED
  BY <1>2, <1>3, <1>4

LEMMA StartMeaning ==
  ASSUME StoresInv, MeaningInv, NEW c \in Calls, NEW r \in Requests, NEW by \in Callers(r.op),
         Start(c, r, by)
  PROVE  MeaningInv' /\ Proper
<1>1. /\ call[c] = Idle /\ UNCHANGED <<backend, tables>> /\ UNCHANGED <<apps, bundles, entrypoints, members>>
      /\ Began(c, r, by) /\ \A d \in Calls : d # c => Disturbed(d)
  BY StartBegins DEF StoresInv, db, tables
<1>2. call[c].wrote = {}
  BY <1>1 DEF Idle
<1>3. /\ \A i, op : Made(op, i)' = Made(op, i)
      /\ \A i, name : AppIs(i, name)' = AppIs(i, name)
      /\ \A i, tag : BundleIs(i, tag)' = BundleIs(i, tag)
      /\ \A i, url : EntrypointIs(i, url)' = EntrypointIs(i, url)
      /\ \A i, name : OfApp(i, name)' = OfApp(i, name)
      /\ Lost' = Lost
  <2>1. \A i \in Calls : call'[i].wrote = call[i].wrote
    BY <1>1, <1>2 DEF Began, Disturbed, Keeps
  <2>2. Lost' = Lost /\ (Constrained' <=> Constrained)
    BY <1>1 DEF Lost, Constrained
  <2>3. \A i, op : Made(op, i)' = Made(op, i)
    BY <2>1 DEF Made
  <2>. QED
    BY <1>1, <2>2, <2>3 DEF AppIs, BundleIs, EntrypointIs, OfApp
<1>4. RowsNamed'
  BY <1>1, <1>3 DEF MeaningInv, RowsNamed
<1>5. Meant(c)'
  <2>1. Finding(c)' /\ Allowed(c)' /\ Replacing(c)'
    BY <1>1 DEF Began, Finding, Allowed, Passed, Replacing, First, FindsFirst
  <2>2. r.op \in DeployOps \ {"deploy"} => call'[c].asked.op # "deploy"
    BY <1>1 DEF Began, DeployOps
  <2>3. r.op = "deploy" => Deploying(c)'
    BY <1>1 DEF Began, Deploying, Keeps, Seen, Nothing, Req
  <2>4. r.op # "deploy" => Deploying(c)'
    BY <1>1 DEF Began, Deploying
  <2>. QED
    BY <2>1, <2>3, <2>4 DEF Meant
<1>6. ASSUME NEW d \in Calls, d # c
      PROVE  Meant(d)'
  <2>1. Disturbed(d) /\ Meant(d)
    BY <1>1, <1>6 DEF MeaningInv
  <2>2. Running(d)' = Running(d) /\ Seen(d)' = Seen(d) /\ Req(d)' = Req(d)
    BY <2>1 DEF Disturbed, Keeps, Running, Seen, Req
  <2>3. Finding(d)' /\ Deploying(d)'
    BY <1>1, <1>3, <2>1, <2>2 DEF Meant, Disturbed, Keeps, Finding, Deploying
  <2>4. Allowed(d)'
    BY <2>1, <2>2 DEF Meant, Disturbed, Keeps, Allowed, Passed, Permitted
  <2>5. Replacing(d)'
    BY <1>1, <2>1, <2>2 DEF Meant, Disturbed, Replacing, GroupsOf
  <2>. QED
    BY <2>3, <2>4, <2>5 DEF Meant
<1>. QED
  BY <1>1, <1>4, <1>5, <1>6, QuietProper DEF MeaningInv

LEMMA DeployReadsMeaning ==
  ASSUME StoresInv, MeaningInv, NEW c \in Calls, DeployReads(c)
  PROVE  MeaningInv' /\ Proper
<1>1. /\ TablesTyped /\ BundlesMade /\ RowsNamed /\ call[c].op = "deploy" /\ call[c].pc = "find"
      /\ Running(c) /\ UNCHANGED <<backend, tables>> /\ UNCHANGED <<apps, bundles, entrypoints>>
      /\ Asking(c) /\ Meant(c) /\ Lost' = Lost
  BY DEF StoresInv, DeployReads, At, Running, db, tables, MeaningInv, Own, Lost, Constrained
<1>2. PICK what, id :
        /\ what \in Reads
        /\ ReadsTyped(With(Nothing, what, id)) /\ Sees(c, "find", With(Seen(c), what, id))
        /\ With(Seen(c), what, id) \in Readings /\ Seen(c)' = With(Seen(c), what, id)
        /\ \/ what = "bundle" /\ id \in OneOf(LatestTagged(Req(c).tag))
           \/ what = "app" /\ id \in OneOf(AppNamed(Req(c).name))
           \/ /\ what = "entrypoint"
              /\ \E e \in OneOf(EntrypointAt(Req(c).url)) :
                   id = IF e = None THEN None ELSE <<e, entrypoints[e].app>>
  BY DeploySees
<1>3. Stepped(c) /\ Evolves(c) /\ RowsNamed'
  BY <1>1, <1>2, Steppings, QuietEvolves
<1>4. /\ Became(c, call[c].op, call[c].req, call[c].pc, call[c].rest)
      /\ Seen(c)' = [i \in DOMAIN Seen(c) \cup {what} |-> IF i = what THEN id ELSE Seen(c)[i]]
  BY <1>1, <1>2 DEF Sees, With
<1>5. /\ call[c].asked.op = "deploy" /\ Req(c) = call[c].asked
      /\ call'[c].asked = call[c].asked /\ Req(c)' = call[c].asked
  <2>1. call[c].asked.op = "deploy"
    BY <1>1 DEF Asking, DeployOps
  <2>. QED
    BY <1>1, <1>4, <2>1 DEF Meant, Deploying, Became, Req
<1>6. what = "bundle" /\ id # None => BundleIs(id, call[c].asked.tag)
  BY <1>1, <1>2, <1>5 DEF OneOf, LatestTagged, Tagged, BundleIs, BundlesMade, TablesTyped
<1>7. what = "app" /\ id # None => AppIs(id, call[c].asked.name)
  BY <1>1, <1>2, <1>5 DEF OneOf, AppNamed, AppIs, RowsNamed, TablesTyped
<1>8. what = "entrypoint" /\ id # None =>
        \E e \in Ids, a \in Ids \cup {None} :
          /\ id = <<e, a>> /\ EntrypointIs(e, call[c].asked.url)
          /\ e \in DOMAIN entrypoints => entrypoints[e].app \in {a} \cup Lost
  <2>. SUFFICES ASSUME what = "entrypoint", id # None
                PROVE  \E e \in Ids, a \in Ids \cup {None} :
                         /\ id = <<e, a>> /\ EntrypointIs(e, call[c].asked.url)
                         /\ e \in DOMAIN entrypoints => entrypoints[e].app \in {a} \cup Lost
    OBVIOUS
  <2>1. PICK e \in DOMAIN entrypoints :
          entrypoints[e].url = call[c].asked.url /\ id = <<e, entrypoints[e].app>>
    BY <1>2, <1>5 DEF OneOf, EntrypointAt
  <2>2. e \in Ids /\ entrypoints[e].app \in Ids \cup {None}
    BY <1>1 DEF TablesTyped, Lost
  <2>3. EntrypointIs(e, call[c].asked.url)
    BY <1>1, <2>1, <2>2 DEF EntrypointIs, RowsNamed
  <2>. QED
    BY <2>1, <2>2, <2>3
<1>9. Deploying(c)'
  <2>1. call'[c].op = "deploy" /\ call'[c].asked.op = "deploy"
    BY <1>1, <1>4, <1>5 DEF Became
  <2>2. PICK new, name, tag, url :
          /\ new = Seen(c)' /\ name = call[c].asked.name /\ tag = call[c].asked.tag
          /\ url = call[c].asked.url
    OBVIOUS
  <2>3. "bundle" \in DOMAIN new /\ new["bundle"] # None => BundleIs(new["bundle"], tag)'
    <3>1. "bundle" \in DOMAIN new /\ new["bundle"] # None => BundleIs(new["bundle"], tag)
      BY <1>1, <1>4, <1>5, <1>6, <2>2 DEF Meant, Deploying
    <3>. QED
      BY <1>3, <3>1, FactsStay
  <2>4. "app" \in DOMAIN new /\ new["app"] # None => AppIs(new["app"], name)'
    <3>1. "app" \in DOMAIN new /\ new["app"] # None => AppIs(new["app"], name)
      BY <1>1, <1>4, <1>5, <1>7, <2>2 DEF Meant, Deploying
    <3>. QED
      BY <1>3, <3>1, FactsStay
  <2>5. "entrypoint" \in DOMAIN new /\ new["entrypoint"] # None =>
          \E e \in Ids, a \in Ids \cup {None} :
            /\ new["entrypoint"] = <<e, a>> /\ EntrypointIs(e, url)'
            /\ e \in DOMAIN entrypoints' => entrypoints'[e].app \in {a} \cup Lost'
    <3>1. "entrypoint" \in DOMAIN new /\ new["entrypoint"] # None =>
            \E e \in Ids, a \in Ids \cup {None} :
              /\ new["entrypoint"] = <<e, a>> /\ EntrypointIs(e, url)
              /\ e \in DOMAIN entrypoints => entrypoints[e].app \in {a} \cup Lost
      BY <1>1, <1>4, <1>5, <1>8, <2>2 DEF Meant, Deploying
    <3>. QED
      BY <1>1, <1>3, <3>1, FactsStay
  <2>. QED
    BY <1>5, <2>1, <2>2, <2>3, <2>4, <2>5 DEF Deploying
<1>10. Finding(c)' /\ Allowed(c)' /\ Replacing(c)'
  BY <1>1, <1>4 DEF Became, Finding, Allowed, Passed, Replacing, FindsFirst
<1>. QED
  BY <1>1, <1>3, <1>9, <1>10, MeaningStays, QuietProper DEF Meant

LEMMA DeployMeaning ==
  ASSUME StoresInv, MeaningInv, NEW c \in Calls, Deploy(c)
  PROVE  MeaningInv' /\ Proper
<1>. DEFINE seen == Seen(c)
            now == Deployment(c, seen).now
            then == Deployment(c, seen).then
<1>1. /\ CallsShaped /\ RowsNamed /\ call[c].op = "deploy" /\ call[c].pc = "find"
      /\ Running(c) /\ UNCHANGED <<backend, tables>> /\ Own(c) /\ Meant(c) /\ DOMAIN seen = Reads
  BY DEF StoresInv, Deploy, At, Running, db, MeaningInv
<1>2. CASE \E status : Answer(c, status)
  BY <1>1, <1>2, AnswerEnds, EndsProper
<1>3. CASE Runs(c, now, then) /\ ~Mismatched(seen) /\ seen["bundle"] # None
  <2>1. Continues(c, now, then)
    BY <1>1, <1>3, RunsContinues
  <2>2. /\ ReadsTyped(seen) /\ RequestTyped("deploy", Req(c)) /\ call[c].wrote = {}
        /\ call[c].asked.op = "deploy" /\ Req(c) = call[c].asked
    <3>1. /\ ReadsTyped(seen) /\ RequestTyped("deploy", Req(c)) /\ call[c].wrote = {}
          /\ call[c].asked.op = "deploy"
      BY <1>1 DEF Own, Asking, Preparing, Writing, Second, DeployOps
    <3>. QED
      BY <1>1, <3>1 DEF Meant, Deploying
  <2>3. now.op \in DeployOps \ {"deploy"}
    BY <1>1, <1>3, <2>2, DeploymentTyped
  <2>4. /\ BundleIs(seen["bundle"], call[c].asked.tag)
        /\ seen["app"] # None => AppIs(seen["app"], call[c].asked.name)
        /\ seen["entrypoint"] # None =>
             \E e \in Ids, a \in Ids \cup {None} :
               /\ seen["entrypoint"] = <<e, a>> /\ EntrypointIs(e, call[c].asked.url)
               /\ e \in DOMAIN entrypoints => entrypoints[e].app \in {a} \cup Lost
    BY <1>1, <1>3, <2>2 DEF Meant, Deploying, Reads
  <2>. HIDE DEF seen
  <2>5. CASE seen["entrypoint"] # None
    <3>1. PICK e \in Ids, a \in Ids \cup {None} :
               /\ seen["entrypoint"] = <<e, a>> /\ EntrypointIs(e, call[c].asked.url)
               /\ e \in DOMAIN entrypoints => entrypoints[e].app \in {a} \cup Lost
      BY <2>4, <2>5
    <3>2. now = [op |-> "updateEntrypoint", id |-> e, bundle |-> seen["bundle"]]
      BY <2>5, <3>1 DEF Deployment
    <3>3. AppIs(a, call[c].asked.name)
      BY <1>3, <2>4, <2>5, <3>1 DEF Mismatched
    <3>4. OfApp(e, call[c].asked.name)
      BY <3>1, <3>3 DEF OfApp, Lost
    <3>. QED
      BY <1>1, <2>1, <2>3, <2>4, <3>1, <3>2, <3>4, ContinuesMeaning
  <2>6. CASE seen["entrypoint"] = None /\ seen["app"] # None
    <3>1. now = [op |-> "createEntrypoint", url |-> Req(c).url, app |-> seen["app"],
                 bundle |-> seen["bundle"]]
      BY <2>6 DEF Deployment
    <3>. QED
      BY <1>1, <2>1, <2>2, <2>3, <2>4, <2>6, <3>1, ContinuesMeaning
  <2>7. CASE seen["entrypoint"] = None /\ seen["app"] = None
    <3>1. /\ now = [op |-> "createApp", name |-> Req(c).name]
          /\ then = [op |-> "createEntrypoint", url |-> Req(c).url, app |-> c,
                     bundle |-> seen["bundle"]]
      BY <2>7 DEF Deployment
    <3>2. c \notin DOMAIN apps
      BY <1>1, <2>2 DEF RowsNamed, Made
    <3>. QED
      BY <1>1, <2>1, <2>2, <2>3, <2>4, <3>1, <3>2, ContinuesMeaning
  <2>. QED
    BY <2>5, <2>6, <2>7
<1>. QED
  BY <1>2, <1>3 DEF Deploy

\* What a call is about to make it has not made.
LEMMA ActsFresh ==
  ASSUME NEW c \in Calls, Own(c), call[c].pc = "act", call[c].op # "bootstrap"
  PROVE  call[c].op \notin call[c].wrote
  BY DEF Own, Writing, Running, Second

LEMMA RefusedMeaning ==
  ASSUME StoresInv, MeaningInv, NEW c \in Calls, Running(c), Answer(c, 500),
         UNCHANGED <<backend, tables>>
  PROVE  MeaningInv' /\ Proper
  BY AnswerEnds, EndsProper DEF StoresInv

\* A statement that leaves the entrypoints, and takes no user out of a group.
LEMMA ChangesMeaning ==
  ASSUME StoresInv, MeaningInv, NEW c \in Calls, Running(c), NEW pc, Writes(c, pc),
         backend' = backend, Evolves(c), RowsNamed', pc \in {"log", "link", "user", "end"},
         Passed(c) \/ call[c].op = "bootstrap", call[c].pc # "log",
         UNCHANGED entrypoints, members \subseteq members',
         call[c].op = "createApp" /\ c \in DOMAIN apps' =>
           apps'[c].name \in {Req(c).name} \cup Lost
  PROVE  MeaningInv' /\ Proper
<1>1. Replacing(c)'
  BY DEF Replacing, Writes, Became
<1>2. Stepped(c)
  BY Steppings
<1>. QED
  BY <1>1, <1>2, WritesMeaning, ElsewhereProper

\* One that leaves the applications and the bundles too.
LEMMA PeopleMeaning ==
  ASSUME StoresInv, MeaningInv, NEW c \in Calls, Running(c), NEW pc, Writes(c, pc),
         UNCHANGED <<backend, apps, bundles, entrypoints>>,
         pc \in {"log", "link", "user", "end"},
         Passed(c) \/ call[c].op = "bootstrap", call[c].pc # "log",
         members \subseteq members', call[c].op # "createApp"
  PROVE  MeaningInv' /\ Proper
<1>1. Stepped(c)
  BY Steppings
<1>. QED
  BY <1>1, QuietEvolves, ChangesMeaning

LEMMA CreateAppMeaning ==
  ASSUME StoresInv, MeaningInv, NEW c \in Calls, CreateApp(c)
  PROVE  MeaningInv' /\ Proper
<1>1. At(c, "createApp", "check") \/ At(c, "createApp", "act")
  BY Zenon DEF CreateApp
<1>2. /\ CallsShaped /\ TablesTyped /\ TablesAgree /\ BundlesMade /\ RowsNamed /\ Running(c)
      /\ Own(c) /\ Meant(c) /\ call[c].op = "createApp" /\ call[c].pc # "log"
  BY <1>1 DEF StoresInv, Running, At, MeaningInv
<1>4. CASE At(c, "createApp", "check") /\ Ensure(c, AppNamed(Req(c).name) = {}, "act", 409)
  <2>1. Passed(c) /\ call[c].pc = "check"
    BY <1>2, <1>4 DEF At, Passed
  <2>2. /\ Goto(c, "act") \/ \E status : Answer(c, status)
        /\ UNCHANGED <<backend, tables>>
    BY <1>4 DEF Ensure, db
  <2>. QED
    BY <1>2, <2>1, <2>2, EnsureMeaning
<1>5. CASE At(c, "createApp", "act") /\ Attempt(c, AppsCreatable(Req(c).name), "log",
            AppsCreateOne(c, Req(c).name), <<bundles, files, entrypoints, groups, users,
            members>>)
  <2>1. CASE AppsCreatable(Req(c).name)
    <3>1. /\ AppsCreateOne(c, Req(c).name)
          /\ UNCHANGED <<backend, bundles, files, entrypoints, groups, users, members>>
          /\ Writes(c, "log")
      BY <1>2, <1>5, <2>1, WriteWrites DEF At, Attempt
    <3>2. "createApp" \notin call[c].wrote /\ call'[c].wrote = call[c].wrote \cup {"createApp"}
      BY <1>2, <1>5, <3>1, ActsFresh DEF At, Writes, Keeps
    <3>3. Evolves(c)
      BY <3>1, <3>2 DEF Evolves, AppsCreateOne, With
    <3>4. RowsNamed'
      <4>1. Stepped(c)
        BY <1>2, <3>1, Steppings
      <4>. QED
        BY <1>2, <3>1, <3>2, <4>1 DEF RowsNamed, AppsCreateOne, With, Made, Stepped
    <3>. QED
      BY <1>2, <1>5, <3>1, <3>3, <3>4, ChangesMeaning DEF At, Passed, AppsCreateOne, With
  <2>2. CASE ~AppsCreatable(Req(c).name)
    BY <1>2, <1>5, <2>2, RefusedMeaning DEF Attempt
  <2>. QED
    BY <2>1, <2>2
<1>. QED
  BY <1>4, <1>5 DEF CreateApp

LEMMA UpdateAppMeaning ==
  ASSUME StoresInv, MeaningInv, NEW c \in Calls, UpdateApp(c)
  PROVE  MeaningInv' /\ Proper
<1>1. At(c, "updateApp", "find") \/ At(c, "updateApp", "act")
  BY Zenon DEF UpdateApp
<1>2. /\ CallsShaped /\ TablesTyped /\ TablesAgree /\ BundlesMade /\ RowsNamed /\ Running(c)
      /\ Own(c) /\ Meant(c) /\ call[c].op = "updateApp" /\ call[c].pc # "log"
  BY <1>1 DEF StoresInv, Running, At, MeaningInv
<1>3. Req(c).id \in Ids \ Calls
  BY <1>2, IdsAssumption DEF Own, Asking, RequestTyped, Ids
<1>4. CASE At(c, "updateApp", "find") /\ FindApp(c, Req(c).id)
  <2>1. UNCHANGED <<backend, tables>>
    BY <1>4 DEF FindApp, db
  <2>2. CASE Req(c).id \in DOMAIN apps
    <3>1. Sees(c, "auth", apps[Req(c).id].name)
      BY <1>2, <1>4, <2>2, SeeSees DEF FindApp
    <3>2. AppIs(Req(c).id, apps[Req(c).id].name)
      BY <1>2, <2>2 DEF AppIs, RowsNamed, TablesTyped
    <3>. QED
      BY <1>2, <2>1, <3>1, <3>2, FoundMeaning
  <2>3. CASE Req(c).id \notin DOMAIN apps
    BY <1>2, <1>4, <2>1, <2>3, AnswerEnds, EndsProper DEF FindApp
  <2>. QED
    BY <2>2, <2>3
<1>5. CASE At(c, "updateApp", "act") /\ Attempt(c, TRUE, "log", AppsUpdateOne(Req(c).id,
            c), <<bundles, files, entrypoints, groups, users, members>>)
  <2>1. /\ AppsUpdateOne(Req(c).id, c)
        /\ UNCHANGED <<backend, bundles, files, entrypoints, groups, users, members>>
        /\ Writes(c, "log")
    BY <1>2, <1>5, WriteWrites DEF At, Attempt
  <2>2. Evolves(c)
    BY <1>2, <1>3, <2>1 DEF Evolves, AppsUpdateOne, AppsUpdateInMemory, With, Constrained
  <2>3. RowsNamed'
    <3>1. Stepped(c)
      BY <1>2, <1>3, <2>1, Steppings
    <3>. QED
      BY <1>2, <1>3, <2>1, <3>1 DEF RowsNamed, AppsUpdateOne, AppsUpdateInMemory, With, Made, Stepped
  <2>. QED
    BY <1>2, <1>3, <1>5, <2>1, <2>2, <2>3, ChangesMeaning DEF At, Passed
<1>. QED
  BY <1>4, <1>5 DEF UpdateApp

LEMMA DeleteAppMeaning ==
  ASSUME StoresInv, MeaningInv, NEW c \in Calls, DeleteApp(c)
  PROVE  MeaningInv' /\ Proper
<1>1. At(c, "deleteApp", "find") \/ At(c, "deleteApp", "check") \/ At(c, "deleteApp", "act")
  BY Zenon DEF DeleteApp
<1>2. /\ CallsShaped /\ TablesTyped /\ TablesAgree /\ BundlesMade /\ RowsNamed /\ Running(c)
      /\ Own(c) /\ Meant(c) /\ call[c].op = "deleteApp" /\ call[c].pc # "log"
  BY <1>1 DEF StoresInv, Running, At, MeaningInv
<1>4. CASE At(c, "deleteApp", "find") /\ FindApp(c, Req(c).id)
  <2>1. UNCHANGED <<backend, tables>>
    BY <1>4 DEF FindApp, db
  <2>2. CASE Req(c).id \in DOMAIN apps
    <3>1. Sees(c, "auth", apps[Req(c).id].name)
      BY <1>2, <1>4, <2>2, SeeSees DEF FindApp
    <3>2. AppIs(Req(c).id, apps[Req(c).id].name)
      BY <1>2, <2>2 DEF AppIs, RowsNamed, TablesTyped
    <3>. QED
      BY <1>2, <2>1, <3>1, <3>2, FoundMeaning
  <2>3. CASE Req(c).id \notin DOMAIN apps
    BY <1>2, <1>4, <2>1, <2>3, AnswerEnds, EndsProper DEF FindApp
  <2>. QED
    BY <2>2, <2>3
<1>5. CASE At(c, "deleteApp", "check") /\ Ensure(c, \A e \in DOMAIN entrypoints :
            entrypoints[e].app # Req(c).id, "act", 409)
  <2>1. Passed(c) /\ call[c].pc = "check"
    BY <1>2, <1>5 DEF At, Passed
  <2>2. /\ Goto(c, "act") \/ \E status : Answer(c, status)
        /\ UNCHANGED <<backend, tables>>
    BY <1>5 DEF Ensure, db
  <2>. QED
    BY <1>2, <2>1, <2>2, EnsureMeaning
<1>6. CASE At(c, "deleteApp", "act") /\ Attempt(c, AppsDeletable(Req(c).id), "log",
            AppsDeleteOne(Req(c).id), <<bundles, files, entrypoints, groups, users,
            members>>)
  <2>1. CASE AppsDeletable(Req(c).id)
    <3>1. /\ AppsDeleteOne(Req(c).id)
          /\ UNCHANGED <<backend, bundles, files, entrypoints, groups, users, members>>
          /\ Writes(c, "log")
      BY <1>2, <1>6, <2>1, WriteWrites DEF At, Attempt
    <3>2. Evolves(c)
      BY <3>1 DEF Evolves, AppsDeleteOne, Without
    <3>3. RowsNamed'
      <4>1. Stepped(c)
        BY <1>2, <3>1, Steppings
      <4>. QED
        BY <1>2, <3>1, <4>1 DEF RowsNamed, AppsDeleteOne, Without, Made, Stepped
    <3>. QED
      BY <1>2, <1>6, <3>1, <3>2, <3>3, ChangesMeaning DEF At, Passed
  <2>2. CASE ~AppsDeletable(Req(c).id)
    BY <1>2, <1>6, <2>2, RefusedMeaning DEF Attempt
  <2>. QED
    BY <2>1, <2>2
<1>. QED
  BY <1>4, <1>5, <1>6 DEF DeleteApp

LEMMA CreateGroupMeaning ==
  ASSUME StoresInv, MeaningInv, NEW c \in Calls, CreateGroup(c)
  PROVE  MeaningInv' /\ Proper
<1>1. At(c, "createGroup", "check") \/ At(c, "createGroup", "act")
  BY Zenon DEF CreateGroup
<1>2. /\ CallsShaped /\ TablesTyped /\ TablesAgree /\ BundlesMade /\ RowsNamed /\ Running(c)
      /\ Own(c) /\ Meant(c) /\ call[c].op = "createGroup" /\ call[c].pc # "log"
  BY <1>1 DEF StoresInv, Running, At, MeaningInv
<1>4. CASE At(c, "createGroup", "check") /\ Ensure(c, GroupNamed(Req(c).name) = {}, "act",
            409)
  <2>1. Passed(c) /\ call[c].pc = "check"
    BY <1>2, <1>4 DEF At, Passed
  <2>2. /\ Goto(c, "act") \/ \E status : Answer(c, status)
        /\ UNCHANGED <<backend, tables>>
    BY <1>4 DEF Ensure, db
  <2>. QED
    BY <1>2, <2>1, <2>2, EnsureMeaning
<1>5. CASE At(c, "createGroup", "act") /\ Attempt(c, GroupsCreatable(Req(c).name), "log",
            GroupsCreateOne(c, Req(c).name, Req(c).roles), <<apps, bundles, files,
            entrypoints, users, members>>)
  <2>1. CASE GroupsCreatable(Req(c).name)
    <3>1. /\ GroupsCreateOne(c, Req(c).name, Req(c).roles)
          /\ UNCHANGED <<backend, apps, bundles, files, entrypoints, users, members>>
          /\ Writes(c, "log")
      BY <1>2, <1>5, <2>1, WriteWrites DEF At, Attempt
    <3>. QED
      BY <1>2, <1>5, <3>1, PeopleMeaning DEF At, Passed
  <2>2. CASE ~GroupsCreatable(Req(c).name)
    BY <1>2, <1>5, <2>2, RefusedMeaning DEF Attempt
  <2>. QED
    BY <2>1, <2>2
<1>. QED
  BY <1>4, <1>5 DEF CreateGroup

LEMMA UpdateGroupMeaning ==
  ASSUME StoresInv, MeaningInv, NEW c \in Calls, UpdateGroup(c)
  PROVE  MeaningInv' /\ Proper
<1>1. At(c, "updateGroup", "find") \/ At(c, "updateGroup", "check") \/ At(c, "updateGroup",
      "act")
  BY Zenon DEF UpdateGroup
<1>2. /\ CallsShaped /\ TablesTyped /\ TablesAgree /\ BundlesMade /\ RowsNamed /\ Running(c)
      /\ Own(c) /\ Meant(c) /\ call[c].op = "updateGroup" /\ call[c].pc # "log"
  BY <1>1 DEF StoresInv, Running, At, MeaningInv
<1>4. CASE At(c, "updateGroup", "find") /\ FindGroup(c, "check")
  <2>1. UNCHANGED <<backend, tables>> /\ UNCHANGED <<apps, bundles, entrypoints>>
    BY <1>4 DEF FindGroup, db, tables
  <2>2. CASE Req(c).id \in DOMAIN groups
    <3>1. Sees(c, "check", groups[Req(c).id].name)
      BY <1>2, <1>4, <2>2, SeeSees DEF FindGroup
    <3>2. Proceeds(c, "check")
      BY <1>2, <3>1, Proceedings DEF DeployOps
    <3>. QED
      BY <1>2, <1>4, <2>1, <3>2, ProceedsMeaning, QuietProper DEF Passed, FindsFirst, At
  <2>3. CASE Req(c).id \notin DOMAIN groups
    BY <1>2, <1>4, <2>1, <2>3, AnswerEnds, EndsProper DEF FindGroup
  <2>. QED
    BY <2>2, <2>3
<1>5. CASE At(c, "updateGroup", "check") /\ Ensure(c, Req(c).name = call[c].saw \/
            GroupNamed(Req(c).name) = {}, "act", 409)
  <2>1. Passed(c) /\ call[c].pc = "check"
    BY <1>2, <1>5 DEF At, Passed
  <2>2. /\ Goto(c, "act") \/ \E status : Answer(c, status)
        /\ UNCHANGED <<backend, tables>>
    BY <1>5 DEF Ensure, db
  <2>. QED
    BY <1>2, <2>1, <2>2, EnsureMeaning
<1>6. CASE At(c, "updateGroup", "act") /\ Attempt(c, GroupsUpdatable(Req(c).id,
            Req(c).name), "log", GroupsUpdateOne(Req(c).id, Req(c).name, Req(c).roles),
            <<apps, bundles, files, entrypoints, users, members>>)
  <2>1. CASE GroupsUpdatable(Req(c).id, Req(c).name)
    <3>1. /\ GroupsUpdateOne(Req(c).id, Req(c).name, Req(c).roles)
          /\ UNCHANGED <<backend, apps, bundles, files, entrypoints, users, members>>
          /\ Writes(c, "log")
      BY <1>2, <1>6, <2>1, WriteWrites DEF At, Attempt
    <3>. QED
      BY <1>2, <1>6, <3>1, PeopleMeaning DEF At, Passed
  <2>2. CASE ~GroupsUpdatable(Req(c).id, Req(c).name)
    BY <1>2, <1>6, <2>2, RefusedMeaning DEF Attempt
  <2>. QED
    BY <2>1, <2>2
<1>. QED
  BY <1>4, <1>5, <1>6 DEF UpdateGroup

LEMMA DeleteGroupMeaning ==
  ASSUME StoresInv, MeaningInv, NEW c \in Calls, DeleteGroup(c)
  PROVE  MeaningInv' /\ Proper
<1>1. At(c, "deleteGroup", "find") \/ At(c, "deleteGroup", "check") \/ At(c, "deleteGroup",
      "act")
  BY Zenon DEF DeleteGroup
<1>2. /\ CallsShaped /\ TablesTyped /\ TablesAgree /\ BundlesMade /\ RowsNamed /\ Running(c)
      /\ Own(c) /\ Meant(c) /\ call[c].op = "deleteGroup" /\ call[c].pc # "log"
  BY <1>1 DEF StoresInv, Running, At, MeaningInv
<1>4. CASE At(c, "deleteGroup", "find") /\ FindGroup(c, "check")
  <2>1. UNCHANGED <<backend, tables>> /\ UNCHANGED <<apps, bundles, entrypoints>>
    BY <1>4 DEF FindGroup, db, tables
  <2>2. CASE Req(c).id \in DOMAIN groups
    <3>1. Sees(c, "check", groups[Req(c).id].name)
      BY <1>2, <1>4, <2>2, SeeSees DEF FindGroup
    <3>2. Proceeds(c, "check")
      BY <1>2, <3>1, Proceedings DEF DeployOps
    <3>. QED
      BY <1>2, <1>4, <2>1, <3>2, ProceedsMeaning, QuietProper DEF Passed, FindsFirst, At
  <2>3. CASE Req(c).id \notin DOMAIN groups
    BY <1>2, <1>4, <2>1, <2>3, AnswerEnds, EndsProper DEF FindGroup
  <2>. QED
    BY <2>2, <2>3
<1>5. CASE At(c, "deleteGroup", "check") /\ Ensure(c, \A m \in members : m[2] # Req(c).id,
            "act", 409)
  <2>1. Passed(c) /\ call[c].pc = "check"
    BY <1>2, <1>5 DEF At, Passed
  <2>2. /\ Goto(c, "act") \/ \E status : Answer(c, status)
        /\ UNCHANGED <<backend, tables>>
    BY <1>5 DEF Ensure, db
  <2>. QED
    BY <1>2, <2>1, <2>2, EnsureMeaning
<1>6. CASE At(c, "deleteGroup", "act") /\ Attempt(c, GroupsDeletable(Req(c).id), "log",
            GroupsDeleteOne(Req(c).id), <<apps, bundles, files, entrypoints, users,
            members>>)
  <2>1. CASE GroupsDeletable(Req(c).id)
    <3>1. /\ GroupsDeleteOne(Req(c).id)
          /\ UNCHANGED <<backend, apps, bundles, files, entrypoints, users, members>>
          /\ Writes(c, "log")
      BY <1>2, <1>6, <2>1, WriteWrites DEF At, Attempt
    <3>. QED
      BY <1>2, <1>6, <3>1, PeopleMeaning DEF At, Passed
  <2>2. CASE ~GroupsDeletable(Req(c).id)
    BY <1>2, <1>6, <2>2, RefusedMeaning DEF Attempt
  <2>. QED
    BY <2>1, <2>2
<1>. QED
  BY <1>4, <1>5, <1>6 DEF DeleteGroup

\* A statement that changes the entrypoints.
LEMMA EntrypointsMeaning ==
  ASSUME StoresInv, MeaningInv, NEW c \in Calls, Running(c), Writes(c, "log"),
         backend' = backend, Evolves(c), RowsNamed', Passed(c), call[c].pc # "log",
         UNCHANGED <<users, members>>, call[c].op # "createApp", DeployedWhereAsked(c)
  PROVE  MeaningInv' /\ Proper
<1>1. Replacing(c)'
  BY DEF Replacing, Writes, Became
<1>2. Stepped(c)
  BY Steppings
<1>3. MeaningInv'
  BY <1>1, WritesMeaning
<1>4. \A u : KeepsOrReplaces(u)
  BY DEF KeepsOrReplaces, GroupsOf
<1>. QED
  BY <1>2, <1>3, <1>4, ChangeAllowed, OneProper

LEMMA OneRow ==
  ASSUME NEW table, NEW i, NEW row
  PROVE  Without(With(table, i, row), {i}) = Without(table, {i})
<1>. DEFINE with == With(table, i, row)
<1>1. DOMAIN with \ {i} = DOMAIN table \ {i} /\ \A j \in DOMAIN table \ {i} : with[j] = table[j]
  BY DEF With
<1>. HIDE DEF with
<1>2. [j \in DOMAIN with \ {i} |-> with[j]] = [j \in DOMAIN table \ {i} |-> table[j]]
  BY <1>1
<1>. QED
  BY <1>2 DEF Without, with

LEMMA CreateEntrypointMeaning ==
  ASSUME StoresInv, MeaningInv, NEW c \in Calls, CreateEntrypoint(c)
  PROVE  MeaningInv' /\ Proper
<1>1. At(c, "createEntrypoint", "find") \/ At(c, "createEntrypoint", "check") \/ At(c,
      "createEntrypoint", "checkUrl") \/ At(c, "createEntrypoint", "act")
  BY Zenon DEF CreateEntrypoint
<1>2. /\ CallsShaped /\ TablesTyped /\ TablesAgree /\ BundlesMade /\ RowsNamed /\ Running(c)
      /\ Own(c) /\ Meant(c) /\ call[c].op = "createEntrypoint" /\ call[c].pc # "log"
  BY <1>1 DEF StoresInv, Running, At, MeaningInv
<1>4. CASE At(c, "createEntrypoint", "find") /\ FindApp(c, Req(c).app)
  <2>1. UNCHANGED <<backend, tables>>
    BY <1>4 DEF FindApp, db
  <2>2. CASE Req(c).app \in DOMAIN apps
    <3>1. Sees(c, "auth", apps[Req(c).app].name)
      BY <1>2, <1>4, <2>2, SeeSees DEF FindApp
    <3>2. AppIs(Req(c).app, apps[Req(c).app].name)
      BY <1>2, <2>2 DEF AppIs, RowsNamed, TablesTyped
    <3>. QED
      BY <1>2, <2>1, <3>1, <3>2, FoundMeaning
  <2>3. CASE Req(c).app \notin DOMAIN apps
    BY <1>2, <1>4, <2>1, <2>3, AnswerEnds, EndsProper DEF FindApp
  <2>. QED
    BY <2>2, <2>3
<1>5. CASE At(c, "createEntrypoint", "check") /\ Ensure(c, Req(c).url \notin InvalidUrls /\
            BundleFound(Req(c).bundle), "checkUrl", IF Req(c).url \in InvalidUrls THEN 400
            ELSE 404)
  <2>1. Passed(c) /\ call[c].pc = "check"
    BY <1>2, <1>5 DEF At, Passed
  <2>2. /\ Goto(c, "checkUrl") \/ \E status : Answer(c, status)
        /\ UNCHANGED <<backend, tables>>
    BY <1>5 DEF Ensure, db
  <2>. QED
    BY <1>2, <2>1, <2>2, EnsureMeaning
<1>6. CASE At(c, "createEntrypoint", "checkUrl") /\ Ensure(c, EntrypointAt(Req(c).url) =
            {}, "act", 409)
  <2>1. Passed(c) /\ call[c].pc = "checkUrl"
    BY <1>2, <1>6 DEF At, Passed
  <2>2. /\ Goto(c, "act") \/ \E status : Answer(c, status)
        /\ UNCHANGED <<backend, tables>>
    BY <1>6 DEF Ensure, db
  <2>. QED
    BY <1>2, <2>1, <2>2, EnsureMeaning
<1>7. CASE At(c, "createEntrypoint", "act") /\ Attempt(c, EntrypointsCreatable(Req(c).url,
            Req(c).app, Req(c).bundle), "log", EntrypointsCreateOne(c, Req(c).url,
            Req(c).app, Req(c).bundle), <<apps, bundles, files, groups, users, members>>)
  <2>1. CASE EntrypointsCreatable(Req(c).url, Req(c).app, Req(c).bundle)
    <3>1. /\ EntrypointsCreateOne(c, Req(c).url, Req(c).app, Req(c).bundle)
          /\ UNCHANGED <<backend, apps, bundles, files, groups, users, members>>
          /\ Writes(c, "log")
      BY <1>2, <1>7, <2>1, WriteWrites DEF At, Attempt
    <3>2. "createEntrypoint" \notin call[c].wrote
          /\ call'[c].wrote = call[c].wrote \cup {"createEntrypoint"}
      BY <1>2, <1>7, <3>1, ActsFresh DEF At, Writes, Keeps
    <3>3. Evolves(c)
      BY <3>1, <3>2 DEF Evolves, EntrypointsCreateOne, With
    <3>4. RowsNamed'
      <4>1. Stepped(c)
        BY <1>2, <3>1, Steppings
      <4>. QED
        BY <1>2, <3>1, <3>2, <4>1 DEF RowsNamed, EntrypointsCreateOne, With, Made, Stepped
    <3>5. DeployedWhereAsked(c)
      <4>. SUFFICES ASSUME Constrained, call[c].asked.op = "deploy"
                    PROVE  DeployedWhereAsked(c)
        BY DEF DeployedWhereAsked
      <4>1. /\ Req(c).url = call[c].asked.url /\ AppIs(Req(c).app, call[c].asked.name)
            /\ BundleIs(Req(c).bundle, call[c].asked.tag)
        BY <1>2 DEF Meant, Deploying
      <4>2. /\ Req(c).app \in DOMAIN apps /\ apps[Req(c).app].name = call[c].asked.name
            /\ Req(c).bundle \in DOMAIN bundles
            /\ bundles[Req(c).bundle].tag = call[c].asked.tag
        BY <2>1, <4>1, IdsAssumption
           DEF EntrypointsCreatable, References, AppIs, BundleIs, Lost
      <4>3. /\ c \in DOMAIN entrypoints'
            /\ entrypoints'[c] = [url |-> Req(c).url, app |-> Req(c).app, bundle |-> Req(c).bundle]
            /\ Without(entrypoints', {c}) = Without(entrypoints, {c})
        BY <3>1, OneRow DEF EntrypointsCreateOne, With
      <4>4. /\ entrypoints'[c].url = call[c].asked.url
            /\ apps[entrypoints'[c].app].name = call[c].asked.name
            /\ bundles[entrypoints'[c].bundle].tag = call[c].asked.tag
        BY <4>1, <4>2, <4>3
      <4>. QED
        BY <4>3, <4>4, Zenon DEF DeployedWhereAsked
    <3>6. Passed(c)
      BY <1>7 DEF At, Passed
    <3>. QED
      BY <1>2, <3>1, <3>3, <3>4, <3>5, <3>6, EntrypointsMeaning
  <2>2. CASE ~EntrypointsCreatable(Req(c).url, Req(c).app, Req(c).bundle)
    BY <1>2, <1>7, <2>2, RefusedMeaning DEF Attempt
  <2>. QED
    BY <2>1, <2>2
<1>. QED
  BY <1>4, <1>5, <1>6, <1>7 DEF CreateEntrypoint

LEMMA UpdateEntrypointMeaning ==
  ASSUME StoresInv, MeaningInv, NEW c \in Calls, UpdateEntrypoint(c)
  PROVE  MeaningInv' /\ Proper
<1>1. At(c, "updateEntrypoint", "find") \/ At(c, "updateEntrypoint", "check") \/ At(c,
      "updateEntrypoint", "act")
  BY Zenon DEF UpdateEntrypoint
<1>2. /\ CallsShaped /\ TablesTyped /\ TablesAgree /\ BundlesMade /\ RowsNamed /\ Running(c)
      /\ Own(c) /\ Meant(c) /\ call[c].op = "updateEntrypoint" /\ call[c].pc # "log"
  BY <1>1 DEF StoresInv, Running, At, MeaningInv
<1>4. CASE At(c, "updateEntrypoint", "find") /\ FindEntrypoint(c)
  <2>1. UNCHANGED <<backend, tables>>
    BY <1>4 DEF FindEntrypoint, db
  <2>2. CASE Req(c).id \in DOMAIN entrypoints
    <3>1. Sees(c, "auth", entrypoints[Req(c).id].url)
      BY <1>2, <1>4, <2>2, SeeSees DEF FindEntrypoint
    <3>2. EntrypointIs(Req(c).id, entrypoints[Req(c).id].url)
      BY <1>2, <2>2 DEF EntrypointIs, RowsNamed, TablesTyped
    <3>. QED
      BY <1>2, <2>1, <3>1, <3>2, FoundMeaning
  <2>3. CASE Req(c).id \notin DOMAIN entrypoints
    BY <1>2, <1>4, <2>1, <2>3, AnswerEnds, EndsProper DEF FindEntrypoint
  <2>. QED
    BY <2>2, <2>3
<1>5. CASE At(c, "updateEntrypoint", "check") /\ Ensure(c, BundleFound(Req(c).bundle),
            "act", 404)
  <2>1. Passed(c) /\ call[c].pc = "check"
    BY <1>2, <1>5 DEF At, Passed
  <2>2. /\ Goto(c, "act") \/ \E status : Answer(c, status)
        /\ UNCHANGED <<backend, tables>>
    BY <1>5 DEF Ensure, db
  <2>. QED
    BY <1>2, <2>1, <2>2, EnsureMeaning
<1>6. CASE At(c, "updateEntrypoint", "act") /\ Attempt(c, EntrypointsUpdatable(Req(c).id,
            Req(c).bundle), "log", EntrypointsUpdateOne(Req(c).id, Req(c).bundle), <<apps,
            bundles, files, groups, users, members>>)
  <2>1. CASE EntrypointsUpdatable(Req(c).id, Req(c).bundle)
    <3>1. /\ EntrypointsUpdateOne(Req(c).id, Req(c).bundle)
          /\ UNCHANGED <<backend, apps, bundles, files, groups, users, members>>
          /\ Writes(c, "log")
      BY <1>2, <1>6, <2>1, WriteWrites DEF At, Attempt
    <3>2. \/ entrypoints' = entrypoints
          \/ /\ Req(c).id \in DOMAIN entrypoints
             /\ entrypoints' = With(entrypoints, Req(c).id,
                  [url |-> entrypoints[Req(c).id].url, app |-> entrypoints[Req(c).id].app,
                   bundle |-> Req(c).bundle])
          \/ /\ ~Constrained /\ Req(c).id \notin DOMAIN entrypoints
             /\ entrypoints' = With(entrypoints, Req(c).id,
                  [url |-> None, app |-> None, bundle |-> Req(c).bundle])
      <4>1. Req(c).id \in DOMAIN entrypoints =>
              [entrypoints[Req(c).id] EXCEPT !.bundle = Req(c).bundle]
                = [url |-> entrypoints[Req(c).id].url, app |-> entrypoints[Req(c).id].app,
                   bundle |-> Req(c).bundle]
        BY <1>2 DEF TablesTyped
      <4>. QED
        BY <3>1, <4>1 DEF EntrypointsUpdateOne, EntrypointsUpdateInMemory
    <3>3. Evolves(c)
      BY <3>1, <3>2 DEF Evolves, With
    <3>4. RowsNamed'
      <4>1. Stepped(c)
        BY <1>2, <3>1, Steppings
      <4>2. Made("createEntrypoint", Req(c).id)
        BY <1>2, <1>6 DEF Meant, Finding, EntrypointIs, At
      <4>. QED
        BY <1>2, <3>1, <3>2, <4>1, <4>2 DEF RowsNamed, With, Made, Stepped
    <3>5. DeployedWhereAsked(c)
      <4>. SUFFICES ASSUME Constrained, call[c].asked.op = "deploy", entrypoints' # entrypoints
                    PROVE  DeployedWhereAsked(c)
        BY DEF DeployedWhereAsked, Makes
      <4>1. /\ EntrypointIs(Req(c).id, call[c].asked.url)
            /\ OfApp(Req(c).id, call[c].asked.name) /\ BundleIs(Req(c).bundle, call[c].asked.tag)
        BY <1>2 DEF Meant, Deploying
      <4>2. /\ Req(c).id \in DOMAIN entrypoints
            /\ entrypoints' = With(entrypoints, Req(c).id,
                  [url |-> entrypoints[Req(c).id].url, app |-> entrypoints[Req(c).id].app,
                   bundle |-> Req(c).bundle])
        BY <3>2
      <4>3. /\ entrypoints[Req(c).id].url = call[c].asked.url
            /\ apps[entrypoints[Req(c).id].app].name = call[c].asked.name
            /\ bundles[Req(c).bundle].tag = call[c].asked.tag
        BY <1>2, <2>1, <4>1, <4>2, IdsAssumption
           DEF EntrypointsUpdatable, TablesAgree, References, EntrypointIs, OfApp, AppIs, BundleIs,
               Lost
      <4>4. /\ Req(c).id \in DOMAIN entrypoints'
            /\ entrypoints'[Req(c).id] = [url |-> entrypoints[Req(c).id].url,
                   app |-> entrypoints[Req(c).id].app, bundle |-> Req(c).bundle]
            /\ Without(entrypoints', {Req(c).id}) = Without(entrypoints, {Req(c).id})
        BY <4>2, OneRow DEF With
      <4>5. /\ entrypoints'[Req(c).id].url = call[c].asked.url
            /\ apps[entrypoints'[Req(c).id].app].name = call[c].asked.name
            /\ bundles[entrypoints'[Req(c).id].bundle].tag = call[c].asked.tag
        BY <4>3, <4>4
      <4>. QED
        BY <4>4, <4>5, Zenon DEF DeployedWhereAsked
    <3>6. Passed(c)
      BY <1>6 DEF At, Passed
    <3>. QED
      BY <1>2, <3>1, <3>3, <3>4, <3>5, <3>6, EntrypointsMeaning
  <2>2. CASE ~EntrypointsUpdatable(Req(c).id, Req(c).bundle)
    BY <1>2, <1>6, <2>2, RefusedMeaning DEF Attempt
  <2>. QED
    BY <2>1, <2>2
<1>. QED
  BY <1>4, <1>5, <1>6 DEF UpdateEntrypoint

LEMMA DeleteEntrypointMeaning ==
  ASSUME StoresInv, MeaningInv, NEW c \in Calls, DeleteEntrypoint(c)
  PROVE  MeaningInv' /\ Proper
<1>1. At(c, "deleteEntrypoint", "find") \/ At(c, "deleteEntrypoint", "act")
  BY Zenon DEF DeleteEntrypoint
<1>2. /\ CallsShaped /\ TablesTyped /\ TablesAgree /\ BundlesMade /\ RowsNamed /\ Running(c)
      /\ Own(c) /\ Meant(c) /\ call[c].op = "deleteEntrypoint" /\ call[c].pc # "log"
  BY <1>1 DEF StoresInv, Running, At, MeaningInv
<1>4. CASE At(c, "deleteEntrypoint", "find") /\ FindEntrypoint(c)
  <2>1. UNCHANGED <<backend, tables>>
    BY <1>4 DEF FindEntrypoint, db
  <2>2. CASE Req(c).id \in DOMAIN entrypoints
    <3>1. Sees(c, "auth", entrypoints[Req(c).id].url)
      BY <1>2, <1>4, <2>2, SeeSees DEF FindEntrypoint
    <3>2. EntrypointIs(Req(c).id, entrypoints[Req(c).id].url)
      BY <1>2, <2>2 DEF EntrypointIs, RowsNamed, TablesTyped
    <3>. QED
      BY <1>2, <2>1, <3>1, <3>2, FoundMeaning
  <2>3. CASE Req(c).id \notin DOMAIN entrypoints
    BY <1>2, <1>4, <2>1, <2>3, AnswerEnds, EndsProper DEF FindEntrypoint
  <2>. QED
    BY <2>2, <2>3
<1>5. CASE At(c, "deleteEntrypoint", "act") /\ Attempt(c, TRUE, "log",
            EntrypointsDeleteOne(Req(c).id), <<apps, bundles, files, groups, users,
            members>>)
  <2>1. /\ EntrypointsDeleteOne(Req(c).id)
        /\ UNCHANGED <<backend, apps, bundles, files, groups, users, members>>
        /\ Writes(c, "log")
    BY <1>2, <1>5, WriteWrites DEF At, Attempt
  <2>2. Evolves(c)
    BY <2>1 DEF Evolves, EntrypointsDeleteOne, Without
  <2>3. RowsNamed'
    <3>1. Stepped(c)
      BY <1>2, <2>1, Steppings
    <3>. QED
      BY <1>2, <2>1, <3>1 DEF RowsNamed, EntrypointsDeleteOne, Without, Made, Stepped
  <2>4. DeployedWhereAsked(c) /\ Passed(c)
    BY <1>2, <1>5 DEF DeployedWhereAsked, Own, Asking, DeployOps, At, Passed
  <2>. QED
    BY <1>2, <2>1, <2>2, <2>3, <2>4, EntrypointsMeaning
<1>. QED
  BY <1>4, <1>5 DEF DeleteEntrypoint

-----------------------------------------------------------------------------

LEMMA InsertUserMeaning ==
  ASSUME StoresInv, MeaningInv, NEW c \in Calls, Running(c), NEW login, NEW gs,
         NEW next \in {"log", "end"}, InsertUser(c, login, gs, next),
         Passed(c) \/ call[c].op = "bootstrap", call[c].pc # "log", call[c].op # "createApp"
  PROVE  MeaningInv' /\ Proper
<1>1. CallsShaped
  BY DEF StoresInv
<1>2. CASE Constrained /\ UsersCreatable(login)
  <2>1. PICK pc \in {"link", "log", "end"} : Writes(c, pc)
    BY <1>1, <1>2, WriteWrites DEF InsertUser, Attempt
  <2>2. UNCHANGED <<backend, apps, bundles, entrypoints, members>>
    BY <1>2 DEF InsertUser, Attempt
  <2>. QED
    BY <2>1, <2>2, PeopleMeaning
<1>3. CASE Constrained /\ ~UsersCreatable(login)
  <2>1. Answer(c, 500) /\ UNCHANGED <<backend, tables>>
    BY <1>3 DEF InsertUser, Attempt
  <2>. QED
    BY <2>1, RefusedMeaning
<1>4. CASE ~Constrained
  <2>1. Writes(c, next)
    BY <1>1, <1>4, WriteWrites DEF InsertUser, Attempt
  <2>2. UNCHANGED <<backend, apps, bundles, entrypoints>> /\ members \subseteq members'
    BY <1>4 DEF InsertUser, Attempt, MembersInsert
  <2>. QED
    BY <2>1, <2>2, PeopleMeaning
<1>. QED
  BY <1>2, <1>3, <1>4

LEMMA LinkUserMeaning ==
  ASSUME StoresInv, MeaningInv, NEW c \in Calls, Running(c), NEW user, NEW gs,
         NEW next \in {"log", "end"}, LinkUser(c, user, gs, next),
         Passed(c) \/ call[c].op = "bootstrap", call[c].pc # "log", call[c].op # "createApp"
  PROVE  MeaningInv' /\ Proper
<1>1. CallsShaped
  BY DEF StoresInv
<1>2. CASE MembersInsertable(user, gs)
  <2>1. Writes(c, next)
    BY <1>1, <1>2, WriteWrites DEF LinkUser, Attempt
  <2>2. UNCHANGED <<backend, apps, bundles, entrypoints>> /\ members \subseteq members'
    BY <1>2 DEF LinkUser, Attempt, MembersInsert
  <2>. QED
    BY <2>1, <2>2, PeopleMeaning
<1>3. CASE ~MembersInsertable(user, gs)
  <2>1. Answer(c, 500) /\ UNCHANGED <<backend, tables>>
    BY <1>3 DEF LinkUser, Attempt
  <2>. QED
    BY <2>1, RefusedMeaning
<1>. QED
  BY <1>2, <1>3

\* A statement that takes users out of groups.
LEMMA MembersMeaning ==
  ASSUME StoresInv, MeaningInv, NEW c \in Calls, Running(c), NEW pc, Writes(c, pc),
         UNCHANGED <<backend, apps, bundles, entrypoints>>, pc \in {"log", "unlink"},
         Passed(c), call[c].pc # "log", call[c].op # "createApp", Replacing(c)',
         \A u \in DOMAIN users \cap DOMAIN users' : KeepsOrReplaces(u)
  PROVE  MeaningInv' /\ Proper
<1>1. Stepped(c) /\ DeployedWhereAsked(c) /\ AuthorizedChange(c)
  BY Steppings, ChangeAllowed DEF DeployedWhereAsked, Makes
<1>2. Evolves(c) /\ RowsNamed'
  BY <1>1, QuietEvolves
<1>. QED
  BY <1>1, <1>2, WritesMeaning, OneProper

LEMMA CreateUserMeaning ==
  ASSUME StoresInv, MeaningInv, NEW c \in Calls, CreateUser(c)
  PROVE  MeaningInv' /\ Proper
<1>1. At(c, "createUser", "check") \/ At(c, "createUser", "checkGroups") \/ At(c,
      "createUser", "act") \/ At(c, "createUser", "link")
  BY Zenon DEF CreateUser
<1>2. /\ CallsShaped /\ TablesTyped /\ TablesAgree /\ BundlesMade /\ RowsNamed /\ Running(c)
      /\ Own(c) /\ Meant(c) /\ call[c].op = "createUser" /\ call[c].pc # "log"
  BY <1>1 DEF StoresInv, Running, At, MeaningInv
<1>4. CASE At(c, "createUser", "check") /\ Ensure(c, UserWith(Req(c).login) = {},
            "checkGroups", 409)
  <2>1. Passed(c) /\ call[c].pc = "check"
    BY <1>2, <1>4 DEF At, Passed
  <2>2. /\ Goto(c, "checkGroups") \/ \E status : Answer(c, status)
        /\ UNCHANGED <<backend, tables>>
    BY <1>4 DEF Ensure, db
  <2>. QED
    BY <1>2, <2>1, <2>2, EnsureMeaning
<1>5. CASE At(c, "createUser", "checkGroups") /\ Ensure(c, GroupsFound(Req(c).groups),
            "act", 404)
  <2>1. Passed(c) /\ call[c].pc = "checkGroups"
    BY <1>2, <1>5 DEF At, Passed
  <2>2. /\ Goto(c, "act") \/ \E status : Answer(c, status)
        /\ UNCHANGED <<backend, tables>>
    BY <1>5 DEF Ensure, db
  <2>. QED
    BY <1>2, <2>1, <2>2, EnsureMeaning
<1>6. CASE At(c, "createUser", "act") /\ InsertUser(c, Req(c).login, Req(c).groups, "log")
  <2>1. Passed(c)
    BY <1>6 DEF At, Passed
  <2>. QED
    BY <1>2, <1>6, <2>1, InsertUserMeaning
<1>7. CASE At(c, "createUser", "link") /\ LinkUser(c, c, Req(c).groups, "log")
  <2>1. Passed(c)
    BY <1>7 DEF At, Passed
  <2>. QED
    BY <1>2, <1>7, <2>1, LinkUserMeaning
<1>. QED
  BY <1>4, <1>5, <1>6, <1>7 DEF CreateUser

LEMMA UpdateUserMeaning ==
  ASSUME StoresInv, MeaningInv, NEW c \in Calls, UpdateUser(c)
  PROVE  MeaningInv' /\ Proper
<1>1. At(c, "updateUser", "find") \/ At(c, "updateUser", "check") \/ At(c, "updateUser",
      "act") \/ At(c, "updateUser", "act") \/ At(c, "updateUser", "link") \/ At(c,
      "updateUser", "unlink")
  BY Zenon DEF UpdateUser, ReplaceGroups
<1>2. /\ CallsShaped /\ TablesTyped /\ TablesAgree /\ BundlesMade /\ RowsNamed /\ Running(c)
      /\ Own(c) /\ Meant(c) /\ call[c].op = "updateUser" /\ call[c].pc # "log"
  BY <1>1 DEF StoresInv, Running, At, MeaningInv
<1>3. Req(c).id \in Ids /\ Req(c).groups \in SUBSET Ids
  BY <1>2 DEF Own, Asking, RequestTyped, Ids
<1>4. CASE At(c, "updateUser", "find") /\ FindUser(c, "check")
  <2>1. Passed(c)
    BY <1>2, <1>4 DEF At, Passed, FindsFirst
  <2>2. /\ Goto(c, "check") \/ \E status : Answer(c, status)
        /\ UNCHANGED <<backend, tables>>
    BY <1>4 DEF FindUser, Ensure, db
  <2>. QED
    BY <1>2, <2>1, <2>2, EnsureMeaning
<1>5. CASE At(c, "updateUser", "check") /\ Ensure(c, GroupsFound(Req(c).groups), "act",
            404)
  <2>1. Passed(c) /\ call[c].pc = "check"
    BY <1>2, <1>5 DEF At, Passed
  <2>2. /\ Goto(c, "act") \/ \E status : Answer(c, status)
        /\ UNCHANGED <<backend, tables>>
    BY <1>5 DEF Ensure, db
  <2>. QED
    BY <1>2, <2>1, <2>2, EnsureMeaning
<1>6. CASE At(c, "updateUser", "act") /\ Constrained /\ ReplaceGroups(c)
  <2>1. Passed(c)
    BY <1>2, <1>6 DEF At, Passed
  <2>2. PICK pc \in {"unlink", "link"} :
          Goto(c, pc) /\ UNCHANGED <<backend, tables>> /\ (pc = "unlink" => Req(c).groups = {})
    BY <1>2, <1>6 DEF ReplaceGroups, At, db
  <2>3. Proceeds(c, pc) /\ UNCHANGED <<apps, bundles, entrypoints>>
    BY <1>2, <2>2, GotoMoves, Proceedings DEF tables
  <2>. QED
    BY <1>2, <2>1, <2>2, <2>3, ProceedsMeaning, QuietProper
<1>7. CASE At(c, "updateUser", "act") /\ ~Constrained /\ ReplaceGroups(c)
  <2>1. Passed(c)
    BY <1>2, <1>7 DEF At, Passed
  <2>2. /\ Writes(c, "log") /\ UNCHANGED <<backend, apps, bundles, entrypoints>>
        /\ members' = {m \in members : m[1] # Req(c).id} \cup ({Req(c).id} \X Req(c).groups)
    BY <1>2, <1>7, WriteWrites DEF ReplaceGroups, Attempt, UsersUpdateInMemory, At
  <2>3. Replacing(c)' /\ call'[c] # call[c]
    BY <1>2, <2>2 DEF Replacing, Writes, Became
  <2>4. ASSUME NEW u
        PROVE  KeepsOrReplaces(u)
    <3>1. CASE u = Req(c).id
      <4>1. GroupsOf(u)' = Req(c).groups
        BY <1>3, <2>2, <3>1 DEF GroupsOf
      <4>. QED
        BY <1>2, <2>3, <4>1 DEF KeepsOrReplaces
    <3>2. CASE u # Req(c).id
      <4>1. GroupsOf(u) \subseteq GroupsOf(u)'
        BY <2>2, <3>2 DEF GroupsOf
      <4>. QED
        BY <4>1 DEF KeepsOrReplaces
    <3>. QED
      BY <3>1, <3>2
  <2>. QED
    BY <1>2, <2>1, <2>2, <2>3, <2>4, MembersMeaning
<1>8. CASE At(c, "updateUser", "link") /\ LinkUser(c, Req(c).id, Req(c).groups, "unlink")
  <2>1. Passed(c)
    BY <1>2, <1>8 DEF At, Passed
  <2>2. CASE MembersInsertable(Req(c).id, Req(c).groups)
    <3>1. /\ Writes(c, "unlink") /\ UNCHANGED <<backend, apps, bundles, entrypoints>>
          /\ members' = members \cup ({Req(c).id} \X Req(c).groups)
      BY <1>2, <1>8, <2>2, WriteWrites DEF LinkUser, Attempt, MembersInsert, At
    <3>2. Req(c).groups \subseteq GroupsOf(Req(c).id)' /\ Req(c)' = Req(c)
      BY <1>3, <3>1 DEF GroupsOf, Writes, Became, Req
    <3>3. Replacing(c)'
      BY <3>2 DEF Replacing, GroupsOf
    <3>4. \A u : KeepsOrReplaces(u)
      BY <3>1 DEF KeepsOrReplaces, GroupsOf
    <3>. QED
      BY <1>2, <2>1, <3>1, <3>3, <3>4, MembersMeaning
  <2>3. CASE ~MembersInsertable(Req(c).id, Req(c).groups)
    BY <1>2, <1>8, <2>3, RefusedMeaning DEF LinkUser, Attempt
  <2>. QED
    BY <2>2, <2>3
<1>9. CASE /\ At(c, "updateUser", "unlink")
           /\ Attempt(c, TRUE, "log", MembersKeepOnly(Req(c).id, Req(c).groups),
                      <<apps, bundles, files, entrypoints, groups, users>>)
  <2>1. Passed(c)
    BY <1>2, <1>9 DEF At, Passed
  <2>2. /\ Writes(c, "log") /\ UNCHANGED <<backend, apps, bundles, entrypoints>>
        /\ members' = {m \in members : m[1] = Req(c).id => m[2] \in Req(c).groups}
    BY <1>2, <1>9, WriteWrites DEF Attempt, MembersKeepOnly, At
  <2>3. Replacing(c)' /\ call'[c] # call[c]
    BY <1>2, <2>2 DEF Replacing, Writes, Became
  <2>4. ASSUME NEW u
        PROVE  KeepsOrReplaces(u)
    <3>1. CASE u = Req(c).id /\ call[c].alone
      <4>1. Req(c).groups \subseteq GroupsOf(u)
        BY <1>2, <1>9, <3>1 DEF Meant, Replacing, At
      <4>2. GroupsOf(u)' = Req(c).groups
        BY <1>3, <2>2, <3>1, <4>1 DEF GroupsOf
      <4>. QED
        BY <1>2, <2>3, <4>2 DEF KeepsOrReplaces
    <3>2. CASE u = Req(c).id /\ ~call[c].alone
      BY <1>2, <2>3, <3>2 DEF KeepsOrReplaces
    <3>3. CASE u # Req(c).id
      <4>1. GroupsOf(u) \subseteq GroupsOf(u)'
        BY <2>2, <3>3 DEF GroupsOf
      <4>. QED
        BY <4>1 DEF KeepsOrReplaces
    <3>. QED
      BY <3>1, <3>2, <3>3
  <2>. QED
    BY <1>2, <2>1, <2>2, <2>3, <2>4, MembersMeaning
<1>. QED
  BY <1>4, <1>5, <1>6, <1>7, <1>8, <1>9 DEF UpdateUser, ReplaceGroups

LEMMA DeleteUserMeaning ==
  ASSUME StoresInv, MeaningInv, NEW c \in Calls, DeleteUser(c)
  PROVE  MeaningInv' /\ Proper
<1>1. At(c, "deleteUser", "find") \/ At(c, "deleteUser", "act")
  BY Zenon DEF DeleteUser
<1>2. /\ CallsShaped /\ TablesTyped /\ TablesAgree /\ BundlesMade /\ RowsNamed /\ Running(c)
      /\ Own(c) /\ Meant(c) /\ call[c].op = "deleteUser" /\ call[c].pc # "log"
  BY <1>1 DEF StoresInv, Running, At, MeaningInv
<1>4. CASE At(c, "deleteUser", "find") /\ FindUser(c, "act")
  <2>1. Passed(c)
    BY <1>2, <1>4 DEF At, Passed, FindsFirst
  <2>2. /\ Goto(c, "act") \/ \E status : Answer(c, status)
        /\ UNCHANGED <<backend, tables>>
    BY <1>4 DEF FindUser, Ensure, db
  <2>. QED
    BY <1>2, <2>1, <2>2, EnsureMeaning
<1>5. CASE At(c, "deleteUser", "act") /\ Attempt(c, TRUE, "log", UsersDeleteOne(Req(c).id),
            <<apps, bundles, files, entrypoints, groups>>)
  <2>1. /\ UsersDeleteOne(Req(c).id)
        /\ UNCHANGED <<backend, apps, bundles, files, entrypoints, groups>>
        /\ Writes(c, "log")
    BY <1>2, <1>5, WriteWrites DEF At, Attempt
  <2>2. Passed(c) /\ Replacing(c)'
    BY <1>2, <1>5, <2>1 DEF At, Passed, Replacing, Writes, Became
  <2>3. ASSUME NEW u \in DOMAIN users \cap DOMAIN users'
        PROVE  KeepsOrReplaces(u)
    <3>1. u # Req(c).id
      BY <2>1 DEF UsersDeleteOne, Without
    <3>2. GroupsOf(u) \subseteq GroupsOf(u)'
      BY <2>1, <3>1 DEF UsersDeleteOne, GroupsOf
    <3>. QED
      BY <3>2 DEF KeepsOrReplaces
  <2>. QED
    BY <1>2, <2>1, <2>2, <2>3, MembersMeaning
<1>. QED
  BY <1>4, <1>5 DEF DeleteUser

LEMMA BootstrapMeaning ==
  ASSUME StoresInv, MeaningInv, NEW c \in Calls, Bootstrap(c)
  PROVE  MeaningInv' /\ Proper
<1>1. At(c, "bootstrap", "find") \/ At(c, "bootstrap", "group") \/ At(c, "bootstrap",
      "user") \/ At(c, "bootstrap", "act") \/ At(c, "bootstrap", "link") \/ At(c,
      "bootstrap", "end")
  BY Zenon DEF Bootstrap
<1>2. /\ CallsShaped /\ TablesTyped /\ TablesAgree /\ BundlesMade /\ RowsNamed /\ Running(c)
      /\ Own(c) /\ Meant(c) /\ call[c].op = "bootstrap" /\ call[c].pc # "log"
  BY <1>1 DEF StoresInv, Running, At, MeaningInv
<1>4. CASE /\ At(c, "bootstrap", "find") /\ UNCHANGED <<db, cuts>>
           /\ \E g \in OneOf(GroupNamed("root")) :
                IF g = None THEN See(c, "group", c) ELSE See(c, "user", g)
  <2>1. PICK pc \in {"group", "user"} : Proceeds(c, pc)
    BY <1>2, <1>4, SeeSees, Proceedings DEF DeployOps
  <2>2. UNCHANGED <<backend, tables>> /\ UNCHANGED <<apps, bundles, entrypoints>>
    BY <1>4 DEF db, tables
  <2>. QED
    BY <1>2, <2>1, <2>2, ProceedsMeaning, QuietProper
<1>5. CASE At(c, "bootstrap", "group") /\ Attempt(c, GroupsCreatable("root"), "user",
            GroupsCreateOne(c, "root", RootRoles), <<apps, bundles, files, entrypoints,
            users, members>>)
  <2>1. CASE GroupsCreatable("root")
    <3>1. /\ GroupsCreateOne(c, "root", RootRoles)
          /\ UNCHANGED <<backend, apps, bundles, files, entrypoints, users, members>>
          /\ Writes(c, "user")
      BY <1>2, <1>5, <2>1, WriteWrites DEF At, Attempt
    <3>. QED
      BY <1>2, <3>1, PeopleMeaning
  <2>2. CASE ~GroupsCreatable("root")
    BY <1>2, <1>5, <2>2, RefusedMeaning DEF Attempt
  <2>. QED
    BY <2>1, <2>2
<1>6. CASE /\ At(c, "bootstrap", "user") /\ UNCHANGED <<db, cuts>>
           /\ IF UserWith("root") = {} THEN Goto(c, "act") ELSE Answer(c, 200)
  <2>1. UNCHANGED <<backend, tables>> /\ UNCHANGED <<apps, bundles, entrypoints>>
    BY <1>6 DEF db, tables
  <2>2. CASE Goto(c, "act")
    <3>1. Proceeds(c, "act")
      BY <1>2, <2>2, GotoMoves, Proceedings
    <3>. QED
      BY <1>2, <2>1, <3>1, ProceedsMeaning, QuietProper
  <2>3. CASE Answer(c, 200)
    BY <1>2, <2>1, <2>3, AnswerEnds, EndsProper
  <2>. QED
    BY <1>6, <2>2, <2>3
<1>7. CASE At(c, "bootstrap", "act") /\ InsertUser(c, "root", {call[c].saw}, "end")
  BY <1>2, <1>7, InsertUserMeaning
<1>8. CASE At(c, "bootstrap", "link") /\ LinkUser(c, c, {call[c].saw}, "end")
  BY <1>2, <1>8, LinkUserMeaning
<1>9. CASE At(c, "bootstrap", "end") /\ Answer(c, 200) /\ UNCHANGED <<db, cuts>>
  <2>1. UNCHANGED <<backend, tables>>
    BY <1>9 DEF db
  <2>. QED
    BY <1>2, <1>9, <2>1, AnswerEnds, EndsProper
<1>. QED
  BY <1>4, <1>5, <1>6, <1>7, <1>8, <1>9 DEF Bootstrap

LEMMA UploadMeaning ==
  ASSUME StoresInv, MeaningInv, NEW c \in Calls, Upload(c)
  PROVE  MeaningInv' /\ Proper
<1>1. /\ CallsShaped /\ call[c].op = "createBundle" /\ call[c].pc = "upload" /\ Running(c)
      /\ UNCHANGED <<backend, apps, bundles, entrypoints, members>> /\ Passed(c)
  BY DEF StoresInv, Upload, At, Running, Passed
<1>2. PICK pc \in {"upload", "act"} : Goto(c, pc)
  BY DEF Upload
<1>3. Moves(c, pc) /\ Proceeds(c, pc)
  BY <1>1, <1>2, GotoMoves, Proceedings
<1>4. Stepped(c)
  BY <1>1, <1>3, Steppings
<1>. QED
  BY <1>1, <1>3, <1>4, ProceedsMeaning, ElsewhereProper

LEMMA CreateBundleMeaning ==
  ASSUME StoresInv, MeaningInv, NEW c \in Calls, CreateBundle(c)
  PROVE  MeaningInv' /\ Proper
<1>1. CASE Upload(c)
  BY <1>1, UploadMeaning
<1>2. CASE At(c, "createBundle", "act") /\ ~Upload(c)
  <2>1. /\ CallsShaped /\ call[c].op = "createBundle" /\ call[c].pc = "act" /\ Running(c)
        /\ Own(c) /\ RowsNamed /\ Passed(c)
    BY <1>2 DEF StoresInv, At, Running, MeaningInv, Passed
  <2>2. /\ UNCHANGED <<backend, apps, entrypoints, members>>
        /\ Writes(c, "log") /\ BundlesCreateRow(c, Req(c).tag)
    <3>1. CASE Constrained
      BY <1>2, <2>1, <3>1, WriteWrites DEF CreateBundle, Attempt
    <3>2. CASE ~Constrained
      BY <1>2, <2>1, <3>2, WriteWrites DEF CreateBundle, Attempt, BundlesCreateInMemory
    <3>. QED
      BY <3>1, <3>2
  <2>3. "createBundle" \notin call[c].wrote
    BY <2>1, ActsFresh
  <2>4. Evolves(c)
    BY <2>2, <2>3 DEF Evolves, BundlesCreateRow, With
  <2>5. RowsNamed'
    <3>1. Stepped(c)
      BY <2>1, <2>2, Steppings
    <3>. QED
      BY <2>1, <2>2, <3>1 DEF RowsNamed, Made, Stepped
  <2>. QED
    BY <2>1, <2>2, <2>4, <2>5, ChangesMeaning
<1>. QED
  BY <1>1, <1>2 DEF CreateBundle

LEMMA UnlinkMeaning ==
  ASSUME StoresInv, MeaningInv, NEW c \in Calls, Unlink(c)
  PROVE  MeaningInv' /\ Proper
<1>1. /\ CallsShaped /\ call[c].op = "deleteBundles" /\ call[c].pc = "unlink" /\ Running(c)
      /\ UNCHANGED <<backend, apps, bundles, entrypoints, users, members>> /\ Passed(c)
  BY DEF StoresInv, Unlink, At, Running, Passed
<1>2. CASE Goto(c, "act")
  <2>1. Moves(c, "act") /\ Proceeds(c, "act")
    BY <1>1, <1>2, GotoMoves, Proceedings
  <2>2. Stepped(c)
    BY <1>1, <2>1, Steppings
  <2>. QED
    BY <1>1, <2>1, <2>2, ProceedsMeaning, ElsewhereProper
<1>3. CASE UNCHANGED call
  <2>1. CallsShaped'
    BY <1>1, <1>3 DEF CallsShaped, IsCall, Idle
  <2>2. Stepped(c)
    BY <1>1, <1>3, <2>1 DEF Stepped, Running
  <2>3. Evolves(c) /\ RowsNamed'
    BY <1>1, <2>2, QuietEvolves
  <2>4. Meant(c)'
    <3>1. Meant(c)
      BY DEF MeaningInv
    <3>2. /\ Finding(c)' /\ Deploying(c)'
      <4>1. call[c].asked.op # "deploy"
        BY <1>1 DEF StoresInv, Own, Asking, DeployOps
      <4>. QED
        BY <1>1, <1>3, <4>1 DEF Finding, Deploying
    <3>3. Allowed(c)' /\ Replacing(c)'
      BY <1>1, <1>3, <3>1 DEF Meant, Allowed, Replacing, Permitted, Passed, Running, Req
    <3>. QED
      BY <3>2, <3>3 DEF Meant
  <2>5. MeaningInv'
    BY <2>2, <2>3, <2>4, MeaningStays
  <2>. QED
    BY <1>1, <2>2, <2>5, ElsewhereProper
<1>. QED
  BY <1>2, <1>3 DEF Unlink

LEMMA DeleteBundlesMeaning ==
  ASSUME StoresInv, MeaningInv, NEW c \in Calls, DeleteBundles(c)
  PROVE  MeaningInv' /\ Proper
<1>1. call[c].op = "deleteBundles" /\ call[c].pc \in {"find", "check", "unlink", "act"}
  BY Zenon DEF DeleteBundles, Unlink, At
<1>2. /\ CallsShaped /\ RowsNamed /\ Running(c) /\ Own(c) /\ Passed(c) /\ call[c].pc # "log"
  BY <1>1 DEF StoresInv, Running, MeaningInv, Passed, FindsFirst
<1>3. CASE UNCHANGED <<db, cuts>> /\ See(c, "check", Tagged(Req(c).tag))
  <2>1. Proceeds(c, "check")
    BY <1>1, <1>2, <1>3, SeeSees, Proceedings DEF DeployOps
  <2>2. UNCHANGED <<backend, tables>> /\ UNCHANGED <<apps, bundles, entrypoints>>
    BY <1>3 DEF db, tables
  <2>. QED
    BY <1>1, <1>2, <2>1, <2>2, ProceedsMeaning, QuietProper
<1>4. CASE \E pc \in {"unlink", "act"} : Ensure(c, ~InUse(call[c].saw), pc, 409)
  <2>1. PICK pc \in {"unlink", "act"} : Ensure(c, ~InUse(call[c].saw), pc, 409)
    BY <1>4
  <2>2. UNCHANGED <<backend, tables>> /\ UNCHANGED <<apps, bundles, entrypoints>>
    BY <2>1 DEF Ensure, db, tables
  <2>3. CASE Goto(c, pc)
    <3>1. Proceeds(c, pc)
      BY <1>2, <2>3, GotoMoves, Proceedings
    <3>. QED
      BY <1>1, <1>2, <2>2, <3>1, ProceedsMeaning, QuietProper
  <2>4. CASE Answer(c, 409)
    BY <1>2, <2>2, <2>4, AnswerEnds, EndsProper
  <2>. QED
    BY <2>1, <2>3, <2>4 DEF Ensure
<1>5. CASE Unlink(c)
  BY <1>5, UnlinkMeaning
<1>6. CASE Answer(c, 500) /\ UNCHANGED <<backend, tables>>
  BY <1>2, <1>6, RefusedMeaning
<1>7. CASE /\ Writes(c, "log") /\ BundlesDeleteRows(call[c].saw)
           /\ UNCHANGED <<backend, apps, entrypoints, members>>
  <2>1. Evolves(c)
    BY <1>7 DEF Evolves, BundlesDeleteRows, Without
  <2>2. RowsNamed'
    <3>1. Stepped(c)
      BY <1>2, <1>7, Steppings
    <3>. QED
      BY <1>2, <1>7, <3>1 DEF RowsNamed, Made, Stepped
  <2>. QED
    BY <1>1, <1>2, <1>7, <2>1, <2>2, ChangesMeaning
<1>8. CASE At(c, "deleteBundles", "act") /\ ~Unlink(c)
  <2>1. CASE Constrained
    <3>1. Attempt(c, BundlesDeletable(call[c].saw), "log", BundlesDeleteRows(call[c].saw),
                  <<apps, files, entrypoints, groups, users, members>>)
      BY <1>8, <2>1 DEF DeleteBundles, At
    <3>2. CASE BundlesDeletable(call[c].saw)
      BY <1>2, <1>7, <3>1, <3>2, WriteWrites DEF Attempt
    <3>3. CASE ~BundlesDeletable(call[c].saw)
      BY <1>6, <3>1, <3>3 DEF Attempt
    <3>. QED
      BY <3>2, <3>3
  <2>2. CASE ~Constrained
    <3>1. Attempt(c, TRUE, "log", BundlesDeleteInMemory(call[c].saw),
                  <<apps, entrypoints, groups, users, members>>)
      BY <1>8, <2>2 DEF DeleteBundles, At
    <3>. QED
      BY <1>2, <1>7, <3>1, WriteWrites DEF Attempt, BundlesDeleteInMemory
  <2>. QED
    BY <2>1, <2>2
<1>. QED
  BY <1>3, <1>4, <1>5, <1>8 DEF DeleteBundles

-----------------------------------------------------------------------------

LEMMA StepMeaning ==
  ASSUME StoresInv, MeaningInv, NEW c \in Calls, Step(c)
  PROVE  MeaningInv' /\ Proper
BY AuthorizeMeaning, LogMeaning, CreateAppMeaning, UpdateAppMeaning, DeleteAppMeaning,
   CreateBundleMeaning, DeleteBundlesMeaning, CreateEntrypointMeaning, UpdateEntrypointMeaning,
   DeleteEntrypointMeaning, DeployReadsMeaning, DeployMeaning, RespondMeaning,
   CreateGroupMeaning, UpdateGroupMeaning, DeleteGroupMeaning, CreateUserMeaning,
   UpdateUserMeaning, DeleteUserMeaning, BootstrapMeaning DEF Step

LEMMA InitMeaning == Init => MeaningInv
<1>. SUFFICES ASSUME Init
              PROVE  MeaningInv
  OBVIOUS
<1>1. \A c \in Calls : call[c] = Idle /\ ~Running(c) /\ call[c].pc = "idle"
  BY DEF Init, Idle, Running
<1>2. (DOMAIN apps \cup DOMAIN entrypoints) \cap Calls = {}
  BY IdsAssumption DEF Init, EmptyInit, SeedInit, With, Nothing
<1>3. RowsNamed
  BY <1>2 DEF RowsNamed, Made
<1>4. \A c \in Calls : Meant(c)
  BY <1>1 DEF Meant, Finding, Deploying, Allowed, Replacing
<1>. QED
  BY <1>3, <1>4 DEF MeaningInv

LEMMA MeaningKept ==
  ASSUME StoresInv, MeaningInv, [Next]_vars
  PROVE  MeaningInv' /\ [Proper]_vars
<1>1. ASSUME NEW c \in Calls, NEW r \in Requests, NEW by \in Callers(r.op), Start(c, r, by)
      PROVE  MeaningInv' /\ Proper
  BY <1>1, StartMeaning
<1>2. ASSUME NEW c \in Calls, Step(c)
      PROVE  MeaningInv' /\ Proper
  BY <1>2, StepMeaning
<1>3. ASSUME NEW c \in Calls, Cut(c)
      PROVE  MeaningInv' /\ Proper
  BY <1>3, CutMeaning
<1>4. CASE UNCHANGED vars
  <2>1. UNCHANGED call /\ UNCHANGED <<backend, apps, bundles, entrypoints, members>>
    BY <1>4 DEF vars, db, tables
  <2>2. RowsNamed' /\ Lost' = Lost
    BY <2>1 DEF MeaningInv, RowsNamed, Made, Lost, Constrained
  <2>3. ASSUME NEW c \in Calls
        PROVE  Meant(c)'
    <3>1. Finding(c)' /\ Allowed(c)' /\ Replacing(c)'
      BY <2>1, <2>2 DEF MeaningInv, Meant, Finding, Allowed, Replacing, Running, Req, AppIs,
         EntrypointIs, Made, Passed, Permitted, GroupsOf
    <3>2. Deploying(c)'
      <4>1. Deploying(c) /\ UNCHANGED call[c] /\ Running(c)' = Running(c)
        BY <2>1 DEF MeaningInv, Meant, Running
      <4>. DEFINE same ==
             /\ \A i, name : AppIs(i, name)' = AppIs(i, name) /\ OfApp(i, name)' = OfApp(i, name)
             /\ \A i, tag : BundleIs(i, tag)' = BundleIs(i, tag)
             /\ \A i, url : EntrypointIs(i, url)' = EntrypointIs(i, url)
      <4>2. same
        <5>1. \A op, i : Made(op, i)' = Made(op, i)
          BY <2>1 DEF Made
        <5>2. \A i, name : AppIs(i, name)' = AppIs(i, name)
          BY <2>1, <2>2, <5>1 DEF AppIs
        <5>3. \A i, name : OfApp(i, name)' = OfApp(i, name)
          BY <2>1, <5>2 DEF OfApp, Constrained
        <5>4. \A i, tag : BundleIs(i, tag)' = BundleIs(i, tag)
          BY <2>1, <5>1 DEF BundleIs
        <5>5. \A i, url : EntrypointIs(i, url)' = EntrypointIs(i, url)
          BY <2>1, <2>2, <5>1 DEF EntrypointIs
        <5>. QED
          BY <5>2, <5>3, <5>4, <5>5
      <4>3. CASE call[c].op = "deploy"
        BY <2>1, <2>2, <4>1, <4>3, <4>2, SMTT(30) DEF Deploying, Req, Seen
      <4>4. CASE call[c].op = "createApp"
        BY <2>1, <2>2, <4>1, <4>4, <4>2, SMTT(30) DEF Deploying, Req
      <4>5. CASE call[c].op = "createEntrypoint"
        BY <2>1, <2>2, <4>1, <4>5, <4>2, SMTT(30) DEF Deploying, Req
      <4>6. CASE call[c].op = "updateEntrypoint"
        BY <2>1, <2>2, <4>1, <4>6, <4>2, SMTT(30) DEF Deploying, Req
      <4>. QED
        BY <4>1, <4>3, <4>4, <4>5, <4>6 DEF Deploying
    <3>. QED
      BY <3>1, <3>2 DEF Meant
  <2>. QED
    BY <1>4, <2>2, <2>3 DEF MeaningInv
<1>. QED
  BY <1>1, <1>2, <1>3, <1>4 DEF Next

\* The invariant of the calls holds in every reachable state: what a call has found holds of
\* the row behind the id for as long as it is there, and what it was allowed it still is.
THEOREM MeaningInductive == Spec => []MeaningInv
<1>1. Init => MeaningInv
  BY InitMeaning
<1>2. StoresInv /\ MeaningInv /\ [Next]_vars => MeaningInv'
  BY MeaningKept
<1>. QED
  BY <1>1, <1>2, StoresInductive, PTL DEF Spec

\* Every change is one that its caller was found to hold the role for, a deploy sets the
\* entrypoint at the address it names, of the application and to a bundle it names, and a
\* user loses groups only to a complete replacement: however calls overlap or are cut off.
THEOREM ChangesAreAlwaysMeant == Spec => ChangesAreMeant
<1>1. StoresInv /\ MeaningInv /\ [Next]_vars => [\A c \in Calls : AuthorizedChange(c)]_vars
  BY MeaningKept DEF Proper
<1>2. StoresInv /\ MeaningInv /\ [Next]_vars => [\A c \in Calls : DeployedWhereAsked(c)]_vars
  BY MeaningKept DEF Proper
<1>3. /\ StoresInv /\ MeaningInv /\ [Next]_vars
      => [\A u \in DOMAIN users \cap DOMAIN users' : KeepsOrReplaces(u)]_vars
  BY MeaningKept DEF Proper
<1>. QED
  BY <1>1, <1>2, <1>3, StoresInductive, MeaningInductive, PTL
     DEF Spec, ChangesAreMeant, ChangesAreAuthorized, DeploysWhereAsked, GroupsLostWhenReplaced

-----------------------------------------------------------------------------
(* Answers say what happened.  What a call has changed is in the log, but  *)
(* for what it is just changing; and a call that is alone, or a system in  *)
(* which every call is, finds what was checked as it was.                  *)

Logging(c) ==
  \A op \in call[c].wrote \ {"bootstrap"} :
    \/ <<c, op>> \in logs
    \/ call[c].answer \in {500, CutOff}
    \/ Running(c) /\ op = call[c].op /\ call[c].pc \in {"log", "link", "unlink"}

\* Who is called root has the role, if the user has a group at all: only PostgreSQL has the
\* user without one, when the start of a server was cut off in between.
RootsRule ==
  /\ \A g \in DOMAIN groups : g # "dev" => groups[g].roles = RootRoles
  /\ "dev" \in DOMAIN groups => groups["dev"].name # "root"
  /\ \A u \in DOMAIN users :
       /\ users[u].login = "dev" => u = "dev"
       /\ users[u].login = "root" => u # "dev"
       /\ users[u].login = "root" /\ ~Constrained =>
            GroupsOf(u) # {} /\ GroupsOf(u) \subseteq DOMAIN groups \ {"dev"}

\* The Authorizer would say yes again.
RulesAgain(c) ==
  /\ UserWith(call[c].by) # {}
  /\ \A u \in UserWith(call[c].by) : RolesReadable(u) /\ <<"root", None>> \in RolesOf(u)

\* What a deploy that is alone has read is so when the use cases it runs look again.
Again(c) ==
  Running(c) /\ call[c].alone /\ call[c].asked.op = "deploy" =>
    /\ call[c].op = "deploy" =>
         /\ "bundle" \in DOMAIN Seen(c) /\ Seen(c)["bundle"] # None =>
              Seen(c)["bundle"] \in DOMAIN bundles
         /\ "entrypoint" \in DOMAIN Seen(c) /\ Seen(c)["entrypoint"] = None =>
              EntrypointAt(call[c].asked.url) = {}
    /\ call[c].rest # None =>
         /\ call[c].rest.bundle \in DOMAIN bundles /\ EntrypointAt(call[c].rest.url) = {}
         /\ call[c].pc = "log" => c \in DOMAIN apps
         /\ call[c].pc \in {"check", "act", "log"} => RulesAgain(c)
    /\ Second(c) /\ call[c].pc \in {"find", "auth", "check", "checkUrl"} =>
         /\ Req(c).app \in DOMAIN apps /\ Req(c).bundle \in DOMAIN bundles
         /\ EntrypointAt(Req(c).url) = {} /\ RulesAgain(c)

Refusing(c) ==
  call[c].answer \in {400, 403, 404, 409} /\ call[c].alone =>
    \/ call[c].wrote = {}
    \/ call[c].asked.op = "deploy" /\ call[c].asked.url \in InvalidUrls

\* The user that a call makes is there, and in groups, when the call has come to it.
People(c) ==
  /\ \/ call[c].pc = "idle"
     \/ /\ call[c].op \in {"createUser", "bootstrap"}
        /\ call[c].pc \notin {"link", "log", "end", "done"}
     => c \notin DOMAIN users /\ GroupsOf(c) = {}
  /\ call[c].op \in {"createUser", "bootstrap"} /\ call[c].pc = "link" =>
       c \in DOMAIN users /\ GroupsOf(c) = {}
  /\ call[c].op = "bootstrap" =>
       /\ call[c].wrote \subseteq {"bootstrap"}
       /\ call[c].pc = "group" => call[c].saw = c
       /\ call[c].pc \in {"user", "act", "link"} => call[c].saw \in DOMAIN groups \ {"dev"}
  /\ call[c].op = "updateUser" /\ call[c].pc = "link" => Req(c).groups # {}
  /\ call[c].pc \in {"link", "unlink"} => Constrained

AnswersInv ==
  RootsRule /\ \A c \in Calls : Logging(c) /\ Again(c) /\ Refusing(c) /\ People(c)

\* Rows agree with rows: in PostgreSQL always, in memory in a calm.
Tidy ==
  /\ \A e \in DOMAIN entrypoints : References(entrypoints[e].app, entrypoints[e].bundle)
  /\ members \subseteq (DOMAIN users) \X (DOMAIN groups)

AppsChecked(c) ==
  /\ call[c].op = "createApp" /\ call[c].pc = "act" => AppNamed(Req(c).name) = {}
  /\ call[c].op = "deleteApp" /\ call[c].pc = "act" =>
       \A e \in DOMAIN entrypoints : entrypoints[e].app # Req(c).id

EntrypointsChecked(c) ==
  /\ call[c].op = "createEntrypoint" /\ call[c].pc \in {"auth", "check", "checkUrl", "act"} =>
       Req(c).app \in DOMAIN apps
  /\ call[c].op = "createEntrypoint" /\ call[c].pc \in {"checkUrl", "act"} =>
       BundleFound(Req(c).bundle)
  /\ call[c].op = "createEntrypoint" /\ call[c].pc = "act" => EntrypointAt(Req(c).url) = {}
  /\ call[c].op = "updateEntrypoint" /\ call[c].pc \in {"auth", "check", "act"} =>
       Req(c).id \in DOMAIN entrypoints
  /\ call[c].op = "updateEntrypoint" /\ call[c].pc = "act" => BundleFound(Req(c).bundle)

GroupsChecked(c) ==
  /\ call[c].op = "createGroup" /\ call[c].pc = "act" => GroupNamed(Req(c).name) = {}
  /\ call[c].op = "updateGroup" /\ call[c].pc = "check" =>
       Req(c).id \in DOMAIN groups /\ call[c].saw = groups[Req(c).id].name
  /\ call[c].op = "updateGroup" /\ call[c].pc = "act" => GroupsUpdatable(Req(c).id, Req(c).name)
  /\ call[c].op = "deleteGroup" /\ call[c].pc = "act" => \A m \in members : m[2] # Req(c).id

UsersChecked(c) ==
  /\ call[c].op = "createUser" /\ call[c].pc \in {"checkGroups", "act"} =>
       UserWith(Req(c).login) = {}
  /\ call[c].op = "createUser" /\ call[c].pc \in {"act", "link"} => GroupsFound(Req(c).groups)
  /\ call[c].op = "updateUser" /\ call[c].pc = "act" => GroupsFound(Req(c).groups)
  /\ call[c].op = "bootstrap" /\ call[c].pc = "group" => GroupNamed("root") = {}
  /\ call[c].op = "bootstrap" /\ call[c].pc = "act" => UserWith("root") = {}

\* The static server finds the bundle and the application of the entrypoint it has read.
ServingChecked(c) ==
  call[c].op = "respond" /\ call[c].pc \in {"bundle", "content", "config"} =>
    call[c].saw.bundle \in DOMAIN bundles /\ call[c].saw.app \in DOMAIN apps

Checked(c) ==
  Running(c) =>
    /\ AppsChecked(c) /\ EntrypointsChecked(c) /\ GroupsChecked(c)
    /\ UsersChecked(c) /\ ServingChecked(c)

CalmInv ==
  /\ Undisturbed => Tidy /\ \A c \in Calls : Checked(c)
  /\ FailsOnlyInARace
  /\ \A c \in Calls : call[c].answer = CutOff => cuts > 0

TruthInv == AnswersInv /\ CalmInv

Excused(c) == call[c].op = "updateUser" /\ Req(c).groups # {}

Exempt(c) == call[c].asked.op = "deploy" /\ call[c].asked.url \in InvalidUrls

-----------------------------------------------------------------------------
(* A step of one call: what the others rely on is theirs, or was given up. *)

LEMMA CalmBefore ==
  ASSUME NEW c \in Calls, Stepped(c), cuts \in Nat, cuts' \in Nat, cuts <= cuts', Undisturbed'
  PROVE  Undisturbed
<1>1. cuts = 0
  BY DEF Undisturbed
<1>2. \A d \in Calls : call[d].alone
  BY DEF Undisturbed, Stepped
<1>. QED
  BY <1>1, <1>2 DEF Undisturbed

\* It makes one user and changes one other, and deletes no group that a server made.
PeopleStay(c) ==
  /\ \A d \in Calls :
       d # c => (d \in DOMAIN users' => d \in DOMAIN users) /\ GroupsOf(d)' = GroupsOf(d)
  /\ \A d \in Calls : d # c /\ d \in DOMAIN users => d \in DOMAIN users'
  /\ DOMAIN groups \ {"dev"} \subseteq DOMAIN groups'

LEMMA NobodyNew ==
  ASSUME UNCHANGED <<groups, users, members>>, NEW c \in Calls
  PROVE  PeopleStay(c)
BY DEF PeopleStay, GroupsOf

LEMMA TruthSteps ==
  ASSUME StoresInv, TruthInv, NEW c \in Calls, Stepped(c), logs \subseteq logs',
         cuts' \in Nat, cuts <= cuts', PeopleStay(c),
         RootsRule', Logging(c)', Again(c)', Refusing(c)', People(c)',
         Undisturbed /\ Undisturbed' => Tidy' /\ Checked(c)',
         call'[c].answer = 500 /\ Undisturbed /\ Undisturbed' => Excused(c)',
         call'[c].answer = CutOff => cuts' > 0
  PROVE  TruthInv'
<1>1. ASSUME NEW d \in Calls, d # c
      PROVE  Logging(d)' /\ Again(d)' /\ Refusing(d)' /\ People(d)'
  <2>1. call'[d] = call[d] /\ ~(Running(d) /\ call[d].alone)
    BY <1>1 DEF Stepped, StoresInv, Apart
  <2>2. Logging(d) /\ Refusing(d) /\ People(d)
    BY DEF TruthInv, AnswersInv
  <2>3. People(d)'
    BY <1>1, <2>1, <2>2 DEF People, PeopleStay, Constrained, Stepped, Req
  <2>. QED
    BY <2>1, <2>2, <2>3 DEF Logging, Refusing, Again, Running
<1>2. Undisturbed' => Undisturbed
  BY CalmBefore DEF StoresInv, TablesTyped
<1>3. ASSUME Undisturbed', NEW d \in Calls, d # c
      PROVE  Checked(d)'
  <2>1. call'[d] = call[d] /\ ~Running(d)
    BY <1>2, <1>3 DEF Stepped, StoresInv, Apart, Undisturbed
  <2>. QED
    BY <2>1 DEF Checked, Running
<1>4. FailsOnlyInARace'
  <2>1. ASSUME Undisturbed', NEW d \in Calls, call'[d].answer = 500
        PROVE  Excused(d)'
    <3>1. CASE d = c
      BY <1>2, <2>1, <3>1
    <3>2. CASE d # c
      BY <1>2, <2>1, <3>2 DEF TruthInv, CalmInv, FailsOnlyInARace, Stepped, Excused, Req
    <3>. QED
      BY <3>1, <3>2
  <2>. QED
    BY <2>1 DEF FailsOnlyInARace, Excused
<1>5. \A d \in Calls : call'[d].answer = CutOff => cuts' > 0
  BY DEF TruthInv, CalmInv, Stepped, StoresInv, TablesTyped
<1>6. AnswersInv'
  BY <1>1 DEF AnswersInv
<1>7. CalmInv'
  BY <1>2, <1>3, <1>4, <1>5 DEF CalmInv
<1>. QED
  BY <1>6, <1>7 DEF TruthInv

LEMMA RootsStay ==
  ASSUME RootsRule, UNCHANGED <<backend, groups, users, members>>
  PROVE  RootsRule'
BY DEF RootsRule, GroupsOf, Constrained

\* In PostgreSQL the constraints keep the tables tidy.
LEMMA TidyTables ==
  ASSUME StoresInv', Constrained'
  PROVE  Tidy'
BY DEF StoresInv, TablesAgree, Tidy

LEMMA TidyStays ==
  ASSUME Tidy, UNCHANGED <<apps, bundles, entrypoints, groups, users, members>>
  PROVE  Tidy'
BY DEF Tidy, References

LEMMA NothingYet ==
  ASSUME StoresInv, NEW c \in Calls, Running(c), call[c].op # "bootstrap",
         call[c].pc \notin {"log", "link", "unlink"}, ~Second(c)
  PROVE  call[c].wrote = {}
BY DEF StoresInv, Own, Writing

\* A deploy alone looks again; other calls have nothing to look at.
LEMMA NothingAgain ==
  ASSUME StoresInv, NEW c \in Calls, Running(c), call[c].op \notin DeployOps,
         call'[c].asked = call[c].asked
  PROVE  Again(c)'
BY DEF StoresInv, Own, Asking, Again

Unchecked(op, pc) ==
  /\ op \in {"createApp", "deleteApp", "createGroup", "updateUser"} => pc # "act"
  /\ op = "createEntrypoint" => pc \notin {"auth", "check", "checkUrl", "act"}
  /\ op = "updateEntrypoint" => pc \notin {"auth", "check", "act"}
  /\ op = "updateGroup" => pc \notin {"check", "act"}
  /\ op = "deleteGroup" => pc # "act"
  /\ op = "createUser" => pc \notin {"checkGroups", "act", "link"}
  /\ op = "bootstrap" => pc \notin {"group", "act"}
  /\ op = "respond" => pc \notin {"bundle", "content", "config"}

LEMMA NothingChecked ==
  ASSUME NEW c \in Calls, Unchecked(call'[c].op, call'[c].pc)
  PROVE  Checked(c)'
BY DEF Checked, Unchecked, AppsChecked, EntrypointsChecked, GroupsChecked, UsersChecked,
   ServingChecked

-----------------------------------------------------------------------------
(* The shapes of a step. *)

LEMMA EndsTruth ==
  ASSUME StoresInv, TruthInv, NEW c \in Calls, Running(c), NEW status, Ends(c, status),
         UNCHANGED db, cuts' \in Nat, cuts <= cuts',
         \/ status \in {500, CutOff}
         \/ call[c].wrote \subseteq {"bootstrap"}
         \/ Second(c) /\ call[c].pc \notin {"log", "link", "unlink"},
         \/ status \notin {400, 403, 404, 409} \/ call[c].wrote = {} \/ Exempt(c)
         \/ ~call[c].alone,
         status = 500 /\ Undisturbed => Excused(c),
         status = CutOff => cuts' > 0
  PROVE  TruthInv'
<1>0. UNCHANGED <<backend, apps, bundles, files, entrypoints, groups, users, members, logs>>
  BY DEF db, tables
<1>1. Stepped(c) /\ call'[c].pc = "done" /\ call'[c].answer = status
  BY <1>0, Steppings DEF Ends, Became, Keeps
<1>2. RootsRule' /\ (Undisturbed => Tidy')
  BY <1>0, <1>1, RootsStay, TidyStays DEF TruthInv, AnswersInv, CalmInv
<1>3. Again(c)' /\ Checked(c)'
  BY <1>1 DEF Again, Checked, Running
<1>4. Logging(c)'
  <2>1. ASSUME NEW op \in call'[c].wrote \ {"bootstrap"}, status \notin {500, CutOff}
        PROVE  <<c, op>> \in logs'
    <3>1. call'[c].wrote = call[c].wrote /\ call[c].answer = None /\ Logging(c)
      BY DEF Ends, Keeps, StoresInv, Own, Preparing, TruthInv, AnswersInv
    <3>2. Second(c) /\ call[c].pc \notin {"log", "link", "unlink"}
      BY <2>1, <3>1
    <3>. QED
      BY <1>0, <2>1, <3>1, <3>2, StatusAssumption DEF Logging, CutOff, Statuses
  <2>. QED
    BY <1>1, <2>1 DEF Logging
<1>5. Refusing(c)'
  BY <1>1 DEF Refusing, Ends, Keeps, Became, Exempt
<1>6. call'[c].answer = 500 /\ Undisturbed => Excused(c)'
  BY <1>1 DEF Ends, Became, Excused, Req
<1>7. People(c)' /\ PeopleStay(c)
  BY <1>0, <1>1, NobodyNew DEF TruthInv, AnswersInv, People, Ends, Became, Keeps
<1>. QED
  BY <1>0, <1>1, <1>2, <1>3, <1>4, <1>5, <1>6, <1>7, TruthSteps

\* It goes on, having changed nothing.
LEMMA GoesTruth ==
  ASSUME StoresInv, TruthInv, NEW c \in Calls, Running(c), NEW pc, pc # "idle",
         Became(c, call[c].op, call[c].req, pc, call[c].rest),
         call'[c].wrote = call[c].wrote, call'[c].answer = call[c].answer,
         UNCHANGED <<backend, apps, bundles, entrypoints, groups, users, members, logs, cuts>>,
         call[c].pc \in {"log", "link", "unlink"} => pc \in {"link", "unlink"},
         Again(c)', People(c)',
         Undisturbed /\ Tidy /\ Checked(c) => Checked(c)'
  PROVE  TruthInv'
<1>1. Stepped(c) /\ call[c].answer = None /\ call'[c].pc = pc
  BY Steppings DEF StoresInv, Own, Preparing, Became, Stepped
<1>2. RootsRule' /\ (Undisturbed => Tidy' /\ Checked(c)')
  BY <1>1, RootsStay, TidyStays DEF TruthInv, AnswersInv, CalmInv
<1>3. Logging(c)'
  BY <1>1 DEF Logging, TruthInv, AnswersInv, Became, Running
<1>4. Refusing(c)' /\ call'[c].answer \notin {500, CutOff}
  BY <1>1, StatusAssumption DEF Refusing, Statuses, CutOff
<1>5. cuts' \in Nat /\ cuts <= cuts'
  BY DEF StoresInv, TablesTyped
<1>. QED
  BY <1>1, <1>2, <1>3, <1>4, <1>5, NobodyNew, TruthSteps

LEMMA WritesTruth ==
  ASSUME StoresInv, TruthInv, NEW c \in Calls, Running(c), NEW pc, pc # "idle", Writes(c, pc),
         UNCHANGED <<backend, logs, cuts>>,
         call[c].op = "bootstrap" \/ pc \in {"log", "link", "unlink"},
         RootsRule', Again(c)', People(c)', PeopleStay(c),
         Undisturbed /\ Tidy /\ Checked(c) => Tidy' /\ Checked(c)'
  PROVE  TruthInv'
<1>1. Stepped(c) /\ call[c].answer = None /\ call'[c].pc = pc /\ call'[c].answer = None
  BY Steppings DEF StoresInv, Own, Preparing, Writes, Became, Keeps, Stepped
<1>2. Undisturbed => Tidy' /\ Checked(c)'
  BY DEF TruthInv, CalmInv
<1>3. Logging(c)'
  <2>1. Logging(c) /\ call'[c].wrote = call[c].wrote \cup {call[c].op} /\ call'[c].op = call[c].op
    BY DEF TruthInv, AnswersInv, Writes, Keeps, Became
  <2>. QED
    BY <1>1, <2>1, StatusAssumption DEF Logging, Running, Statuses, CutOff
<1>4. Refusing(c)' /\ call'[c].answer \notin {500, CutOff}
  BY <1>1, StatusAssumption DEF Refusing, Statuses, CutOff
<1>5. cuts' \in Nat /\ cuts <= cuts'
  BY DEF StoresInv, TablesTyped
<1>. QED
  BY <1>1, <1>2, <1>3, <1>4, <1>5, TruthSteps

LEMMA OrdinaryPeople ==
  ASSUME NEW c \in Calls, call'[c].op \notin {"createUser", "updateUser", "bootstrap"},
         call'[c].pc \notin {"idle", "link", "unlink"}
  PROVE  People(c)'
BY DEF People

\* Refused: nothing has been changed yet.
LEMMA RefuseTruth ==
  ASSUME StoresInv, TruthInv, NEW c \in Calls, Running(c), NEW status \in {400, 403, 404, 409},
         Answer(c, status), UNCHANGED <<db, cuts>>,
         call[c].op # "bootstrap", call[c].pc \notin {"log", "link", "unlink"},
         Second(c) /\ call[c].alone => Exempt(c)
  PROVE  TruthInv'
<1>1. Ends(c, status) /\ cuts' \in Nat /\ cuts <= cuts' /\ CutOff = 0
  BY AnswerEnds DEF StoresInv, TablesTyped, CutOff
<1>2. ~Second(c) => call[c].wrote = {}
  BY NothingYet
<1>. QED
  BY <1>1, <1>2, EndsTruth

\* Failed: it was disturbed.
LEMMA FailTruth ==
  ASSUME StoresInv, TruthInv, NEW c \in Calls, Running(c), Answer(c, 500),
         UNCHANGED <<backend, tables, logs, cuts>>, Undisturbed => Excused(c)
  PROVE  TruthInv'
<1>1. Ends(c, 500) /\ cuts' \in Nat /\ cuts <= cuts' /\ CutOff = 0 /\ UNCHANGED db
  BY AnswerEnds DEF StoresInv, TablesTyped, CutOff, db
<1>. QED
  BY <1>1, EndsTruth

\* A use case that no deploy runs goes on.
LEMMA ProceedTruth ==
  ASSUME StoresInv, TruthInv, NEW c \in Calls, Running(c), NEW pc, pc # "idle",
         Became(c, call[c].op, call[c].req, pc, call[c].rest),
         call'[c].wrote = call[c].wrote, call'[c].answer = call[c].answer,
         UNCHANGED <<backend, apps, bundles, entrypoints, groups, users, members, logs, cuts>>,
         call[c].op \notin DeployOps, call[c].pc \notin {"log", "link", "unlink"},
         \/ People(c)'
         \/ /\ call[c].op \notin {"createUser", "updateUser", "bootstrap"}
            /\ pc \notin {"link", "unlink"},
         Undisturbed /\ Tidy /\ Checked(c) => Checked(c)'
  PROVE  TruthInv'
<1>1. Again(c)'
  BY NothingAgain DEF Became
<1>2. People(c)'
  BY OrdinaryPeople DEF Became
<1>. QED
  BY <1>1, <1>2, GoesTruth

\* It writes, and has only the log to write.
LEMMA LogsTruth ==
  ASSUME StoresInv, TruthInv, NEW c \in Calls, Running(c), Writes(c, "log"),
         UNCHANGED <<backend, logs, cuts>>,
         call[c].op \notin DeployOps, call[c].op # "bootstrap",
         RootsRule', PeopleStay(c),
         Undisturbed /\ Tidy /\ Checked(c) => Tidy'
  PROVE  TruthInv'
<1>1. Became(c, call[c].op, call[c].req, "log", call[c].rest)
  BY DEF Writes
<1>2. Again(c)'
  BY <1>1, NothingAgain DEF Became
<1>3. People(c)'
  BY <1>1 DEF People, Became
<1>4. Checked(c)'
  BY <1>1, NothingChecked DEF Became, Unchecked
<1>. QED
  BY <1>2, <1>3, <1>4, WritesTruth

-----------------------------------------------------------------------------

LEMMA RulesStay ==
  ASSUME NEW c \in Calls, RulesAgain(c), call'[c].by = call[c].by,
         UNCHANGED <<backend, groups, users, members>>
  PROVE  RulesAgain(c)'
BY DEF RulesAgain, UserWith, RolesReadable, RolesOf, GroupsOf, Constrained

LEMMA RestStays ==
  ASSUME TruthInv, NEW c \in Calls, Running(c), call[c].op = "createApp",
         call[c].pc \in {"check", "act"}, NEW pc,
         Became(c, call[c].op, call[c].req, pc, call[c].rest),
         UNCHANGED <<backend, bundles, entrypoints, groups, users, members>>,
         pc = "log" => c \in DOMAIN apps'
  PROVE  Again(c)'
<1>1. Again(c) /\ Constrained' = Constrained
  BY DEF TruthInv, AnswersInv, Constrained
<1>2. ASSUME Running(c)', call'[c].alone, call'[c].asked.op = "deploy", call'[c].rest # None
      PROVE  /\ call'[c].rest.bundle \in DOMAIN bundles'
             /\ EntrypointAt(call[c].rest.url)' = {}
             /\ RulesAgain(c)'
  <2>1. /\ call[c].rest.bundle \in DOMAIN bundles /\ EntrypointAt(call[c].rest.url) = {}
        /\ RulesAgain(c)
    BY <1>1, <1>2 DEF Again, Became
  <2>2. RulesAgain(c)'
    BY <2>1, RulesStay DEF Became
  <2>. QED
    BY <2>1, <2>2 DEF Became, EntrypointAt
<1>. QED
  BY <1>2 DEF Again, Became, Second

LEMMA CreateAppTruth ==
  ASSUME StoresInv, TruthInv, NEW c \in Calls, CreateApp(c)
  PROVE  TruthInv'
<1>1. /\ CallsShaped /\ call[c].op = "createApp" /\ call[c].pc \in {"check", "act"}
      /\ Running(c) /\ ~Second(c)
  BY DEF StoresInv, CreateApp, At, Running, Second
<1>2. CASE At(c, "createApp", "check") /\ Ensure(c, AppNamed(Req(c).name) = {}, "act", 409)
  <2>0. UNCHANGED <<db, cuts>>
    BY <1>2 DEF Ensure
  <2>1. CASE AppNamed(Req(c).name) = {}
    <3>1. Moves(c, "act")
      BY <1>1, <1>2, <2>1, GotoMoves DEF Ensure
    <3>2. Again(c)'
      BY <1>1, <2>0, <3>1, RestStays DEF Moves, db, tables
    <3>3. Checked(c)'
      BY <1>1, <2>0, <2>1, <3>1
         DEF Checked, AppsChecked, EntrypointsChecked, GroupsChecked, UsersChecked,
             ServingChecked, Moves, Became, db, tables, AppNamed, Req
    <3>4. People(c)'
      BY <1>1, <3>1, OrdinaryPeople DEF Moves, Became
    <3>. QED
      BY <1>1, <2>0, <3>1, <3>2, <3>3, <3>4, GoesTruth DEF Moves, Keeps, db, tables
  <2>2. CASE AppNamed(Req(c).name) # {}
    BY <1>1, <1>2, <2>0, <2>2, RefuseTruth DEF Ensure
  <2>. QED
    BY <2>1, <2>2
<1>3. CASE At(c, "createApp", "act") /\ Attempt(c, AppsCreatable(Req(c).name), "log",
            AppsCreateOne(c, Req(c).name), <<bundles, files, entrypoints, groups, users,
            members>>)
  <2>1. CASE AppsCreatable(Req(c).name)
    <3>1. /\ AppsCreateOne(c, Req(c).name) /\ Writes(c, "log")
          /\ UNCHANGED <<backend, bundles, entrypoints, groups, users, members, logs, cuts>>
      BY <1>1, <1>3, <2>1, WriteWrites DEF At, Attempt
    <3>2. DOMAIN apps \cup {c} = DOMAIN apps'
      BY <3>1 DEF AppsCreateOne, With
    <3>3. RootsRule' /\ PeopleStay(c)
      BY <3>1, RootsStay, NobodyNew DEF TruthInv, AnswersInv
    <3>4. Tidy => Tidy'
      BY <3>1, <3>2 DEF Tidy, References
    <3>5. Again(c)'
      BY <1>1, <3>1, <3>2, RestStays DEF Writes
    <3>6. Checked(c)' /\ People(c)'
      BY <1>1, <3>1, NothingChecked, OrdinaryPeople DEF Unchecked, Writes, Became
    <3>. QED
      BY <1>1, <3>1, <3>3, <3>4, <3>5, <3>6, WritesTruth
  <2>2. CASE ~AppsCreatable(Req(c).name)
    <3>1. ~Undisturbed
      BY <1>1, <1>3, <2>2 DEF TruthInv, CalmInv, Checked, AppsChecked, AppsCreatable, At
    <3>. QED
      BY <1>1, <1>3, <2>2, <3>1, FailTruth DEF Attempt
  <2>. QED
    BY <2>1, <2>2
<1>. QED
  BY <1>2, <1>3 DEF CreateApp

\* Finding an application, by its id.
LEMMA FindAppTruth ==
  ASSUME StoresInv, TruthInv, NEW c \in Calls, Running(c), call[c].op \in {"updateApp", "deleteApp"},
         call[c].pc = "find", FindApp(c, Req(c).id)
  PROVE  TruthInv'
<1>0. CallsShaped /\ UNCHANGED <<db, cuts>> /\ ~Second(c)
  BY DEF StoresInv, FindApp, Second
<1>1. CASE Req(c).id \in DOMAIN apps
  <2>1. Sees(c, "auth", apps[Req(c).id].name)
    BY <1>0, <1>1, SeeSees DEF FindApp
  <2>2. Checked(c)'
    BY <2>1, NothingChecked DEF Sees, Became, Unchecked
  <2>. QED
    BY <1>0, <2>1, <2>2, ProceedTruth DEF Sees, Keeps, db, tables, DeployOps
<1>2. CASE Req(c).id \notin DOMAIN apps
  BY <1>0, <1>2, RefuseTruth DEF FindApp
<1>. QED
  BY <1>1, <1>2

LEMMA UpdateAppTruth ==
  ASSUME StoresInv, TruthInv, NEW c \in Calls, UpdateApp(c)
  PROVE  TruthInv'
<1>1. /\ CallsShaped /\ call[c].op = "updateApp" /\ call[c].pc \in {"find", "act"}
      /\ Running(c)
  BY DEF StoresInv, UpdateApp, At, Running
<1>2. CASE At(c, "updateApp", "find") /\ FindApp(c, Req(c).id)
  BY <1>1, <1>2, FindAppTruth DEF At
<1>3. CASE At(c, "updateApp", "act") /\ Attempt(c, TRUE, "log", AppsUpdateOne(Req(c).id, c),
            <<bundles, files, entrypoints, groups, users, members>>)
  <2>1. /\ AppsUpdateOne(Req(c).id, c) /\ Writes(c, "log")
        /\ UNCHANGED <<backend, bundles, entrypoints, groups, users, members, logs, cuts>>
    BY <1>1, <1>3, WriteWrites DEF At, Attempt
  <2>2. DOMAIN apps \subseteq DOMAIN apps'
    BY <2>1 DEF AppsUpdateOne, AppsUpdateInMemory, With
  <2>3. RootsRule' /\ PeopleStay(c)
    BY <2>1, RootsStay, NobodyNew DEF TruthInv, AnswersInv
  <2>4. Tidy => Tidy'
    BY <2>1, <2>2 DEF Tidy, References
  <2>. QED
    BY <1>1, <2>1, <2>3, <2>4, LogsTruth DEF DeployOps
<1>. QED
  BY <1>2, <1>3 DEF UpdateApp

LEMMA DeleteAppTruth ==
  ASSUME StoresInv, TruthInv, NEW c \in Calls, DeleteApp(c)
  PROVE  TruthInv'
<1>1. /\ CallsShaped /\ call[c].op = "deleteApp" /\ call[c].pc \in {"find", "check", "act"}
      /\ Running(c) /\ ~Second(c)
  BY DEF StoresInv, DeleteApp, At, Running, Second
<1>2. CASE At(c, "deleteApp", "find") /\ FindApp(c, Req(c).id)
  BY <1>1, <1>2, FindAppTruth DEF At
<1>3. CASE At(c, "deleteApp", "check") /\ Ensure(c, \A e \in DOMAIN entrypoints :
            entrypoints[e].app # Req(c).id, "act", 409)
  <2>0. UNCHANGED <<db, cuts>>
    BY <1>3 DEF Ensure
  <2>1. CASE \A e \in DOMAIN entrypoints : entrypoints[e].app # Req(c).id
    <3>1. Moves(c, "act")
      BY <1>1, <1>3, <2>1, GotoMoves DEF Ensure
    <3>2. Checked(c)'
      BY <1>1, <2>0, <2>1, <3>1
         DEF Checked, AppsChecked, EntrypointsChecked, GroupsChecked, UsersChecked,
             ServingChecked, Moves, Became, db, tables, Req
    <3>3. UNCHANGED <<backend, apps, bundles, entrypoints, groups, users, members, logs, cuts>>
      BY <2>0 DEF db, tables
    <3>4. /\ Became(c, call[c].op, call[c].req, "act", call[c].rest)
          /\ call'[c].wrote = call[c].wrote /\ call'[c].answer = call[c].answer
      BY <3>1 DEF Moves, Keeps
    <3>5. People(c)' /\ Again(c)'
      BY <1>1, <3>4, OrdinaryPeople, NothingAgain DEF Became, DeployOps
    <3>. QED
      BY <1>1, <3>2, <3>3, <3>4, <3>5, GoesTruth
  <2>2. CASE ~(\A e \in DOMAIN entrypoints : entrypoints[e].app # Req(c).id)
    BY <1>1, <1>3, <2>0, <2>2, RefuseTruth DEF Ensure
  <2>. QED
    BY <2>1, <2>2
<1>4. CASE At(c, "deleteApp", "act") /\ Attempt(c, AppsDeletable(Req(c).id), "log",
            AppsDeleteOne(Req(c).id), <<bundles, files, entrypoints, groups, users,
            members>>)
  <2>0. Checked(c) => \A e \in DOMAIN entrypoints : entrypoints[e].app # Req(c).id
    BY <1>1, <1>4 DEF Checked, AppsChecked, At
  <2>1. CASE AppsDeletable(Req(c).id)
    <3>1. /\ AppsDeleteOne(Req(c).id) /\ Writes(c, "log")
          /\ UNCHANGED <<backend, bundles, entrypoints, groups, users, members, logs, cuts>>
      BY <1>1, <1>4, <2>1, WriteWrites DEF At, Attempt
    <3>2. DOMAIN apps' = DOMAIN apps \ {Req(c).id}
      BY <3>1 DEF AppsDeleteOne, Without
    <3>3. RootsRule' /\ PeopleStay(c)
      BY <3>1, RootsStay, NobodyNew DEF TruthInv, AnswersInv
    <3>4. Tidy /\ Checked(c) => Tidy'
      BY <2>0, <3>1, <3>2 DEF Tidy, References
    <3>. QED
      BY <1>1, <3>1, <3>3, <3>4, LogsTruth DEF DeployOps
  <2>2. CASE ~AppsDeletable(Req(c).id)
    <3>1. ~Undisturbed
      BY <2>0, <2>2 DEF TruthInv, CalmInv, AppsDeletable
    <3>. QED
      BY <1>1, <1>4, <2>2, <3>1, FailTruth DEF Attempt
  <2>. QED
    BY <2>1, <2>2
<1>. QED
  BY <1>2, <1>3, <1>4 DEF DeleteApp

-----------------------------------------------------------------------------

\* The objects are nothing that an answer is about.
LEMMA ObjectsTruth ==
  ASSUME TruthInv, UNCHANGED <<backend, apps, bundles, entrypoints, groups, users, members, logs,
                               call, cuts>>
  PROVE  TruthInv'
<1>1. /\ Undisturbed' = Undisturbed /\ \A c \in Calls : Req(c)' = Req(c) /\ Seen(c)' = Seen(c)
      /\ Constrained' = Constrained
  BY DEF Undisturbed, Req, Seen, Constrained
<1>2. RootsRule'
  BY RootsStay DEF TruthInv, AnswersInv
<1>3. ASSUME NEW c \in Calls
      PROVE  Logging(c)' /\ Again(c)' /\ Refusing(c)' /\ People(c)'
  <2>1. Logging(c)' /\ Refusing(c)' /\ People(c)'
    BY <1>1 DEF TruthInv, AnswersInv, Logging, Refusing, People, Running, GroupsOf
  <2>2. RulesAgain(c)' = RulesAgain(c)
    BY <1>1 DEF RulesAgain, UserWith, RolesReadable, RolesOf, GroupsOf
  <2>3. Again(c)' = Again(c)
    BY <1>1, <2>2 DEF Again, Running, EntrypointAt, Second
  <2>. QED
    BY <2>1, <2>3 DEF TruthInv, AnswersInv
<1>4. ASSUME NEW c \in Calls
      PROVE  Checked(c)' = Checked(c)
  <2>1. AppsChecked(c)' = AppsChecked(c) /\ EntrypointsChecked(c)' = EntrypointsChecked(c)
    BY <1>1 DEF AppsChecked, EntrypointsChecked, AppNamed, BundleFound, EntrypointAt
  <2>2. GroupsChecked(c)' = GroupsChecked(c)
    BY <1>1 DEF GroupsChecked, GroupNamed, GroupsUpdatable
  <2>3. UsersChecked(c)' = UsersChecked(c) /\ ServingChecked(c)' = ServingChecked(c)
    BY <1>1 DEF UsersChecked, ServingChecked, GroupNamed, UserWith, GroupsFound
  <2>. QED
    BY <2>1, <2>2, <2>3 DEF Checked, Running
<1>5. FailsOnlyInARace'
  BY <1>1 DEF TruthInv, CalmInv, FailsOnlyInARace
<1>6. Undisturbed' => Tidy'
  BY <1>1, TidyStays DEF TruthInv, CalmInv
<1>7. AnswersInv'
  BY <1>2, <1>3 DEF AnswersInv
<1>8. CalmInv'
  BY <1>1, <1>4, <1>5, <1>6 DEF TruthInv, CalmInv
<1>. QED
  BY <1>7, <1>8 DEF TruthInv

LEMMA CreateBundleTruth ==
  ASSUME StoresInv, TruthInv, NEW c \in Calls, CreateBundle(c)
  PROVE  TruthInv'
<1>1. /\ CallsShaped /\ call[c].op = "createBundle" /\ call[c].pc \in {"upload", "act"}
      /\ Running(c)
  BY DEF StoresInv, CreateBundle, Upload, At, Running
<1>2. CASE Upload(c)
  <2>1. PICK pc \in {"upload", "act"} : Goto(c, pc)
    BY <1>2 DEF Upload
  <2>2. /\ Moves(c, pc)
        /\ UNCHANGED <<backend, apps, bundles, entrypoints, groups, users, members, logs, cuts>>
    BY <1>1, <1>2, <2>1, GotoMoves DEF Upload
  <2>3. Checked(c)'
    BY <1>1, <2>2, NothingChecked DEF Moves, Became, Unchecked
  <2>. QED
    BY <1>1, <2>2, <2>3, ProceedTruth DEF Moves, Keeps, DeployOps
<1>3. CASE At(c, "createBundle", "act") /\ ~Upload(c)
  <2>1. /\ UNCHANGED <<backend, apps, entrypoints, groups, users, members, logs, cuts>>
        /\ Writes(c, "log") /\ BundlesCreateRow(c, Req(c).tag)
    <3>1. CASE Constrained
      BY <1>1, <1>3, <3>1, WriteWrites DEF CreateBundle, Attempt
    <3>2. CASE ~Constrained
      BY <1>1, <1>3, <3>2, WriteWrites DEF CreateBundle, Attempt, BundlesCreateInMemory
    <3>. QED
      BY <3>1, <3>2
  <2>2. DOMAIN bundles \subseteq DOMAIN bundles'
    BY <2>1 DEF BundlesCreateRow, With
  <2>3. RootsRule' /\ PeopleStay(c)
    BY <2>1, RootsStay, NobodyNew DEF TruthInv, AnswersInv
  <2>4. Tidy => Tidy'
    BY <2>1, <2>2 DEF Tidy, References
  <2>. QED
    BY <1>1, <2>1, <2>3, <2>4, LogsTruth DEF DeployOps
<1>. QED
  BY <1>2, <1>3 DEF CreateBundle

LEMMA DeleteBundlesTruth ==
  ASSUME StoresInv, TruthInv, NEW c \in Calls, DeleteBundles(c)
  PROVE  TruthInv'
<1>1. call[c].op = "deleteBundles" /\ call[c].pc \in {"find", "check", "unlink", "act"}
  BY Zenon DEF DeleteBundles, Unlink, At
<1>2. CallsShaped /\ Running(c) /\ ~Second(c) /\ Own(c)
  BY <1>1 DEF StoresInv, Running, Second
<1>3. CASE At(c, "deleteBundles", "find") /\ UNCHANGED <<db, cuts>> /\ See(c, "check", Tagged(Req(c).tag))
  <2>1. Sees(c, "check", Tagged(Req(c).tag))
    BY <1>2, <1>3, SeeSees
  <2>2. Checked(c)'
    BY <1>1, <2>1, NothingChecked DEF Sees, Became, Unchecked
  <2>. QED
    BY <1>1, <1>2, <1>3, <2>1, <2>2, ProceedTruth DEF Sees, Keeps, db, tables, DeployOps, At
<1>4. CASE /\ At(c, "deleteBundles", "check")
           /\ Ensure(c, ~InUse(call[c].saw), IF Constrained THEN "unlink" ELSE "act", 409)
  <2>0. UNCHANGED <<db, cuts>>
    BY <1>4 DEF Ensure
  <2>1. CASE ~InUse(call[c].saw)
    <3>1. PICK pc \in {"unlink", "act"} : Goto(c, pc) /\ (pc = "unlink" => Constrained)
      BY <1>4, <2>1 DEF Ensure
    <3>2. Moves(c, pc)
      BY <1>2, <3>1, GotoMoves
    <3>3. Again(c)'
      BY <1>1, <1>2, <3>2, NothingAgain DEF Moves, Became, DeployOps
    <3>4. Checked(c)'
      BY <1>1, <3>2, NothingChecked DEF Moves, Became, Unchecked
    <3>5. People(c)'
      BY <1>1, <2>0, <3>1, <3>2 DEF Moves, Became, People, Constrained, db
    <3>. QED
      BY <1>1, <1>2, <1>4, <2>0, <3>2, <3>3, <3>4, <3>5, GoesTruth DEF Moves, Keeps, db, tables, At
  <2>2. CASE InUse(call[c].saw)
    BY <1>1, <1>2, <1>4, <2>0, <2>2, RefuseTruth DEF Ensure, At
  <2>. QED
    BY <2>1, <2>2
<1>5. CASE Unlink(c)
  <2>0. /\ UNCHANGED <<backend, apps, bundles, entrypoints, groups, users, members, logs, cuts>>
        /\ call[c].pc = "unlink"
    BY <1>5 DEF Unlink, At
  <2>1. CASE Goto(c, "act")
    <3>1. Moves(c, "act")
      BY <1>2, <2>1, GotoMoves
    <3>2. Stepped(c)
      BY <1>2, <2>0, <3>1, Steppings
    <3>3. Again(c)'
      BY <1>1, <1>2, <3>1, NothingAgain DEF Moves, Became, DeployOps
    <3>4. Checked(c)' /\ People(c)'
      BY <1>1, <3>1, NothingChecked, OrdinaryPeople DEF Moves, Became, Unchecked
    <3>5. Logging(c)' /\ Refusing(c)'
      <4>1. call[c].wrote = {}
        BY <1>1, <1>2, <2>0 DEF Own, Writing, Second
      <4>2. call[c].answer = None
        BY <1>2 DEF Own, Preparing
      <4>. QED
        BY <3>1, <4>1, <4>2, StatusAssumption DEF Moves, Keeps, Logging, Refusing, Statuses
    <3>6. RootsRule' /\ PeopleStay(c) /\ (Tidy => Tidy')
      BY <2>0, RootsStay, NobodyNew, TidyStays DEF TruthInv, AnswersInv
    <3>7. call'[c].answer \notin {500, CutOff}
      BY <1>2, <3>1, StatusAssumption DEF Own, Preparing, Moves, Keeps, Statuses, CutOff
    <3>8. cuts' \in Nat /\ cuts <= cuts' /\ logs \subseteq logs'
      BY <2>0 DEF StoresInv, TablesTyped
    <3>. QED
      BY <3>2, <3>3, <3>4, <3>5, <3>6, <3>7, <3>8, TruthSteps DEF TruthInv, CalmInv
  <2>2. CASE UNCHANGED call
    BY <2>0, <2>2, ObjectsTruth
  <2>. QED
    BY <1>5, <2>1, <2>2 DEF Unlink
<1>6. CASE /\ At(c, "deleteBundles", "act") /\ Writes(c, "log") /\ BundlesDeleteRows(call[c].saw)
           /\ UNCHANGED <<backend, apps, entrypoints, groups, users, members, logs, cuts>>
  <2>1. DOMAIN bundles' = DOMAIN bundles \ call[c].saw
    BY <1>6 DEF BundlesDeleteRows, Without
  <2>2. RootsRule' /\ PeopleStay(c)
    BY <1>6, RootsStay, NobodyNew DEF TruthInv, AnswersInv
  <2>3. Undisturbed => ~InUse(call[c].saw)
    BY <1>1, <1>2, <1>6 DEF Own, Unused, Undisturbed, At
  <2>4. None \notin call[c].saw
    BY <1>1, <1>2, <1>6, IdsAssumption DEF Own, Bundling, At
  <2>5. Undisturbed /\ Tidy => Tidy'
    BY <1>6, <2>1, <2>3, <2>4 DEF Tidy, References, InUse
  <2>. QED
    BY <1>1, <1>2, <1>6, <2>2, <2>5, LogsTruth DEF DeployOps
<1>7. CASE At(c, "deleteBundles", "act") /\ ~Unlink(c)
  <2>1. CASE Constrained
    <3>1. Attempt(c, BundlesDeletable(call[c].saw), "log", BundlesDeleteRows(call[c].saw),
                  <<apps, files, entrypoints, groups, users, members>>)
      BY <1>7, <2>1 DEF DeleteBundles, At
    <3>2. CASE BundlesDeletable(call[c].saw)
      BY <1>2, <1>6, <1>7, <3>1, <3>2, WriteWrites DEF Attempt
    <3>3. CASE ~BundlesDeletable(call[c].saw)
      <4>1. ~Undisturbed
        BY <1>1, <1>2, <1>7, <3>3 DEF Own, Unused, Undisturbed, At, InUse, BundlesDeletable
      <4>. QED
        BY <1>2, <3>1, <3>3, <4>1, FailTruth DEF Attempt
    <3>. QED
      BY <3>2, <3>3
  <2>2. CASE ~Constrained
    <3>1. Attempt(c, TRUE, "log", BundlesDeleteInMemory(call[c].saw),
                  <<apps, entrypoints, groups, users, members>>)
      BY <1>7, <2>2 DEF DeleteBundles, At
    <3>. QED
      BY <1>2, <1>6, <1>7, <3>1, WriteWrites DEF Attempt, BundlesDeleteInMemory
  <2>. QED
    BY <2>1, <2>2
<1>. QED
  BY <1>3, <1>4, <1>5, <1>7 DEF DeleteBundles

-----------------------------------------------------------------------------
(* Groups and users *)

\* A group that a call makes is one of root's.
LEMMA GroupMade ==
  ASSUME StoresInv, TruthInv, NEW c \in Calls, NEW name, GroupsCreateOne(c, name, RootRoles),
         UNCHANGED <<backend, apps, bundles, entrypoints, users, members>>
  PROVE  RootsRule' /\ PeopleStay(c) /\ (Tidy => Tidy')
<1>1. /\ DOMAIN groups' = DOMAIN groups \cup {c} /\ groups'[c].roles = RootRoles
      /\ \A g \in DOMAIN groups : g # c => groups'[g] = groups[g]
      /\ c # "dev"
  BY IdsAssumption DEF GroupsCreateOne, With
<1>2. RootsRule /\ Constrained' = Constrained
  BY DEF TruthInv, AnswersInv, Constrained
<1>3. RootsRule'
  BY <1>1, <1>2 DEF RootsRule, GroupsOf
<1>4. PeopleStay(c)
  BY <1>1 DEF PeopleStay, GroupsOf
<1>5. Tidy => Tidy'
  BY <1>1 DEF Tidy, References
<1>. QED
  BY <1>3, <1>4, <1>5

LEMMA CreateGroupTruth ==
  ASSUME StoresInv, TruthInv, NEW c \in Calls, CreateGroup(c)
  PROVE  TruthInv'
<1>1. /\ CallsShaped /\ call[c].op = "createGroup" /\ call[c].pc \in {"check", "act"}
      /\ Running(c) /\ ~Second(c)
  BY DEF StoresInv, CreateGroup, At, Running, Second
<1>2. CASE /\ At(c, "createGroup", "check")
           /\ Ensure(c, GroupNamed(Req(c).name) = {}, "act", 409)
  <2>0. UNCHANGED <<db, cuts>>
    BY <1>2 DEF Ensure
  <2>1. CASE GroupNamed(Req(c).name) = {}
    <3>1. Moves(c, "act")
      BY <1>1, <1>2, <2>1, GotoMoves DEF Ensure
    <3>2. Checked(c)'
      BY <1>1, <2>0, <2>1, <3>1
         DEF Checked, AppsChecked, EntrypointsChecked, GroupsChecked, UsersChecked,
             ServingChecked, Moves, Became, db, tables, Req, GroupNamed
    <3>3. UNCHANGED <<backend, apps, bundles, entrypoints, groups, users, members, logs, cuts>>
      BY <2>0 DEF db, tables
    <3>4. /\ Became(c, call[c].op, call[c].req, "act", call[c].rest)
          /\ call'[c].wrote = call[c].wrote /\ call'[c].answer = call[c].answer
      BY <3>1 DEF Moves, Keeps
    <3>5. People(c)' /\ Again(c)'
      BY <1>1, <3>4, OrdinaryPeople, NothingAgain DEF Became, DeployOps
    <3>. QED
      BY <1>1, <3>2, <3>3, <3>4, <3>5, GoesTruth
  <2>2. CASE GroupNamed(Req(c).name) # {}
    BY <1>1, <1>2, <2>0, <2>2, RefuseTruth DEF Ensure
  <2>. QED
    BY <2>1, <2>2
<1>3. CASE At(c, "createGroup", "act") /\ Attempt(c, GroupsCreatable(Req(c).name), "log",
            GroupsCreateOne(c, Req(c).name, Req(c).roles),
            <<apps, bundles, files, entrypoints, users, members>>)
  <2>1. CASE GroupsCreatable(Req(c).name)
    <3>1. /\ GroupsCreateOne(c, Req(c).name, Req(c).roles) /\ Writes(c, "log")
          /\ UNCHANGED <<backend, apps, bundles, entrypoints, users, members, logs, cuts>>
      BY <1>1, <1>3, <2>1, WriteWrites DEF At, Attempt
    <3>2. Req(c).roles = RootRoles
      BY <1>1 DEF StoresInv, Own, Asking, RequestTyped
    <3>3. RootsRule' /\ PeopleStay(c) /\ (Tidy => Tidy')
      BY <3>1, <3>2, GroupMade
    <3>. QED
      BY <1>1, <3>1, <3>3, LogsTruth DEF DeployOps
  <2>2. CASE ~GroupsCreatable(Req(c).name)
    <3>1. ~Undisturbed
      BY <1>1, <1>3, <2>2 DEF TruthInv, CalmInv, Checked, GroupsChecked, GroupsCreatable, At
    <3>. QED
      BY <1>1, <1>3, <2>2, <3>1, FailTruth DEF Attempt
  <2>. QED
    BY <2>1, <2>2
<1>. QED
  BY <1>2, <1>3 DEF CreateGroup

\* The group that updateGroup and deleteGroup are about is not one that a server made.
LEMMA UpdateGroupTruth ==
  ASSUME StoresInv, TruthInv, NEW c \in Calls, UpdateGroup(c)
  PROVE  TruthInv'
<1>1. /\ CallsShaped /\ call[c].op = "updateGroup" /\ call[c].pc \in {"find", "check", "act"}
      /\ Running(c) /\ ~Second(c) /\ TablesAgree
      /\ call[c].op \notin DeployOps /\ call[c].pc \notin {"log", "link", "unlink"}
  BY DEF StoresInv, UpdateGroup, At, Running, Second, DeployOps
<1>2. Req(c).id = "dev" /\ Req(c).name \in {"devs", "new"}
  BY <1>1 DEF StoresInv, Own, Asking, RequestTyped
<1>3. CASE At(c, "updateGroup", "find") /\ FindGroup(c, "check")
  <2>0. UNCHANGED <<db, cuts>>
    BY <1>3 DEF FindGroup
  <2>1. CASE Req(c).id \in DOMAIN groups
    <3>1. Sees(c, "check", groups[Req(c).id].name)
      BY <1>1, <1>3, <2>1, SeeSees DEF FindGroup
    <3>2. Checked(c)'
      BY <1>1, <2>0, <2>1, <3>1
         DEF Checked, AppsChecked, EntrypointsChecked, GroupsChecked, UsersChecked,
             ServingChecked, Sees, Keeps, Became, db, tables, Req
    <3>3. UNCHANGED <<backend, apps, bundles, entrypoints, groups, users, members, logs, cuts>>
      BY <2>0 DEF db, tables
    <3>4. /\ Became(c, call[c].op, call[c].req, "check", call[c].rest)
          /\ call'[c].wrote = call[c].wrote /\ call'[c].answer = call[c].answer
      BY <3>1 DEF Sees, Keeps
    <3>5. People(c)' /\ Again(c)'
      BY <1>1, <3>4, OrdinaryPeople, NothingAgain DEF Became, DeployOps
    <3>. QED
      BY <1>1, <3>2, <3>3, <3>4, <3>5, GoesTruth
  <2>2. CASE Req(c).id \notin DOMAIN groups
    BY <1>1, <1>3, <2>0, <2>2, RefuseTruth DEF FindGroup
  <2>. QED
    BY <2>1, <2>2
<1>4. CASE /\ At(c, "updateGroup", "check")
           /\ Ensure(c, Req(c).name = call[c].saw \/ GroupNamed(Req(c).name) = {}, "act", 409)
  <2>0. UNCHANGED <<db, cuts>>
    BY <1>4 DEF Ensure
  <2>1. CASE Req(c).name = call[c].saw \/ GroupNamed(Req(c).name) = {}
    <3>1. Moves(c, "act")
      BY <1>1, <1>4, <2>1, GotoMoves DEF Ensure
    <3>2. Checked(c) => GroupsUpdatable(Req(c).id, Req(c).name)
      BY <1>1, <1>4, <2>1 DEF Checked, GroupsChecked, GroupsUpdatable, GroupNamed, TablesAgree, At
    <3>3. Checked(c) => Checked(c)'
      BY <1>1, <2>0, <3>1, <3>2
         DEF Checked, AppsChecked, EntrypointsChecked, GroupsChecked, UsersChecked,
             ServingChecked, Moves, Became, db, tables, Req, GroupsUpdatable, GroupNamed, Constrained
    <3>4. UNCHANGED <<backend, apps, bundles, entrypoints, groups, users, members, logs, cuts>>
      BY <2>0 DEF db, tables
    <3>5. /\ Became(c, call[c].op, call[c].req, "act", call[c].rest)
          /\ call'[c].wrote = call[c].wrote /\ call'[c].answer = call[c].answer
      BY <3>1 DEF Moves, Keeps
    <3>6. People(c)' /\ Again(c)'
      BY <1>1, <3>5, OrdinaryPeople, NothingAgain DEF Became, DeployOps
    <3>. QED
      BY <1>1, <3>3, <3>4, <3>5, <3>6, GoesTruth
  <2>2. CASE ~(Req(c).name = call[c].saw \/ GroupNamed(Req(c).name) = {})
    BY <1>1, <1>4, <2>0, <2>2, RefuseTruth DEF Ensure
  <2>. QED
    BY <2>1, <2>2
<1>5. CASE At(c, "updateGroup", "act") /\ Attempt(c, GroupsUpdatable(Req(c).id, Req(c).name),
            "log", GroupsUpdateOne(Req(c).id, Req(c).name, Req(c).roles),
            <<apps, bundles, files, entrypoints, users, members>>)
  <2>1. CASE GroupsUpdatable(Req(c).id, Req(c).name)
    <3>1. /\ GroupsUpdateOne(Req(c).id, Req(c).name, Req(c).roles) /\ Writes(c, "log")
          /\ UNCHANGED <<backend, apps, bundles, entrypoints, users, members, logs, cuts>>
      BY <1>1, <1>5, <2>1, WriteWrites DEF At, Attempt
    <3>2. /\ DOMAIN groups \subseteq DOMAIN groups' /\ DOMAIN groups' \subseteq DOMAIN groups \cup {"dev"}
          /\ \A g \in DOMAIN groups : g # "dev" => groups'[g] = groups[g]
          /\ "dev" \in DOMAIN groups' => groups'["dev"].name \in {"devs", "new"}
      <4>1. CASE Constrained /\ "dev" \notin DOMAIN groups
        BY <1>2, <3>1, <4>1 DEF GroupsUpdateOne
      <4>2. CASE ~(Constrained /\ "dev" \notin DOMAIN groups)
        BY <1>2, <3>1, <4>2 DEF GroupsUpdateOne, GroupsUpdateInMemory, With
      <4>. QED
        BY <4>1, <4>2
    <3>3. RootsRule'
      <4>1. RootsRule /\ Constrained' = Constrained
        BY <3>1 DEF TruthInv, AnswersInv, Constrained
      <4>. QED
        BY <3>1, <3>2, <4>1 DEF RootsRule, GroupsOf
    <3>4. PeopleStay(c) /\ (Tidy => Tidy')
      BY <3>1, <3>2 DEF PeopleStay, GroupsOf, Tidy, References
    <3>. QED
      BY <1>1, <3>1, <3>3, <3>4, LogsTruth
  <2>2. CASE ~GroupsUpdatable(Req(c).id, Req(c).name)
    <3>1. ~Undisturbed
      BY <1>1, <1>5, <2>2 DEF TruthInv, CalmInv, Checked, GroupsChecked, At
    <3>. QED
      BY <1>1, <1>5, <2>2, <3>1, FailTruth DEF Attempt
  <2>. QED
    BY <2>1, <2>2
<1>. QED
  BY <1>3, <1>4, <1>5 DEF UpdateGroup

LEMMA DeleteGroupTruth ==
  ASSUME StoresInv, TruthInv, NEW c \in Calls, DeleteGroup(c)
  PROVE  TruthInv'
<1>1. /\ CallsShaped /\ call[c].op = "deleteGroup" /\ call[c].pc \in {"find", "check", "act"}
      /\ Running(c) /\ ~Second(c)
      /\ call[c].op \notin DeployOps /\ call[c].pc \notin {"log", "link", "unlink"}
  BY DEF StoresInv, DeleteGroup, At, Running, Second, DeployOps
<1>2. Req(c).id = "dev"
  BY <1>1 DEF StoresInv, Own, Asking, RequestTyped
<1>3. CASE At(c, "deleteGroup", "find") /\ FindGroup(c, "check")
  <2>0. UNCHANGED <<db, cuts>>
    BY <1>3 DEF FindGroup
  <2>1. CASE Req(c).id \in DOMAIN groups
    <3>1. Sees(c, "check", groups[Req(c).id].name)
      BY <1>1, <1>3, <2>1, SeeSees DEF FindGroup
    <3>2. Checked(c)'
      BY <1>1, <3>1, NothingChecked DEF Sees, Became, Unchecked
    <3>3. UNCHANGED <<backend, apps, bundles, entrypoints, groups, users, members, logs, cuts>>
      BY <2>0 DEF db, tables
    <3>4. /\ Became(c, call[c].op, call[c].req, "check", call[c].rest)
          /\ call'[c].wrote = call[c].wrote /\ call'[c].answer = call[c].answer
      BY <3>1 DEF Sees, Keeps
    <3>5. People(c)' /\ Again(c)'
      BY <1>1, <3>4, OrdinaryPeople, NothingAgain DEF Became, DeployOps
    <3>. QED
      BY <1>1, <3>2, <3>3, <3>4, <3>5, GoesTruth
  <2>2. CASE Req(c).id \notin DOMAIN groups
    BY <1>1, <1>3, <2>0, <2>2, RefuseTruth DEF FindGroup
  <2>. QED
    BY <2>1, <2>2
<1>4. CASE /\ At(c, "deleteGroup", "check")
           /\ Ensure(c, \A m \in members : m[2] # Req(c).id, "act", 409)
  <2>0. UNCHANGED <<db, cuts>>
    BY <1>4 DEF Ensure
  <2>1. CASE \A m \in members : m[2] # Req(c).id
    <3>1. Moves(c, "act")
      BY <1>1, <1>4, <2>1, GotoMoves DEF Ensure
    <3>3. Checked(c)'
      BY <1>1, <2>0, <2>1, <3>1
         DEF Checked, AppsChecked, EntrypointsChecked, GroupsChecked, UsersChecked,
             ServingChecked, Moves, Became, db, tables, Req
    <3>4. UNCHANGED <<backend, apps, bundles, entrypoints, groups, users, members, logs, cuts>>
      BY <2>0 DEF db, tables
    <3>5. /\ Became(c, call[c].op, call[c].req, "act", call[c].rest)
          /\ call'[c].wrote = call[c].wrote /\ call'[c].answer = call[c].answer
      BY <3>1 DEF Moves, Keeps
    <3>6. People(c)' /\ Again(c)'
      BY <1>1, <3>5, OrdinaryPeople, NothingAgain DEF Became, DeployOps
    <3>. QED
      BY <1>1, <3>3, <3>4, <3>5, <3>6, GoesTruth
  <2>2. CASE ~(\A m \in members : m[2] # Req(c).id)
    BY <1>1, <1>4, <2>0, <2>2, RefuseTruth DEF Ensure
  <2>. QED
    BY <2>1, <2>2
<1>5. CASE At(c, "deleteGroup", "act") /\ Attempt(c, GroupsDeletable(Req(c).id),
            "log", GroupsDeleteOne(Req(c).id),
            <<apps, bundles, files, entrypoints, users, members>>)
  <2>0. Checked(c) => \A m \in members : m[2] # Req(c).id
    BY <1>1, <1>5 DEF Checked, GroupsChecked, At
  <2>1. CASE GroupsDeletable(Req(c).id)
    <3>1. /\ GroupsDeleteOne(Req(c).id) /\ Writes(c, "log")
          /\ UNCHANGED <<backend, apps, bundles, entrypoints, users, members, logs, cuts>>
      BY <1>1, <1>5, <2>1, WriteWrites DEF At, Attempt
    <3>2. /\ DOMAIN groups' = DOMAIN groups \ {"dev"}
          /\ \A g \in DOMAIN groups' : groups'[g] = groups[g]
      BY <1>2, <3>1 DEF GroupsDeleteOne, Without
    <3>3. RootsRule'
      <4>1. RootsRule /\ Constrained' = Constrained
        BY <3>1 DEF TruthInv, AnswersInv, Constrained
      <4>. QED
        BY <3>1, <3>2, <4>1 DEF RootsRule, GroupsOf
    <3>4. PeopleStay(c)
      BY <3>1, <3>2 DEF PeopleStay, GroupsOf
    <3>5. Tidy /\ Checked(c) => Tidy'
      <4>1. ASSUME Tidy, Checked(c)
            PROVE  members' \subseteq (DOMAIN users') \X (DOMAIN groups')
        BY <1>2, <2>0, <3>1, <3>2, <4>1 DEF Tidy
      <4>. QED
        BY <3>1, <4>1 DEF Tidy, References
    <3>. QED
      BY <1>1, <3>1, <3>3, <3>4, <3>5, LogsTruth
  <2>2. CASE ~GroupsDeletable(Req(c).id)
    <3>1. ~Undisturbed
      BY <2>0, <2>2 DEF TruthInv, CalmInv, GroupsDeletable
    <3>. QED
      BY <1>1, <1>5, <2>2, <3>1, FailTruth DEF Attempt
  <2>. QED
    BY <2>1, <2>2
<1>. QED
  BY <1>3, <1>4, <1>5 DEF DeleteGroup

\* A user's row is inserted, in memory with the pairs of the relation.
LEMMA InsertUserTruth ==
  ASSUME StoresInv, TruthInv, NEW c \in Calls, Running(c), call[c].pc = "act",
         NEW login, NEW gs, NEW next, InsertUser(c, login, gs, next),
         \/ /\ call[c].op = "createUser" /\ login = Req(c).login /\ gs = Req(c).groups
            /\ next = "log"
         \/ call[c].op = "bootstrap" /\ login = "root" /\ gs = {call[c].saw} /\ next = "end"
  PROVE  TruthInv'
<1>1. /\ CallsShaped /\ People(c) /\ RootsRule /\ call[c].op \in {"createUser", "bootstrap"}
      /\ call[c].op \notin DeployOps /\ c # "dev"
  BY IdsAssumption DEF StoresInv, TruthInv, AnswersInv, DeployOps
<1>2. /\ call[c].op = "createUser" => login = "new"
      /\ call[c].op = "bootstrap" => gs \subseteq DOMAIN groups \ {"dev"}
      /\ c \notin DOMAIN users /\ GroupsOf(c) = {}
  BY <1>1 DEF People, StoresInv, Own, Asking, RequestTyped
<1>3. Checked(c) =>
        /\ UserWith(login) = {} /\ gs \subseteq DOMAIN groups
  BY <1>1, <1>2 DEF Checked, UsersChecked, GroupsFound
<1>4. ASSUME NEW pc \in {"link", next}, Writes(c, pc), UsersCreateRow(c, login),
             UNCHANGED <<backend, apps, bundles, entrypoints, groups, logs, cuts>>,
             \/ Constrained /\ UNCHANGED members
             \/ ~Constrained /\ MembersInsert(c, gs) /\ pc = next
      PROVE  TruthInv'
  <2>1. /\ DOMAIN users' = DOMAIN users \cup {c} /\ users'[c].login = login
        /\ \A u \in DOMAIN users : users'[u] = users[u]
    BY <1>2, <1>4 DEF UsersCreateRow, With
  <2>2. /\ \A u \in Ids : u # c => GroupsOf(u)' = GroupsOf(u)
        /\ Constrained => GroupsOf(c)' = {}
        /\ GroupsOf(c)' \subseteq gs /\ (~Constrained /\ gs \subseteq Ids => GroupsOf(c)' = gs)
    BY <1>2, <1>4 DEF GroupsOf, MembersInsert
  <2>3. Constrained' = Constrained /\ DOMAIN users \subseteq Ids /\ DOMAIN groups \subseteq Ids
        /\ Calls \subseteq Ids
    BY <1>4 DEF Constrained, StoresInv, TablesTyped, Ids
  <2>4. RootsRule'
    <3>1. /\ \A g \in DOMAIN groups' : g # "dev" => groups'[g].roles = RootRoles
          /\ "dev" \in DOMAIN groups' => groups'["dev"].name # "root"
      BY <1>1, <1>4 DEF RootsRule
    <3>2. ASSUME NEW u \in DOMAIN users'
          PROVE  /\ users'[u].login = "dev" => u = "dev"
                 /\ users'[u].login = "root" => u # "dev"
                 /\ users'[u].login = "root" /\ ~Constrained' =>
                      GroupsOf(u)' # {} /\ GroupsOf(u)' \subseteq DOMAIN groups' \ {"dev"}
      <4>1. CASE u = c
        <5>1. users'[u].login = "root" => call[c].op = "bootstrap"
          BY <1>1, <1>2, <2>1, <4>1
        <5>2. login \in {"new", "root"}
          BY <1>2
        <5>. QED
          BY <1>1, <1>2, <1>4, <2>1, <2>2, <2>3, <4>1, <5>1, <5>2
      <4>2. CASE u # c
        BY <1>1, <1>4, <2>1, <2>2, <2>3, <4>2 DEF RootsRule
      <4>. QED
        BY <4>1, <4>2
    <3>. QED
      BY <3>1, <3>2 DEF RootsRule
  <2>5. PeopleStay(c)
    BY <1>4, <2>1, <2>2, <2>3 DEF PeopleStay
  <2>6. Became(c, call[c].op, call[c].req, pc, call[c].rest) /\ call'[c].saw = call[c].saw
        /\ call'[c].wrote = call[c].wrote \cup {call[c].op}
    BY <1>4 DEF Writes, Keeps
  <2>7. Again(c)'
    BY <1>1, <2>6, NothingAgain DEF Became
  <2>8. People(c)'
    BY <1>1, <1>2, <1>4, <2>1, <2>2, <2>3, <2>6 DEF People, Became
  <2>9. Checked(c) => Checked(c)'
    BY <1>1, <1>3, <1>4, <2>6
       DEF Checked, AppsChecked, EntrypointsChecked, GroupsChecked, UsersChecked,
           ServingChecked, Became, GroupsFound, Req
  <2>10. Tidy /\ Checked(c) => Tidy'
    <3>1. ASSUME Tidy, Checked(c)
          PROVE  members' \subseteq (DOMAIN users') \X (DOMAIN groups')
      BY <1>3, <1>4, <2>1, <3>1 DEF Tidy, MembersInsert
    <3>. QED
      BY <1>4, <3>1 DEF Tidy, References
  <2>11. call[c].op = "bootstrap" \/ pc \in {"log", "link", "unlink"}
    BY <1>4
  <2>. QED
    BY <1>4, <2>4, <2>5, <2>7, <2>8, <2>9, <2>10, <2>11, WritesTruth
<1>5. CASE Constrained
  <2>1. Attempt(c, UsersCreatable(login), IF gs = {} THEN next ELSE "link", UsersCreateRow(c, login),
                <<apps, bundles, files, entrypoints, groups, members>>)
    BY <1>5 DEF InsertUser
  <2>2. CASE UsersCreatable(login)
    BY <1>1, <1>4, <1>5, <2>1, <2>2, WriteWrites DEF Attempt
  <2>3. CASE ~UsersCreatable(login)
    <3>1. ~Undisturbed
      BY <1>3, <2>3 DEF TruthInv, CalmInv, UsersCreatable
    <3>. QED
      BY <2>1, <2>3, <3>1, FailTruth DEF Attempt
  <2>. QED
    BY <2>2, <2>3
<1>6. CASE ~Constrained
  <2>1. Attempt(c, TRUE, next, UsersCreateRow(c, login) /\ MembersInsert(c, gs),
                <<apps, bundles, files, entrypoints, groups>>)
    BY <1>6 DEF InsertUser
  <2>. QED
    BY <1>1, <1>4, <1>6, <2>1, WriteWrites DEF Attempt
<1>. QED
  BY <1>5, <1>6

\* The pairs of the relation are inserted: only in PostgreSQL, by themselves.
LEMMA LinkUserTruth ==
  ASSUME StoresInv, TruthInv, NEW c \in Calls, Running(c), call[c].pc = "link",
         NEW user, NEW gs, NEW next, LinkUser(c, user, gs, next),
         \/ call[c].op = "createUser" /\ user = c /\ gs = Req(c).groups /\ next = "log"
         \/ call[c].op = "bootstrap" /\ user = c /\ gs = {call[c].saw} /\ next = "end"
         \/ call[c].op = "updateUser" /\ user = "dev" /\ gs = Req(c).groups /\ next = "unlink"
  PROVE  TruthInv'
<1>1. /\ CallsShaped /\ People(c) /\ RootsRule /\ Constrained
      /\ call[c].op \in {"createUser", "bootstrap", "updateUser"} /\ call[c].op \notin DeployOps
      /\ "dev" \notin Calls
  BY IdsAssumption DEF StoresInv, TruthInv, AnswersInv, DeployOps, People
<1>2. CASE MembersInsertable(user, gs)
  <2>1. /\ MembersInsert(user, gs) /\ Writes(c, next)
        /\ UNCHANGED <<backend, apps, bundles, entrypoints, groups, users, logs, cuts>>
    BY <1>1, <1>2, WriteWrites DEF LinkUser, Attempt
  <2>2. RootsRule' /\ Constrained'
    BY <1>1, <2>1 DEF RootsRule, Constrained
  <2>3. PeopleStay(c)
    BY <1>1, <2>1 DEF PeopleStay, MembersInsert, GroupsOf
  <2>4. Tidy => Tidy'
    <3>1. ASSUME Tidy
          PROVE  members' \subseteq (DOMAIN users') \X (DOMAIN groups')
      BY <1>2, <2>1, <3>1 DEF Tidy, MembersInsert, MembersInsertable
    <3>. QED
      BY <2>1, <3>1 DEF Tidy, References
  <2>5. Became(c, call[c].op, call[c].req, next, call[c].rest)
        /\ call'[c].wrote = call[c].wrote \cup {call[c].op}
    BY <2>1 DEF Writes, Keeps
  <2>6. Again(c)'
    BY <1>1, <2>5, NothingAgain DEF Became
  <2>7. People(c)'
    BY <1>1, <2>2, <2>5 DEF People, Became
  <2>8. Checked(c)'
    BY <2>5, NothingChecked DEF Became, Unchecked
  <2>9. next # "idle" /\ (call[c].op = "bootstrap" \/ next \in {"log", "link", "unlink"})
    OBVIOUS
  <2>. QED
    BY <2>1, <2>2, <2>3, <2>4, <2>6, <2>7, <2>8, <2>9, WritesTruth
<1>3. CASE ~MembersInsertable(user, gs)
  <2>1. Undisturbed => call[c].op = "updateUser"
    <3>1. ASSUME Undisturbed, call[c].op \in {"createUser", "bootstrap"}
          PROVE  FALSE
      <4>1. gs \subseteq DOMAIN groups
        BY <1>1, <3>1 DEF TruthInv, CalmInv, Checked, UsersChecked, GroupsFound, People
      <4>2. user = c /\ c \in DOMAIN users /\ GroupsOf(c) = {}
        BY <1>1, <3>1 DEF People
      <4>. QED
        BY <1>3, <4>1, <4>2 DEF MembersInsertable
    <3>. QED
      BY <1>1, <3>1
  <2>2. Undisturbed => Excused(c)
    BY <1>1, <2>1 DEF Excused, People
  <2>. QED
    BY <1>3, <2>2, FailTruth DEF LinkUser, Attempt
<1>. QED
  BY <1>2, <1>3

LEMMA CreateUserTruth ==
  ASSUME StoresInv, TruthInv, NEW c \in Calls, CreateUser(c)
  PROVE  TruthInv'
<1>1. /\ CallsShaped /\ call[c].op = "createUser"
      /\ call[c].pc \in {"check", "checkGroups", "act", "link"}
      /\ Running(c) /\ ~Second(c) /\ call[c].op \notin DeployOps /\ People(c)
  BY DEF StoresInv, CreateUser, At, Running, Second, DeployOps, TruthInv, AnswersInv
<1>2. ASSUME NEW holds \in BOOLEAN, NEW pc \in {"checkGroups", "act"}, NEW status \in {409, 404},
             Ensure(c, holds, pc, status), call[c].pc \in {"check", "checkGroups"},
             holds /\ Checked(c) =>
               UserWith(Req(c).login) = {} /\ (pc = "act" => GroupsFound(Req(c).groups))
      PROVE  TruthInv'
  <2>0. UNCHANGED <<db, cuts>>
    BY <1>2 DEF Ensure
  <2>1. CASE holds
    <3>1. Moves(c, pc)
      BY <1>1, <1>2, <2>1, GotoMoves DEF Ensure
    <3>2. UNCHANGED <<backend, apps, bundles, entrypoints, groups, users, members, logs, cuts>>
      BY <2>0 DEF db, tables
    <3>3. /\ Became(c, call[c].op, call[c].req, pc, call[c].rest)
          /\ call'[c].wrote = call[c].wrote /\ call'[c].answer = call[c].answer
      BY <3>1 DEF Moves, Keeps
    <3>4. People(c)'
      BY <1>1, <1>2, <3>2, <3>3 DEF People, Became, GroupsOf
    <3>5. Checked(c) => Checked(c)'
      BY <1>1, <1>2, <2>1, <3>2, <3>3
         DEF Checked, AppsChecked, EntrypointsChecked, GroupsChecked, UsersChecked,
             ServingChecked, Became, Req, UserWith, GroupsFound
    <3>6. call[c].pc \notin {"log", "link", "unlink"}
      BY <1>2
    <3>7. Again(c)' /\ pc # "idle"
      BY <1>1, <3>3, NothingAgain DEF Became
    <3>. QED
      BY <1>1, <3>2, <3>3, <3>4, <3>5, <3>6, <3>7, GoesTruth
  <2>2. CASE ~holds
    <3>1. Answer(c, status)
      BY <1>2, <2>2 DEF Ensure
    <3>. QED
      BY <1>1, <1>2, <2>0, <3>1, RefuseTruth
  <2>. QED
    BY <2>1, <2>2
<1>3. CASE /\ At(c, "createUser", "check")
           /\ Ensure(c, UserWith(Req(c).login) = {}, "checkGroups", 409)
  <2>1. PICK holds \in BOOLEAN : holds = (UserWith(Req(c).login) = {})
    OBVIOUS
  <2>2. /\ call[c].pc \in {"check", "checkGroups"} /\ Ensure(c, holds, "checkGroups", 409)
        /\ holds /\ Checked(c) => UserWith(Req(c).login) = {}
    BY <1>3, <2>1 DEF At
  <2>. QED
    BY <1>2, <2>2
<1>4. CASE /\ At(c, "createUser", "checkGroups")
           /\ Ensure(c, GroupsFound(Req(c).groups), "act", 404)
  <2>1. Checked(c) => UserWith(Req(c).login) = {}
    BY <1>1, <1>4 DEF Checked, UsersChecked, At
  <2>2. PICK holds \in BOOLEAN : holds = GroupsFound(Req(c).groups)
    BY DEF GroupsFound
  <2>. QED
    BY <1>2, <1>4, <2>1, <2>2 DEF At
<1>5. CASE At(c, "createUser", "act") /\ InsertUser(c, Req(c).login, Req(c).groups, "log")
  BY <1>1, <1>5, InsertUserTruth DEF At
<1>6. CASE At(c, "createUser", "link") /\ LinkUser(c, c, Req(c).groups, "log")
  BY <1>1, <1>6, LinkUserTruth DEF At
<1>. QED
  BY <1>3, <1>4, <1>5, <1>6 DEF CreateUser

LEMMA UpdateUserTruth ==
  ASSUME StoresInv, TruthInv, NEW c \in Calls, UpdateUser(c)
  PROVE  TruthInv'
<1>1. /\ CallsShaped /\ call[c].op = "updateUser"
      /\ call[c].pc \in {"find", "check", "act", "link", "unlink"}
      /\ Running(c) /\ ~Second(c) /\ call[c].op \notin DeployOps /\ People(c) /\ RootsRule
  BY DEF StoresInv, UpdateUser, ReplaceGroups, At, Running, Second, DeployOps, TruthInv, AnswersInv
<1>2. Req(c).id = "dev" /\ "dev" \notin Calls
  BY <1>1, IdsAssumption DEF StoresInv, Own, Asking, RequestTyped
<1>3. ASSUME NEW pc \in {"check", "act", "link", "unlink"}, Moves(c, pc), UNCHANGED <<db, cuts>>,
             call[c].pc \in {"find", "check", "act"},
             pc \in {"link", "unlink"} => Constrained,
             pc = "link" => Req(c).groups # {},
             pc = "act" => GroupsFound(Req(c).groups)
      PROVE  TruthInv'
  <2>1. UNCHANGED <<backend, apps, bundles, entrypoints, groups, users, members, logs, cuts>>
    BY <1>3 DEF db, tables
  <2>2. /\ Became(c, call[c].op, call[c].req, pc, call[c].rest)
        /\ call'[c].wrote = call[c].wrote /\ call'[c].answer = call[c].answer
    BY <1>3 DEF Moves, Keeps
  <2>3. People(c)'
    BY <1>1, <1>3, <2>1, <2>2 DEF People, Became, Constrained, Req
  <2>4. Checked(c)'
    BY <1>1, <1>3, <2>1, <2>2
       DEF Checked, AppsChecked, EntrypointsChecked, GroupsChecked, UsersChecked,
           ServingChecked, Became, Req, GroupsFound
  <2>5. Again(c)' /\ pc # "idle" /\ call[c].pc \notin {"log", "link", "unlink"}
    BY <1>1, <1>3, <2>2, NothingAgain DEF Became
  <2>. QED
    BY <1>1, <2>1, <2>2, <2>3, <2>4, <2>5, GoesTruth
<1>4. CASE At(c, "updateUser", "find") /\ FindUser(c, "check")
  <2>0. UNCHANGED <<db, cuts>>
    BY <1>4 DEF FindUser, Ensure
  <2>1. CASE Req(c).id \in DOMAIN users
    <3>1. Moves(c, "check")
      BY <1>1, <1>4, <2>1, GotoMoves DEF FindUser, Ensure
    <3>. QED
      BY <1>3, <1>4, <2>0, <3>1 DEF At
  <2>2. CASE Req(c).id \notin DOMAIN users
    BY <1>1, <1>4, <2>0, <2>2, RefuseTruth DEF FindUser, Ensure, At
  <2>. QED
    BY <2>1, <2>2
<1>5. CASE /\ At(c, "updateUser", "check")
           /\ Ensure(c, GroupsFound(Req(c).groups), "act", 404)
  <2>0. UNCHANGED <<db, cuts>>
    BY <1>5 DEF Ensure
  <2>1. CASE GroupsFound(Req(c).groups)
    <3>1. Moves(c, "act")
      BY <1>1, <1>5, <2>1, GotoMoves DEF Ensure
    <3>. QED
      BY <1>3, <1>5, <2>0, <2>1, <3>1 DEF At
  <2>2. CASE ~GroupsFound(Req(c).groups)
    BY <1>1, <1>5, <2>0, <2>2, RefuseTruth DEF Ensure, At
  <2>. QED
    BY <2>1, <2>2
<1>6. CASE At(c, "updateUser", "act") /\ Constrained /\ ReplaceGroups(c)
  <2>1. /\ Goto(c, IF Req(c).groups = {} THEN "unlink" ELSE "link") /\ UNCHANGED <<db, cuts>>
    BY <1>6 DEF ReplaceGroups, At
  <2>2. PICK pc \in {"link", "unlink"} : Goto(c, pc) /\ (pc = "link" => Req(c).groups # {})
    BY <2>1
  <2>3. Moves(c, pc)
    BY <1>1, <2>2, GotoMoves
  <2>. QED
    BY <1>3, <1>6, <2>1, <2>2, <2>3 DEF At
<1>7. CASE At(c, "updateUser", "act") /\ ~Constrained /\ ReplaceGroups(c)
  <2>1. Attempt(c, TRUE, "log", UsersUpdateInMemory(Req(c).id, Req(c).groups),
                <<apps, bundles, files, entrypoints, groups>>)
    BY <1>7 DEF ReplaceGroups, At
  <2>2. /\ UsersUpdateInMemory(Req(c).id, Req(c).groups) /\ Writes(c, "log")
        /\ UNCHANGED <<backend, apps, bundles, entrypoints, groups, logs, cuts>>
    BY <1>1, <2>1, WriteWrites DEF Attempt
  <2>3. /\ DOMAIN users' = DOMAIN users \cup {"dev"}
        /\ \A u \in DOMAIN users : users'[u] = users[u]
        /\ "dev" \in DOMAIN users \/ users'["dev"].login = None
    <3>1. CASE "dev" \in DOMAIN users
      BY <1>2, <2>2, <3>1 DEF UsersUpdateInMemory
    <3>2. CASE "dev" \notin DOMAIN users
      BY <1>2, <2>2, <3>2 DEF UsersUpdateInMemory, With
    <3>. QED
      BY <3>1, <3>2
  <2>4. /\ \A u \in Ids : u # "dev" => GroupsOf(u)' = GroupsOf(u)
        /\ members' = {m \in members : m[1] # "dev"} \cup ({"dev"} \X Req(c).groups)
    BY <1>2, <2>2 DEF UsersUpdateInMemory, GroupsOf
  <2>5. /\ Constrained' = Constrained /\ DOMAIN users \subseteq Ids /\ Calls \subseteq Ids
        /\ None \notin Logins
    BY <2>2, StatusAssumption DEF Constrained, StoresInv, TablesTyped, Ids
  <2>6. RootsRule'
    <3>1. ASSUME NEW u \in DOMAIN users'
          PROVE  /\ users'[u].login = "dev" => u = "dev"
                 /\ users'[u].login = "root" => u # "dev"
                 /\ users'[u].login = "root" /\ ~Constrained' =>
                      GroupsOf(u)' # {} /\ GroupsOf(u)' \subseteq DOMAIN groups' \ {"dev"}
      <4>1. CASE u = "dev"
        <5>1. users'["dev"].login # "root"
          BY <1>1, <2>3, <2>5 DEF RootsRule, Logins
        <5>. QED
          BY <4>1, <5>1
      <4>2. CASE u # "dev"
        BY <1>1, <2>2, <2>3, <2>4, <2>5, <4>2 DEF RootsRule
      <4>. QED
        BY <4>1, <4>2
    <3>. QED
      BY <1>1, <2>2, <3>1 DEF RootsRule
  <2>7. PeopleStay(c)
    BY <1>2, <2>2, <2>3, <2>4, <2>5 DEF PeopleStay
  <2>8. Tidy /\ Checked(c) => Tidy'
    <3>1. ASSUME Tidy, Checked(c)
          PROVE  members' \subseteq (DOMAIN users') \X (DOMAIN groups')
      <4>1. Req(c).groups \subseteq DOMAIN groups
        BY <1>1, <1>7, <3>1 DEF Checked, UsersChecked, GroupsFound, At
      <4>. QED
        BY <2>2, <2>3, <2>4, <3>1, <4>1 DEF Tidy
    <3>. QED
      BY <2>2, <3>1 DEF Tidy, References
  <2>. QED
    BY <1>1, <2>2, <2>6, <2>7, <2>8, LogsTruth
<1>8. CASE At(c, "updateUser", "link") /\ LinkUser(c, Req(c).id, Req(c).groups, "unlink")
  BY <1>1, <1>2, <1>8, LinkUserTruth DEF At
<1>9. CASE /\ At(c, "updateUser", "unlink")
           /\ Attempt(c, TRUE, "log", MembersKeepOnly(Req(c).id, Req(c).groups),
                      <<apps, bundles, files, entrypoints, groups, users>>)
  <2>1. /\ MembersKeepOnly(Req(c).id, Req(c).groups) /\ Writes(c, "log") /\ Constrained
        /\ UNCHANGED <<backend, apps, bundles, entrypoints, groups, users, logs, cuts>>
    BY <1>1, <1>9, WriteWrites DEF Attempt, At, People
  <2>2. RootsRule'
    BY <1>1, <2>1 DEF RootsRule, Constrained
  <2>3. PeopleStay(c) /\ (Tidy => Tidy')
    BY <1>2, <2>1 DEF PeopleStay, MembersKeepOnly, GroupsOf, Tidy, References
  <2>. QED
    BY <1>1, <2>1, <2>2, <2>3, LogsTruth
<1>. QED
  BY <1>4, <1>5, <1>6, <1>7, <1>8, <1>9 DEF UpdateUser, ReplaceGroups

LEMMA DeleteUserTruth ==
  ASSUME StoresInv, TruthInv, NEW c \in Calls, DeleteUser(c)
  PROVE  TruthInv'
<1>1. /\ CallsShaped /\ call[c].op = "deleteUser" /\ call[c].pc \in {"find", "act"}
      /\ Running(c) /\ ~Second(c) /\ call[c].op \notin DeployOps /\ RootsRule
      /\ call[c].pc \notin {"log", "link", "unlink"}
  BY DEF StoresInv, DeleteUser, At, Running, Second, DeployOps, TruthInv, AnswersInv
<1>2. Req(c).id = "dev" /\ "dev" \notin Calls
  BY <1>1, IdsAssumption DEF StoresInv, Own, Asking, RequestTyped
<1>3. CASE At(c, "deleteUser", "find") /\ FindUser(c, "act")
  <2>0. UNCHANGED <<db, cuts>>
    BY <1>3 DEF FindUser, Ensure
  <2>1. CASE Req(c).id \in DOMAIN users
    <3>1. Moves(c, "act")
      BY <1>1, <1>3, <2>1, GotoMoves DEF FindUser, Ensure
    <3>2. UNCHANGED <<backend, apps, bundles, entrypoints, groups, users, members, logs, cuts>>
      BY <2>0 DEF db, tables
    <3>3. /\ Became(c, call[c].op, call[c].req, "act", call[c].rest)
          /\ call'[c].wrote = call[c].wrote /\ call'[c].answer = call[c].answer
      BY <3>1 DEF Moves, Keeps
    <3>4. People(c)' /\ Checked(c)'
      BY <1>1, <3>3, OrdinaryPeople, NothingChecked DEF Became, Unchecked
    <3>5. Again(c)'
      BY <1>1, <3>3, NothingAgain DEF Became
    <3>. QED
      BY <1>1, <3>2, <3>3, <3>4, <3>5, GoesTruth
  <2>2. CASE Req(c).id \notin DOMAIN users
    BY <1>1, <1>3, <2>0, <2>2, RefuseTruth DEF FindUser, Ensure, At
  <2>. QED
    BY <2>1, <2>2
<1>4. CASE At(c, "deleteUser", "act") /\ Attempt(c, TRUE, "log", UsersDeleteOne(Req(c).id),
            <<apps, bundles, files, entrypoints, groups>>)
  <2>1. /\ UsersDeleteOne(Req(c).id) /\ Writes(c, "log")
        /\ UNCHANGED <<backend, apps, bundles, entrypoints, groups, logs, cuts>>
    BY <1>1, <1>4, WriteWrites DEF Attempt, At
  <2>2. /\ DOMAIN users' = DOMAIN users \ {"dev"} /\ \A u \in DOMAIN users' : users'[u] = users[u]
        /\ members' = {m \in members : m[1] # "dev"}
    BY <1>2, <2>1 DEF UsersDeleteOne, Without
  <2>3. \A u \in Ids : u # "dev" => GroupsOf(u)' = GroupsOf(u)
    BY <2>2 DEF GroupsOf
  <2>4. Constrained' = Constrained /\ DOMAIN users \subseteq Ids /\ Calls \subseteq Ids
    BY <2>1 DEF Constrained, StoresInv, TablesTyped, Ids
  <2>5. RootsRule'
    BY <1>1, <2>1, <2>2, <2>3, <2>4 DEF RootsRule
  <2>6. PeopleStay(c)
    BY <1>2, <2>1, <2>2, <2>3, <2>4 DEF PeopleStay
  <2>7. Tidy => Tidy'
    BY <2>1, <2>2 DEF Tidy, References
  <2>. QED
    BY <1>1, <2>1, <2>5, <2>6, <2>7, LogsTruth
<1>. QED
  BY <1>3, <1>4 DEF DeleteUser

LEMMA BootstrapTruth ==
  ASSUME StoresInv, TruthInv, NEW c \in Calls, Bootstrap(c)
  PROVE  TruthInv'
<1>1. /\ CallsShaped /\ call[c].op = "bootstrap"
      /\ call[c].pc \in {"find", "group", "user", "act", "link", "end"}
      /\ Running(c) /\ call[c].op \notin DeployOps /\ People(c) /\ RootsRule
      /\ call[c].pc # "log" /\ c # "dev"
  BY IdsAssumption DEF StoresInv, Bootstrap, At, Running, DeployOps, TruthInv, AnswersInv
<1>2. CASE /\ At(c, "bootstrap", "find") /\ UNCHANGED <<db, cuts>>
           /\ \E g \in OneOf(GroupNamed("root")) :
                IF g = None THEN See(c, "group", c) ELSE See(c, "user", g)
  <2>1. None \notin DOMAIN groups /\ None \notin GroupNamed("root")
    BY IdsAssumption DEF StoresInv, TablesTyped, GroupNamed
  <2>2. PICK pc \in {"group", "user"}, what \in Ids :
             /\ See(c, pc, what)
             /\ pc = "group" => what = c /\ GroupNamed("root") = {}
             /\ pc = "user" => what \in DOMAIN groups \ {"dev"}
    <3>1. PICK g \in OneOf(GroupNamed("root")) :
               IF g = None THEN See(c, "group", c) ELSE See(c, "user", g)
      BY <1>2
    <3>2. CASE g = None
      <4>1. GroupNamed("root") = {}
        BY <2>1, <3>1, <3>2 DEF OneOf
      <4>. QED
        BY <3>1, <3>2, <4>1 DEF Ids
    <3>3. CASE g # None
      <4>1. g \in DOMAIN groups /\ groups[g].name = "root"
        BY <3>1, <3>3 DEF OneOf, GroupNamed
      <4>2. g \in DOMAIN groups \ {"dev"} /\ g \in Ids
        BY <1>1, <4>1 DEF RootsRule, StoresInv, TablesTyped
      <4>. QED
        BY <3>1, <3>3, <4>2
    <3>. QED
      BY <3>2, <3>3
  <2>3. Sees(c, pc, what)
    BY <1>1, <2>2, SeeSees
  <2>4. UNCHANGED <<backend, apps, bundles, entrypoints, groups, users, members, logs, cuts>>
    BY <1>2 DEF db, tables
  <2>5. /\ Became(c, call[c].op, call[c].req, pc, call[c].rest) /\ call'[c].saw = what
        /\ call'[c].wrote = call[c].wrote /\ call'[c].answer = call[c].answer
    BY <2>3 DEF Sees, Keeps
  <2>6. People(c)'
    BY <1>1, <1>2, <2>2, <2>4, <2>5 DEF People, Became, GroupsOf, At
  <2>7. Checked(c)'
    BY <1>1, <2>2, <2>4, <2>5
       DEF Checked, AppsChecked, EntrypointsChecked, GroupsChecked, UsersChecked,
           ServingChecked, Became, GroupNamed
  <2>8. Again(c)' /\ pc # "idle" /\ call[c].pc \notin {"log", "link", "unlink"}
    BY <1>1, <1>2, <2>5, NothingAgain DEF Became, At
  <2>. QED
    BY <1>1, <2>4, <2>5, <2>6, <2>7, <2>8, GoesTruth
<1>3. CASE At(c, "bootstrap", "group") /\ Attempt(c, GroupsCreatable("root"), "user",
            GroupsCreateOne(c, "root", RootRoles), <<apps, bundles, files, entrypoints,
            users, members>>)
  <2>1. CASE GroupsCreatable("root")
    <3>1. /\ GroupsCreateOne(c, "root", RootRoles) /\ Writes(c, "user")
          /\ UNCHANGED <<backend, apps, bundles, entrypoints, users, members, logs, cuts>>
      BY <1>1, <1>3, <2>1, WriteWrites DEF At, Attempt
    <3>2. RootsRule' /\ PeopleStay(c) /\ (Tidy => Tidy')
      BY <3>1, GroupMade
    <3>3. /\ Became(c, call[c].op, call[c].req, "user", call[c].rest) /\ call'[c].saw = call[c].saw
          /\ call'[c].wrote = call[c].wrote \cup {call[c].op}
      BY <3>1 DEF Writes, Keeps
    <3>4. c \in DOMAIN groups' /\ call[c].saw = c
      BY <1>1, <1>3, <3>1 DEF GroupsCreateOne, With, People, At
    <3>5. People(c)'
      BY <1>1, <1>3, <3>1, <3>3, <3>4 DEF People, Became, GroupsOf, At
    <3>6. Checked(c)' /\ Again(c)'
      BY <1>1, <3>3, NothingChecked, NothingAgain DEF Became, Unchecked
    <3>. QED
      BY <1>1, <3>1, <3>2, <3>5, <3>6, WritesTruth
  <2>2. CASE ~GroupsCreatable("root")
    <3>1. ~Undisturbed
      BY <1>1, <1>3, <2>2 DEF TruthInv, CalmInv, Checked, UsersChecked, GroupsCreatable, At
    <3>. QED
      BY <1>1, <1>3, <2>2, <3>1, FailTruth DEF Attempt
  <2>. QED
    BY <2>1, <2>2
<1>4. ASSUME Answer(c, 200), UNCHANGED <<db, cuts>>
      PROVE  TruthInv'
  <2>1. Ends(c, 200) /\ cuts' \in Nat /\ cuts <= cuts' /\ CutOff = 0
    BY <1>1, <1>4, AnswerEnds DEF StoresInv, TablesTyped, CutOff
  <2>2. call[c].wrote \subseteq {"bootstrap"}
    BY <1>1 DEF People
  <2>. QED
    BY <1>1, <1>4, <2>1, <2>2, EndsTruth
<1>5. CASE /\ At(c, "bootstrap", "user") /\ UNCHANGED <<db, cuts>>
           /\ IF UserWith("root") = {} THEN Goto(c, "act") ELSE Answer(c, 200)
  <2>1. CASE UserWith("root") = {}
    <3>1. Moves(c, "act")
      BY <1>1, <1>5, <2>1, GotoMoves
    <3>2. UNCHANGED <<backend, apps, bundles, entrypoints, groups, users, members, logs, cuts>>
      BY <1>5 DEF db, tables
    <3>3. /\ Became(c, call[c].op, call[c].req, "act", call[c].rest) /\ call'[c].saw = call[c].saw
          /\ call'[c].wrote = call[c].wrote /\ call'[c].answer = call[c].answer
      BY <3>1 DEF Moves, Keeps
    <3>4. People(c)'
      BY <1>1, <1>5, <3>2, <3>3 DEF People, Became, GroupsOf, At
    <3>5. Checked(c)'
      BY <1>1, <2>1, <3>2, <3>3
         DEF Checked, AppsChecked, EntrypointsChecked, GroupsChecked, UsersChecked,
             ServingChecked, Became, UserWith
    <3>6. Again(c)' /\ call[c].pc \notin {"log", "link", "unlink"}
      BY <1>1, <1>5, <3>3, NothingAgain DEF Became, At
    <3>. QED
      BY <1>1, <3>2, <3>3, <3>4, <3>5, <3>6, GoesTruth
  <2>2. CASE UserWith("root") # {}
    BY <1>4, <1>5, <2>2
  <2>. QED
    BY <2>1, <2>2
<1>6. CASE At(c, "bootstrap", "act") /\ InsertUser(c, "root", {call[c].saw}, "end")
  BY <1>1, <1>6, InsertUserTruth DEF At
<1>7. CASE At(c, "bootstrap", "link") /\ LinkUser(c, c, {call[c].saw}, "end")
  BY <1>1, <1>7, LinkUserTruth DEF At
<1>8. CASE At(c, "bootstrap", "end") /\ Answer(c, 200) /\ UNCHANGED <<db, cuts>>
  BY <1>4, <1>8
<1>. QED
  BY <1>2, <1>3, <1>5, <1>6, <1>7, <1>8 DEF Bootstrap

-----------------------------------------------------------------------------
(* Entrypoints, by themselves or as the second use case of a deploy. *)

\* Until it acts, what it has is so as it was.
LEMMA SecondsStay ==
  ASSUME StoresInv, TruthInv, NEW c \in Calls, Running(c), call[c].op = "createEntrypoint",
         call[c].pc \in {"find", "auth", "check", "checkUrl"}, NEW pc,
         Became(c, call[c].op, call[c].req, pc, call[c].rest), call'[c].wrote = call[c].wrote,
         UNCHANGED <<backend, apps, bundles, entrypoints, groups, users, members>>
  PROVE  Again(c)'
<1>1. Again(c) /\ call[c].rest = None
  BY DEF TruthInv, AnswersInv, StoresInv, Own, Asking
<1>. SUFFICES ASSUME call[c].alone, call[c].asked.op = "deploy", Second(c)
              PROVE  /\ Req(c).app \in DOMAIN apps /\ Req(c).bundle \in DOMAIN bundles
                     /\ EntrypointAt(Req(c).url) = {} /\ RulesAgain(c)'
  BY <1>1 DEF Again, Became, Second, Req, EntrypointAt
<1>2. /\ Req(c).app \in DOMAIN apps /\ Req(c).bundle \in DOMAIN bundles
      /\ EntrypointAt(Req(c).url) = {} /\ RulesAgain(c)
  BY <1>1 DEF Again
<1>3. RulesAgain(c)'
  BY <1>2, RulesStay DEF Became
<1>. QED
  BY <1>2, <1>3

LEMMA NothingLooks ==
  ASSUME NEW c \in Calls, call'[c].op \in {"createEntrypoint", "updateEntrypoint"},
         call'[c].rest = None,
         call'[c].op = "createEntrypoint" => call'[c].pc \notin {"find", "auth", "check", "checkUrl"}
  PROVE  Again(c)'
BY DEF Again, Second

LEMMA CreateEntrypointTruth ==
  ASSUME StoresInv, MeaningInv, TruthInv, NEW c \in Calls, CreateEntrypoint(c)
  PROVE  TruthInv'
<1>1. /\ CallsShaped /\ call[c].op = "createEntrypoint" /\ Running(c) /\ call[c].rest = None
      /\ call[c].pc \in {"find", "check", "checkUrl", "act"}
  BY DEF StoresInv, CreateEntrypoint, At, Running, Own, Asking
<1>2. Second(c) /\ call[c].alone /\ call[c].pc # "act" =>
        /\ Req(c).app \in DOMAIN apps /\ Req(c).bundle \in DOMAIN bundles
        /\ EntrypointAt(Req(c).url) = {}
  BY <1>1 DEF TruthInv, AnswersInv, Again, Second
<1>3. ASSUME NEW pc \in {"auth", "checkUrl", "act"}, UNCHANGED <<db, cuts>>, call[c].pc # "act",
             Became(c, call[c].op, call[c].req, pc, call[c].rest),
             call'[c].wrote = call[c].wrote, call'[c].answer = call[c].answer,
             Undisturbed /\ Tidy /\ Checked(c) => EntrypointsChecked(c)'
      PROVE  TruthInv'
  <2>1. UNCHANGED <<backend, apps, bundles, entrypoints, groups, users, members, logs, cuts>>
    BY <1>3 DEF db, tables
  <2>2. Again(c)'
    BY <1>1, <1>3, <2>1, SecondsStay
  <2>3. People(c)'
    BY <1>1, <1>3, OrdinaryPeople DEF Became
  <2>4. Undisturbed /\ Tidy /\ Checked(c) => Checked(c)'
    BY <1>1, <1>3 DEF Checked, AppsChecked, GroupsChecked, UsersChecked, ServingChecked, Became
  <2>. QED
    BY <1>1, <1>3, <2>1, <2>2, <2>3, <2>4, GoesTruth
<1>4. CASE At(c, "createEntrypoint", "find") /\ FindApp(c, Req(c).app)
  <2>0. UNCHANGED <<db, cuts>>
    BY <1>4 DEF FindApp
  <2>1. CASE Req(c).app \in DOMAIN apps
    <3>1. Sees(c, "auth", apps[Req(c).app].name)
      BY <1>1, <1>4, <2>1, SeeSees DEF FindApp
    <3>2. EntrypointsChecked(c)'
      BY <1>1, <2>0, <2>1, <3>1 DEF EntrypointsChecked, Sees, Became, db, tables, Req
    <3>. QED
      BY <1>3, <1>4, <2>0, <3>1, <3>2 DEF Sees, Keeps, At
  <2>2. CASE Req(c).app \notin DOMAIN apps
    BY <1>1, <1>2, <1>4, <2>0, <2>2, RefuseTruth DEF FindApp, At
  <2>. QED
    BY <2>1, <2>2
<1>5. CASE /\ At(c, "createEntrypoint", "check")
           /\ Ensure(c, Req(c).url \notin InvalidUrls /\ BundleFound(Req(c).bundle), "checkUrl",
                     IF Req(c).url \in InvalidUrls THEN 400 ELSE 404)
  <2>0. UNCHANGED <<db, cuts>>
    BY <1>5 DEF Ensure
  <2>1. CASE Req(c).url \notin InvalidUrls /\ BundleFound(Req(c).bundle)
    <3>1. Moves(c, "checkUrl")
      BY <1>1, <1>5, <2>1, GotoMoves DEF Ensure
    <3>2. Checked(c) => EntrypointsChecked(c)'
      BY <1>1, <1>5, <2>0, <2>1, <3>1
         DEF Checked, EntrypointsChecked, Moves, Became, db, tables, Req, At, BundleFound
    <3>. QED
      BY <1>3, <1>5, <2>0, <3>1, <3>2 DEF Moves, Keeps, At
  <2>2. CASE Req(c).url \in InvalidUrls
    <3>1. Answer(c, 400) /\ call[c].pc = "check"
      BY <1>5, <2>2 DEF Ensure, At
    <3>2. Second(c) => Exempt(c)
      BY <1>1, <2>2 DEF MeaningInv, Meant, Deploying, Second, Exempt
    <3>. QED
      BY <1>1, <2>0, <3>1, <3>2, RefuseTruth
  <2>3. CASE Req(c).url \notin InvalidUrls /\ ~BundleFound(Req(c).bundle)
    <3>1. Answer(c, 404) /\ call[c].pc = "check"
      BY <1>5, <2>3 DEF Ensure, At
    <3>2. ~(Second(c) /\ call[c].alone)
      BY <1>2, <2>3, <3>1 DEF BundleFound
    <3>. QED
      BY <1>1, <2>0, <3>1, <3>2, RefuseTruth
  <2>. QED
    BY <2>1, <2>2, <2>3
<1>6. CASE /\ At(c, "createEntrypoint", "checkUrl")
           /\ Ensure(c, EntrypointAt(Req(c).url) = {}, "act", 409)
  <2>0. UNCHANGED <<db, cuts>>
    BY <1>6 DEF Ensure
  <2>1. CASE EntrypointAt(Req(c).url) = {}
    <3>1. Moves(c, "act")
      BY <1>1, <1>6, <2>1, GotoMoves DEF Ensure
    <3>2. Checked(c) => EntrypointsChecked(c)'
      BY <1>1, <1>6, <2>0, <2>1, <3>1
         DEF Checked, EntrypointsChecked, Moves, Became, db, tables, Req, At, BundleFound,
             EntrypointAt
    <3>. QED
      BY <1>3, <1>6, <2>0, <3>1, <3>2 DEF Moves, Keeps, At
  <2>2. CASE EntrypointAt(Req(c).url) # {}
    <3>1. Answer(c, 409) /\ call[c].pc = "checkUrl"
      BY <1>6, <2>2 DEF Ensure, At
    <3>. QED
      BY <1>1, <1>2, <2>0, <2>2, <3>1, RefuseTruth
  <2>. QED
    BY <2>1, <2>2
<1>7. CASE /\ At(c, "createEntrypoint", "act")
           /\ Attempt(c, EntrypointsCreatable(Req(c).url, Req(c).app, Req(c).bundle), "log",
                      EntrypointsCreateOne(c, Req(c).url, Req(c).app, Req(c).bundle),
                      <<apps, bundles, files, groups, users, members>>)
  <2>0. Checked(c) => /\ Req(c).app \in DOMAIN apps /\ BundleFound(Req(c).bundle)
                      /\ EntrypointAt(Req(c).url) = {}
    BY <1>1, <1>7 DEF Checked, EntrypointsChecked, At
  <2>1. CASE EntrypointsCreatable(Req(c).url, Req(c).app, Req(c).bundle)
    <3>1. /\ EntrypointsCreateOne(c, Req(c).url, Req(c).app, Req(c).bundle) /\ Writes(c, "log")
          /\ UNCHANGED <<backend, apps, bundles, groups, users, members, logs, cuts>>
      BY <1>1, <1>7, <2>1, WriteWrites DEF At, Attempt
    <3>2. RootsRule' /\ PeopleStay(c)
      BY <3>1, RootsStay, NobodyNew DEF TruthInv, AnswersInv
    <3>3. Tidy /\ Checked(c) => Tidy'
      BY <2>0, <3>1 DEF Tidy, References, EntrypointsCreateOne, With, BundleFound
    <3>4. Again(c)'
      BY <1>1, <3>1, NothingLooks DEF Writes, Became
    <3>5. Checked(c)' /\ People(c)'
      BY <1>1, <3>1, NothingChecked, OrdinaryPeople DEF Unchecked, Writes, Became
    <3>. QED
      BY <1>1, <3>1, <3>2, <3>3, <3>4, <3>5, WritesTruth
  <2>2. CASE ~EntrypointsCreatable(Req(c).url, Req(c).app, Req(c).bundle)
    <3>1. ~Undisturbed
      BY <2>0, <2>2 DEF TruthInv, CalmInv, EntrypointsCreatable, References, BundleFound
    <3>. QED
      BY <1>1, <1>7, <2>2, <3>1, FailTruth DEF Attempt
  <2>. QED
    BY <2>1, <2>2
<1>. QED
  BY <1>4, <1>5, <1>6, <1>7 DEF CreateEntrypoint

\* Finding an entrypoint, by its id.
LEMMA FindEntrypointTruth ==
  ASSUME StoresInv, TruthInv, NEW c \in Calls, Running(c), call[c].rest = None,
         call[c].op \in {"updateEntrypoint", "deleteEntrypoint"}, call[c].pc = "find",
         FindEntrypoint(c)
  PROVE  TruthInv'
<1>0. CallsShaped /\ UNCHANGED <<db, cuts>> /\ ~Second(c)
  BY DEF StoresInv, FindEntrypoint, Second
<1>1. CASE Req(c).id \in DOMAIN entrypoints
  <2>1. Sees(c, "auth", entrypoints[Req(c).id].url)
    BY <1>0, <1>1, SeeSees DEF FindEntrypoint
  <2>2. /\ Became(c, call[c].op, call[c].req, "auth", call[c].rest)
        /\ call'[c].wrote = call[c].wrote /\ call'[c].answer = call[c].answer
        /\ UNCHANGED <<backend, apps, bundles, entrypoints, groups, users, members, logs, cuts>>
    BY <1>0, <2>1 DEF Sees, Keeps, db, tables
  <2>3. Checked(c)'
    BY <1>1, <2>2 DEF Checked, AppsChecked, EntrypointsChecked, GroupsChecked, UsersChecked,
       ServingChecked, Became, Req
  <2>4. Again(c)'
    BY <2>2 DEF Again, Second, Became
  <2>5. People(c)'
    BY <2>2, OrdinaryPeople DEF Became
  <2>. QED
    BY <2>2, <2>3, <2>4, <2>5, GoesTruth
<1>2. CASE Req(c).id \notin DOMAIN entrypoints
  BY <1>0, <1>2, RefuseTruth DEF FindEntrypoint
<1>. QED
  BY <1>1, <1>2

LEMMA UpdateEntrypointTruth ==
  ASSUME StoresInv, TruthInv, NEW c \in Calls, UpdateEntrypoint(c)
  PROVE  TruthInv'
<1>1. /\ CallsShaped /\ call[c].op = "updateEntrypoint" /\ Running(c) /\ call[c].rest = None
      /\ call[c].pc \in {"find", "check", "act"} /\ ~Second(c)
  BY DEF StoresInv, UpdateEntrypoint, At, Running, Own, Asking, Second
<1>2. CASE At(c, "updateEntrypoint", "find") /\ FindEntrypoint(c)
  BY <1>1, <1>2, FindEntrypointTruth DEF At
<1>3. CASE /\ At(c, "updateEntrypoint", "check")
           /\ Ensure(c, BundleFound(Req(c).bundle), "act", 404)
  <2>0. UNCHANGED <<db, cuts>>
    BY <1>3 DEF Ensure
  <2>1. CASE BundleFound(Req(c).bundle)
    <3>1. Moves(c, "act")
      BY <1>1, <1>3, <2>1, GotoMoves DEF Ensure
    <3>2. /\ Became(c, call[c].op, call[c].req, "act", call[c].rest)
          /\ call'[c].wrote = call[c].wrote /\ call'[c].answer = call[c].answer
          /\ UNCHANGED <<backend, apps, bundles, entrypoints, groups, users, members, logs, cuts>>
      BY <2>0, <3>1 DEF Moves, Keeps, db, tables
    <3>3. Checked(c) => Checked(c)'
      BY <1>1, <1>3, <2>1, <3>2 DEF Checked, AppsChecked, EntrypointsChecked, GroupsChecked,
         UsersChecked, ServingChecked, Became, Req, At, BundleFound
    <3>4. Again(c)'
      BY <1>1, <3>2, NothingLooks DEF Became
    <3>5. People(c)'
      BY <1>1, <3>2, OrdinaryPeople DEF Became
    <3>. QED
      BY <1>1, <3>2, <3>3, <3>4, <3>5, GoesTruth
  <2>2. CASE ~BundleFound(Req(c).bundle)
    BY <1>1, <1>3, <2>0, <2>2, RefuseTruth DEF Ensure
  <2>. QED
    BY <2>1, <2>2
<1>4. CASE /\ At(c, "updateEntrypoint", "act")
           /\ Attempt(c, EntrypointsUpdatable(Req(c).id, Req(c).bundle), "log",
                      EntrypointsUpdateOne(Req(c).id, Req(c).bundle),
                      <<apps, bundles, files, groups, users, members>>)
  <2>0. Checked(c) => Req(c).id \in DOMAIN entrypoints /\ BundleFound(Req(c).bundle)
    BY <1>1, <1>4 DEF Checked, EntrypointsChecked, At
  <2>1. CASE EntrypointsUpdatable(Req(c).id, Req(c).bundle)
    <3>1. /\ EntrypointsUpdateOne(Req(c).id, Req(c).bundle) /\ Writes(c, "log")
          /\ UNCHANGED <<backend, apps, bundles, groups, users, members, logs, cuts>>
      BY <1>1, <1>4, <2>1, WriteWrites DEF At, Attempt
    <3>2. RootsRule' /\ PeopleStay(c)
      BY <3>1, RootsStay, NobodyNew DEF TruthInv, AnswersInv
    <3>3. Tidy /\ Checked(c) => Tidy'
      <4>. SUFFICES ASSUME Tidy, Checked(c)
                    PROVE  Tidy'
        OBVIOUS
      <4>1. entrypoints' = With(entrypoints, Req(c).id,
                                [entrypoints[Req(c).id] EXCEPT !.bundle = Req(c).bundle])
        BY <2>0, <3>1 DEF EntrypointsUpdateOne, EntrypointsUpdateInMemory
      <4>2. /\ DOMAIN entrypoints' = DOMAIN entrypoints
            /\ \A e \in DOMAIN entrypoints : e # Req(c).id => entrypoints'[e] = entrypoints[e]
            /\ entrypoints'[Req(c).id] = [entrypoints[Req(c).id] EXCEPT !.bundle = Req(c).bundle]
        BY <2>0, <4>1 DEF With
      <4>3. entrypoints[Req(c).id] \in [url : (Urls \ InvalidUrls) \cup Lost,
                                        app : Ids \cup Lost, bundle : Ids \cup {None}]
        BY <2>0 DEF StoresInv, TablesTyped
      <4>4. /\ entrypoints'[Req(c).id].app = entrypoints[Req(c).id].app
            /\ entrypoints'[Req(c).id].bundle = Req(c).bundle
        BY <4>2, <4>3
      <4>. QED
        BY <2>0, <3>1, <4>2, <4>4 DEF Tidy, References, BundleFound
    <3>4. Again(c)'
      BY <1>1, <3>1, NothingLooks DEF Writes, Became
    <3>5. Checked(c)' /\ People(c)'
      BY <1>1, <3>1, NothingChecked, OrdinaryPeople DEF Unchecked, Writes, Became
    <3>. QED
      BY <1>1, <3>1, <3>2, <3>3, <3>4, <3>5, WritesTruth
  <2>2. CASE ~EntrypointsUpdatable(Req(c).id, Req(c).bundle)
    <3>1. ~Undisturbed
      BY <2>0, <2>2 DEF TruthInv, CalmInv, EntrypointsUpdatable, BundleFound
    <3>. QED
      BY <1>1, <1>4, <2>2, <3>1, FailTruth DEF Attempt
  <2>. QED
    BY <2>1, <2>2
<1>. QED
  BY <1>2, <1>3, <1>4 DEF UpdateEntrypoint

LEMMA DeleteEntrypointTruth ==
  ASSUME StoresInv, TruthInv, NEW c \in Calls, DeleteEntrypoint(c)
  PROVE  TruthInv'
<1>1. /\ CallsShaped /\ call[c].op = "deleteEntrypoint" /\ Running(c) /\ call[c].rest = None
      /\ call[c].pc \in {"find", "act"}
  BY DEF StoresInv, DeleteEntrypoint, At, Running, Own, Asking
<1>2. CASE At(c, "deleteEntrypoint", "find") /\ FindEntrypoint(c)
  BY <1>1, <1>2, FindEntrypointTruth DEF At
<1>3. CASE /\ At(c, "deleteEntrypoint", "act")
           /\ Attempt(c, TRUE, "log", EntrypointsDeleteOne(Req(c).id),
                      <<apps, bundles, files, groups, users, members>>)
  <2>1. /\ EntrypointsDeleteOne(Req(c).id) /\ Writes(c, "log")
        /\ UNCHANGED <<backend, apps, bundles, groups, users, members, logs, cuts>>
    BY <1>1, <1>3, WriteWrites DEF At, Attempt
  <2>2. RootsRule' /\ PeopleStay(c)
    BY <2>1, RootsStay, NobodyNew DEF TruthInv, AnswersInv
  <2>3. Tidy => Tidy'
    BY <2>1 DEF Tidy, References, EntrypointsDeleteOne, Without
  <2>. QED
    BY <1>1, <2>1, <2>2, <2>3, LogsTruth DEF DeployOps
<1>. QED
  BY <1>2, <1>3 DEF DeleteEntrypoint

-----------------------------------------------------------------------------

LEMMA RespondTruth ==
  ASSUME StoresInv, TruthInv, NEW c \in Calls, Respond(c)
  PROVE  TruthInv'
<1>1. /\ CallsShaped /\ call[c].op = "respond" /\ Running(c) /\ UNCHANGED <<db, cuts>>
      /\ UNCHANGED <<backend, apps, bundles, entrypoints, groups, users, members, logs, cuts>>
      /\ call[c].pc \in {"find", "bundle", "content", "config"} /\ ~Second(c)
      /\ UNCHANGED <<backend, tables, logs, cuts>>
  BY DEF StoresInv, Respond, Running, Second, db, tables
<1>2. ASSUME NEW pc \in {"bundle", "content", "config"}, NEW what,
             (Moves(c, pc) /\ what = call[c].saw) \/ Sees(c, pc, what),
             Undisturbed /\ Tidy /\ Checked(c) =>
               what.bundle \in DOMAIN bundles /\ what.app \in DOMAIN apps
      PROVE  TruthInv'
  <2>1. /\ Became(c, call[c].op, call[c].req, pc, call[c].rest) /\ call'[c].saw = what
        /\ call'[c].wrote = call[c].wrote /\ call'[c].answer = call[c].answer
    BY <1>2 DEF Moves, Sees, Keeps
  <2>2. Again(c)' /\ People(c)'
    BY <1>1, <2>1, NothingAgain, OrdinaryPeople DEF Became, DeployOps
  <2>3. Undisturbed /\ Tidy /\ Checked(c) => Checked(c)'
    BY <1>1, <1>2, <2>1 DEF Checked, AppsChecked, EntrypointsChecked, GroupsChecked,
       UsersChecked, ServingChecked, Became
  <2>. QED
    BY <1>1, <2>1, <2>2, <2>3, GoesTruth
<1>3. CASE /\ call[c].pc = "find"
           /\ \E e \in OneOf(EntrypointAt(Req(c).url)) :
                IF e = None \/ entrypoints[e].bundle = None THEN Answer(c, 404)
                ELSE See(c, "bundle", entrypoints[e])
  <2>1. PICK e \in OneOf(EntrypointAt(Req(c).url)) :
          IF e = None \/ entrypoints[e].bundle = None THEN Answer(c, 404)
          ELSE See(c, "bundle", entrypoints[e])
    BY <1>3
  <2>2. CASE e = None \/ entrypoints[e].bundle = None
    BY <1>1, <1>3, <2>1, <2>2, RefuseTruth
  <2>3. CASE ~(e = None \/ entrypoints[e].bundle = None)
    <3>1. Sees(c, "bundle", entrypoints[e])
      BY <1>1, <2>1, <2>3, SeeSees
    <3>2. e \in DOMAIN entrypoints
      BY <2>3 DEF OneOf, EntrypointAt
    <3>3. Tidy => /\ entrypoints[e].bundle \in DOMAIN bundles
                  /\ entrypoints[e].app \in DOMAIN apps
      BY <2>3, <3>2 DEF Tidy, References
    <3>. QED
      BY <1>2, <3>1, <3>3
  <2>. QED
    BY <2>2, <2>3
<1>4. call[c].pc \in {"bundle", "content", "config"} /\ Undisturbed =>
        call[c].saw.bundle \in DOMAIN bundles /\ call[c].saw.app \in DOMAIN apps
  BY <1>1 DEF TruthInv, CalmInv, Checked, ServingChecked
<1>5. CASE /\ call[c].pc = "bundle"
           /\ IF call[c].saw.bundle \in DOMAIN bundles THEN Goto(c, "content") ELSE Answer(c, 500)
  <2>1. CASE call[c].saw.bundle \in DOMAIN bundles
    <3>1. Moves(c, "content")
      BY <1>1, <1>5, <2>1, GotoMoves
    <3>. QED
      BY <1>2, <1>4, <1>5, <3>1
  <2>2. CASE call[c].saw.bundle \notin DOMAIN bundles
    BY <1>1, <1>4, <1>5, <2>2, FailTruth
  <2>. QED
    BY <2>1, <2>2
<1>6. CASE /\ call[c].pc = "content"
           /\ \E asset \in Assets :
                IF <<call[c].saw.bundle, asset>> \in files THEN Goto(c, "config")
                ELSE Answer(c, 500)
  <2>1. PICK asset \in Assets :
          IF <<call[c].saw.bundle, asset>> \in files THEN Goto(c, "config") ELSE Answer(c, 500)
    BY <1>6
  <2>2. CASE <<call[c].saw.bundle, asset>> \in files
    <3>1. Moves(c, "config")
      BY <1>1, <2>1, <2>2, GotoMoves
    <3>. QED
      BY <1>2, <1>4, <1>6, <3>1
  <2>3. CASE <<call[c].saw.bundle, asset>> \notin files
    <3>1. ASSUME Undisturbed
          PROVE  FALSE
      <4>1. call[c].saw.bundle \in DOMAIN bundles /\ ~Complete(call[c].saw.bundle)
        BY <1>4, <1>6, <2>3, <3>1 DEF Complete
      <4>2. PICK d \in Calls : Removing(d, call[c].saw.bundle)
                               /\ (call[d].answer = 500 => ~call[d].alone)
        BY <4>1 DEF StoresInv, Lacking
      <4>3. call[d].alone /\ call[d].answer # CutOff
        BY <3>1 DEF Undisturbed, TruthInv, CalmInv
      <4>4. Running(d) /\ d # c
        BY <1>1, <4>2, <4>3 DEF Running, Removing
      <4>. QED
        BY <1>1, <4>3, <4>4 DEF StoresInv, Apart
    <3>. QED
      BY <1>1, <2>1, <2>3, <3>1, FailTruth
  <2>. QED
    BY <2>2, <2>3
<1>7. CASE /\ call[c].pc = "config"
           /\ Answer(c, IF call[c].saw.app \in DOMAIN apps THEN 200 ELSE 500)
  <2>1. CASE call[c].saw.app \in DOMAIN apps
    <3>1. Ends(c, 200) /\ cuts' \in Nat /\ cuts <= cuts' /\ CutOff = 0
      BY <1>1, <1>7, <2>1, AnswerEnds DEF StoresInv, TablesTyped, CutOff
    <3>2. call[c].wrote = {}
      BY <1>1, NothingYet
    <3>. QED
      BY <1>1, <3>1, <3>2, EndsTruth
  <2>2. CASE call[c].saw.app \notin DOMAIN apps
    BY <1>1, <1>4, <1>7, <2>2, FailTruth
  <2>. QED
    BY <2>1, <2>2
<1>. QED
  BY <1>3, <1>5, <1>6, <1>7 DEF Respond

-----------------------------------------------------------------------------
(* A deploy. *)

LEMMA DeployReadsTruth ==
  ASSUME StoresInv, MeaningInv, TruthInv, NEW c \in Calls, DeployReads(c)
  PROVE  TruthInv'
<1>1. /\ TablesTyped /\ call[c].op = "deploy" /\ call[c].pc = "find" /\ Running(c)
      /\ UNCHANGED <<backend, apps, bundles, entrypoints, groups, users, members, logs, cuts>>
      /\ call[c].asked.op = "deploy" /\ Req(c) = call[c].asked /\ call[c].rest = None
  BY DEF StoresInv, DeployReads, At, Running, db, tables, Own, Asking, DeployOps, MeaningInv,
     Meant, Deploying
<1>2. PICK what, id :
        /\ what \in Reads
        /\ ReadsTyped(With(Nothing, what, id)) /\ Sees(c, "find", With(Seen(c), what, id))
        /\ With(Seen(c), what, id) \in Readings /\ Seen(c)' = With(Seen(c), what, id)
        /\ \/ what = "bundle" /\ id \in OneOf(LatestTagged(Req(c).tag))
           \/ what = "app" /\ id \in OneOf(AppNamed(Req(c).name))
           \/ /\ what = "entrypoint"
              /\ \E e \in OneOf(EntrypointAt(Req(c).url)) :
                   id = IF e = None THEN None ELSE <<e, entrypoints[e].app>>
  BY DeploySees
<1>3. /\ Became(c, call[c].op, call[c].req, "find", call[c].rest)
      /\ call'[c].wrote = call[c].wrote /\ call'[c].answer = call[c].answer
      /\ Seen(c)' = [i \in DOMAIN Seen(c) \cup {what} |-> IF i = what THEN id ELSE Seen(c)[i]]
  BY <1>2 DEF Sees, Keeps, With
<1>4. what = "bundle" /\ id # None => id \in DOMAIN bundles
  BY <1>2 DEF OneOf, LatestTagged, Tagged
<1>5. what = "entrypoint" /\ id = None => EntrypointAt(call[c].asked.url) = {}
  <2>. SUFFICES ASSUME what = "entrypoint", id = None
                PROVE  EntrypointAt(Req(c).url) = {}
    BY <1>1
  <2>1. PICK e \in OneOf(EntrypointAt(Req(c).url)) :
          id = IF e = None THEN None ELSE <<e, entrypoints[e].app>>
    BY <1>2
  <2>2. CASE e \in EntrypointAt(Req(c).url)
    <3>1. e \in Ids /\ entrypoints[e].app \in Ids \cup {None} /\ e # None
      BY <1>1, <2>2, IdsAssumption DEF EntrypointAt, TablesTyped, Lost
    <3>. QED
      BY <2>1, <3>1, UseCasesAssumption
  <2>. QED
    BY <2>2 DEF OneOf
<1>6. Again(c)'
  <2>. SUFFICES ASSUME call[c].alone
                PROVE  Again(c)'
    BY <1>3 DEF Again, Became
  <2>1. PICK new : new = Seen(c)'
    OBVIOUS
  <2>2. "bundle" \in DOMAIN new /\ new["bundle"] # None => new["bundle"] \in DOMAIN bundles
    BY <1>1, <1>3, <1>4, <2>1 DEF TruthInv, AnswersInv, Again
  <2>3. "entrypoint" \in DOMAIN new /\ new["entrypoint"] = None =>
          EntrypointAt(call[c].asked.url) = {}
    BY <1>1, <1>3, <1>5, <2>1 DEF TruthInv, AnswersInv, Again
  <2>4. call'[c].asked = call[c].asked /\ \A url : EntrypointAt(url)' = EntrypointAt(url)
    BY <1>1, <1>3 DEF EntrypointAt, Became
  <2>5. call'[c].op = "deploy" /\ call'[c].rest = None
    BY <1>1, <1>3 DEF Became
  <2>. QED
    BY <1>1, <2>1, <2>2, <2>3, <2>4, <2>5 DEF Again, Second
<1>7. Checked(c)' /\ People(c)'
  BY <1>1, <1>3, NothingChecked, OrdinaryPeople DEF Unchecked, Became
<1>. QED
  BY <1>1, <1>3, <1>6, <1>7, GoesTruth

\* A use case of a deploy begins.
LEMMA ContinuesTruth ==
  ASSUME StoresInv, TruthInv, NEW c \in Calls, Running(c), NEW now, NEW then,
         Continues(c, now, then), logs \subseteq logs',
         UNCHANGED <<backend, apps, bundles, entrypoints, groups, users, members, cuts>>,
         now.op \in DeployOps \ {"deploy"}, Again(c)',
         \A op \in call[c].wrote : <<c, op>> \in logs'
  PROVE  TruthInv'
<1>1. /\ Stepped(c) /\ Became(c, now.op, now, First(now.op), then)
      /\ call'[c].wrote = call[c].wrote /\ call'[c].answer = None
  BY Steppings DEF Continues, Keeps, StoresInv, Own, Preparing
<1>2. First(now.op) = IF now.op = "createApp" THEN "auth" ELSE "find"
  BY DEF First, FindsFirst, DeployOps
<1>3. RootsRule' /\ PeopleStay(c) /\ (Undisturbed => Tidy')
  BY RootsStay, NobodyNew, TidyStays DEF TruthInv, AnswersInv, CalmInv
<1>4. Logging(c)'
  BY <1>1 DEF Logging
<1>5. Refusing(c)' /\ call'[c].answer \notin {500, CutOff}
  BY <1>1, StatusAssumption DEF Refusing, Statuses, CutOff
<1>6. People(c)' /\ Checked(c)'
  BY <1>1, <1>2, OrdinaryPeople, NothingChecked DEF Became, Unchecked, DeployOps
<1>7. cuts' \in Nat /\ cuts <= cuts'
  BY DEF StoresInv, TablesTyped
<1>. QED
  BY <1>1, <1>3, <1>4, <1>5, <1>6, <1>7, TruthSteps

LEMMA DeployTruth ==
  ASSUME StoresInv, MeaningInv, TruthInv, NEW c \in Calls, Deploy(c)
  PROVE  TruthInv'
<1>. DEFINE seen == Seen(c)
            now == Deployment(c, seen).now
            then == Deployment(c, seen).then
<1>1. /\ CallsShaped /\ call[c].op = "deploy" /\ call[c].pc = "find" /\ Running(c) /\ ~Second(c)
      /\ UNCHANGED <<db, cuts>> /\ Own(c) /\ DOMAIN seen = Reads
      /\ UNCHANGED <<backend, apps, bundles, entrypoints, groups, users, members, cuts, logs>>
  BY DEF StoresInv, Deploy, At, Running, db, tables, Second
<1>2. CASE \E status \in {400, 404} : Answer(c, status)
  BY <1>1, <1>2, RefuseTruth
<1>3. CASE Runs(c, now, then) /\ ~Mismatched(seen) /\ seen["bundle"] # None
  <2>1. Continues(c, now, then)
    BY <1>1, <1>3, RunsContinues
  <2>2. /\ ReadsTyped(seen) /\ RequestTyped("deploy", Req(c)) /\ call[c].wrote = {}
        /\ call[c].asked.op = "deploy" /\ Req(c) = call[c].asked
    <3>1. /\ ReadsTyped(seen) /\ RequestTyped("deploy", Req(c)) /\ call[c].wrote = {}
          /\ call[c].asked.op = "deploy"
      BY <1>1 DEF Own, Asking, Preparing, Writing, Second, DeployOps
    <3>. QED
      BY <1>1, <3>1 DEF MeaningInv, Meant, Deploying
  <2>3. now.op \in DeployOps \ {"deploy"}
    BY <1>1, <1>3, <2>2, DeploymentTyped
  <2>4. call[c].alone =>
          /\ seen["bundle"] \in DOMAIN bundles
          /\ seen["entrypoint"] = None => EntrypointAt(call[c].asked.url) = {}
    BY <1>1, <1>3, <2>2 DEF TruthInv, AnswersInv, Again, Reads
  <2>5. /\ Became(c, now.op, now, First(now.op), then)
        /\ call'[c].wrote = {}
    BY <2>1, <2>2 DEF Continues, Keeps
  <2>. HIDE DEF seen
  <2>6. Again(c)'
    <3>1. CASE seen["entrypoint"] # None
      <4>1. now.op = "updateEntrypoint" /\ then = None
        BY <3>1 DEF Deployment
      <4>. QED
        BY <2>5, <4>1, NothingLooks DEF Became
    <3>2. CASE seen["entrypoint"] = None /\ seen["app"] # None
      <4>1. now.op = "createEntrypoint" /\ then = None
        BY <3>2 DEF Deployment
      <4>. QED
        BY <2>5, <4>1 DEF Again, Second, Became
    <3>3. CASE seen["entrypoint"] = None /\ seen["app"] = None
      <4>1. /\ now = [op |-> "createApp", name |-> Req(c).name]
            /\ then = [op |-> "createEntrypoint", url |-> Req(c).url, app |-> c,
                       bundle |-> seen["bundle"]]
        BY <3>3 DEF Deployment
      <4>2. call'[c].op = "createApp" /\ call'[c].rest = then /\ call'[c].pc = "auth"
        BY <2>5, <4>1 DEF Became, First, FindsFirst
      <4>3. call'[c].rest.bundle = seen["bundle"] /\ call'[c].rest.url = call[c].asked.url
        BY <2>2, <4>1, <4>2
      <4>4. call'[c].alone = call[c].alone /\ \A url : EntrypointAt(url)' = EntrypointAt(url)
        BY <1>1, <2>5 DEF EntrypointAt, Became
      <4>. QED
        BY <1>1, <2>4, <3>3, <4>2, <4>3, <4>4 DEF Again, Second
    <3>. QED
      BY <3>1, <3>2, <3>3
  <2>. QED
    BY <1>1, <2>1, <2>2, <2>3, <2>6, ContinuesTruth
<1>. QED
  BY <1>2, <1>3 DEF Deploy

-----------------------------------------------------------------------------

\* Two users of one login hold the role alike: in memory, where there may be two.
LEMMA RulesFound ==
  ASSUME StoresInv, TruthInv, NEW c \in Calls, Running(c), call[c].op = "createApp",
         NEW caller \in UserWith(call[c].by), RolesReadable(caller),
         <<"root", None>> \in RolesOf(caller)
  PROVE  RulesAgain(c)
<1>1. /\ call[c].by \in {"root", "dev"} /\ RootsRule
      /\ caller \in DOMAIN users /\ users[caller].login = call[c].by
  BY DEF StoresInv, Own, Asking, TruthInv, AnswersInv, UserWith
<1>2. CASE Constrained
  <2>1. \A u \in UserWith(call[c].by) : u = caller
    BY <1>1, <1>2 DEF StoresInv, TablesAgree, UserWith
  <2>. QED
    BY <1>2, <2>1 DEF RulesAgain, RolesReadable
<1>3. CASE call[c].by = "root" /\ ~Constrained
  <2>. SUFFICES ASSUME NEW u \in UserWith("root")
                PROVE  RolesReadable(u) /\ <<"root", None>> \in RolesOf(u)
    BY <1>3 DEF RulesAgain
  <2>1. GroupsOf(u) # {} /\ GroupsOf(u) \subseteq DOMAIN groups \ {"dev"}
    BY <1>1, <1>3 DEF RootsRule, UserWith
  <2>2. PICK g \in GroupsOf(u) : g \in DOMAIN groups /\ groups[g].roles = RootRoles
    BY <1>1, <2>1 DEF RootsRule
  <2>. QED
    BY <2>1, <2>2 DEF RolesReadable, RolesOf, RootRoles
<1>4. CASE call[c].by = "dev" /\ ~Constrained
  <2>1. \A u \in UserWith("dev") : u = "dev"
    BY <1>1 DEF RootsRule, UserWith
  <2>2. caller = "dev" /\ UserWith("dev") = {"dev"}
    BY <1>4, <2>1
  <2>. QED
    BY <1>4, <2>2 DEF RulesAgain
<1>. QED
  BY <1>1, <1>2, <1>3, <1>4

LEMMA AuthorizeTruth ==
  ASSUME StoresInv, MeaningInv, TruthInv, NEW c \in Calls, Authorize(c)
  PROVE  TruthInv'
<1>1. /\ CallsShaped /\ call[c].pc = "auth" /\ Running(c) /\ UNCHANGED <<db, cuts>>
      /\ UNCHANGED <<backend, apps, bundles, entrypoints, groups, users, members, logs, cuts>>
      /\ UNCHANGED <<backend, tables, logs, cuts>> /\ Asking(c)
  BY DEF StoresInv, Authorize, Running, db, tables, Own
<1>2. call[c].op \notin {"deploy", "respond", "bootstrap"} /\ call[c].op \in DOMAIN Awaits
  BY <1>1 DEF Asking, Awaits
<1>3. Second(c) /\ call[c].alone => RulesAgain(c)
  BY <1>1 DEF TruthInv, AnswersInv, Again, Second
<1>4. PICK caller \in OneOf(UserWith(call[c].by)) :
        \/ caller = None /\ Answer(c, 403)
        \/ caller # None /\ ~RolesReadable(caller) /\ Answer(c, 500)
        \/ /\ caller # None /\ RolesReadable(caller) /\ ~Permitted(c, RolesOf(caller))
           /\ Answer(c, 403)
        \/ /\ caller # None /\ RolesReadable(caller) /\ Permitted(c, RolesOf(caller))
           /\ call' = [call EXCEPT ![c].roles = RolesOf(caller), ![c].pc = Authorized(call[c].op)]
  <2>1. PICK u \in OneOf(UserWith(call[c].by)) :
          LET roles == RolesOf(u)
          IN  CASE u = None -> Answer(c, 403)
                [] u # None /\ ~RolesReadable(u) -> Answer(c, 500)
                [] u # None /\ RolesReadable(u) /\ ~Permitted(c, roles) -> Answer(c, 403)
                [] OTHER -> call' = [call EXCEPT ![c].roles = roles,
                                                 ![c].pc = Authorized(call[c].op)]
    BY DEF Authorize
  <2>2. CASE u = None
    BY <2>1, <2>2
  <2>3. CASE u # None /\ ~RolesReadable(u)
    BY <2>1, <2>3
  <2>4. CASE u # None /\ RolesReadable(u) /\ ~Permitted(c, RolesOf(u))
    BY <2>1, <2>4
  <2>5. CASE u # None /\ RolesReadable(u) /\ Permitted(c, RolesOf(u))
    BY <2>1, <2>5
  <2>. QED
    BY <2>2, <2>3, <2>4, <2>5
<1>5. caller = None => UserWith(call[c].by) = {}
  <2>1. UserWith(call[c].by) \subseteq Ids /\ None \notin Ids
    BY IdsAssumption DEF StoresInv, TablesTyped, UserWith
  <2>. QED
    BY <2>1 DEF OneOf
<1>6. caller # None => caller \in UserWith(call[c].by)
  BY DEF OneOf
<1>7. CASE caller = None /\ Answer(c, 403)
  <2>1. ~(Second(c) /\ call[c].alone)
    BY <1>3, <1>5, <1>7 DEF RulesAgain
  <2>. QED
    BY <1>1, <1>2, <1>7, <2>1, RefuseTruth
<1>8. CASE caller # None /\ ~RolesReadable(caller) /\ Answer(c, 500)
  <2>1. ~Undisturbed
    BY <1>8 DEF TruthInv, CalmInv, Tidy, RolesReadable, GroupsOf
  <2>. QED
    BY <1>1, <1>8, <2>1, FailTruth
<1>9. CASE /\ caller # None /\ RolesReadable(caller) /\ ~Permitted(c, RolesOf(caller))
           /\ Answer(c, 403)
  <2>1. ~(Second(c) /\ call[c].alone)
    <3>1. <<"root", None>> \notin RolesOf(caller)
      BY <1>2, <1>9 DEF Permitted, Manages
    <3>. QED
      BY <1>3, <1>6, <1>9, <3>1 DEF RulesAgain
  <2>. QED
    BY <1>1, <1>2, <1>9, <2>1, RefuseTruth
<1>10. CASE /\ caller # None /\ RolesReadable(caller) /\ Permitted(c, RolesOf(caller))
            /\ call' = [call EXCEPT ![c].roles = RolesOf(caller), ![c].pc = Authorized(call[c].op)]
  <2>1. Authorized(call[c].op) \notin {"idle", "auth", "log", "done", "link", "unlink"}
    BY DEF Authorized
  <2>2. Grants(c, RolesOf(caller), Authorized(call[c].op))
    BY <1>1, <1>10, <2>1, GrantGrants
  <2>3. /\ Became(c, call[c].op, call[c].req, Authorized(call[c].op), call[c].rest)
        /\ call'[c].wrote = call[c].wrote /\ call'[c].answer = call[c].answer
        /\ call'[c].saw = call[c].saw
    BY <2>2 DEF Grants, Keeps
  <2>4. Again(c)'
    <3>1. CASE call[c].op \notin DeployOps
      BY <1>1, <2>3, <3>1, NothingAgain DEF Became
    <3>2. CASE call[c].op = "createEntrypoint"
      BY <1>1, <2>3, <3>2, SecondsStay
    <3>3. CASE call[c].op = "updateEntrypoint"
      <4>1. call[c].rest = None
        BY <1>1, <3>3 DEF Asking
      <4>. QED
        BY <2>3, <3>3, <4>1, NothingLooks DEF Became
    <3>4. CASE call[c].op = "createApp"
      <4>1. RulesAgain(c)
        <5>1. <<"root", None>> \in RolesOf(caller)
          BY <1>10, <3>4 DEF Permitted
        <5>. QED
          BY <1>1, <1>6, <1>10, <3>4, <5>1, RulesFound
      <4>2. RulesAgain(c)' /\ \A url : EntrypointAt(url)' = EntrypointAt(url)
        BY <1>1, <2>3, <4>1, RulesStay DEF Became, EntrypointAt
      <4>3. call'[c].pc = "check" /\ call'[c].op = "createApp"
        BY <2>3, <3>4 DEF Authorized, Became
      <4>. QED
        BY <1>1, <2>3, <4>2, <4>3 DEF TruthInv, AnswersInv, Again, Second, Became
    <3>. QED
      BY <1>2, <3>1, <3>2, <3>3, <3>4 DEF DeployOps
  <2>5. People(c)'
    BY <1>1, <1>2, <2>1, <2>3 DEF TruthInv, AnswersInv, People, Became, GroupsOf
  <2>6. Checked(c) => Checked(c)'
    <3>1. CASE call[c].op \in {"createEntrypoint", "updateEntrypoint"}
      BY <1>1, <2>3, <3>1 DEF Checked, AppsChecked, EntrypointsChecked, GroupsChecked,
         UsersChecked, ServingChecked, Became, Req, Authorized
    <3>2. CASE call[c].op \notin {"createEntrypoint", "updateEntrypoint"}
      <4>1. Unchecked(call[c].op, Authorized(call[c].op))
        BY <1>2, <3>2 DEF Unchecked, Authorized
      <4>. QED
        BY <2>3, <4>1, NothingChecked DEF Became
    <3>. QED
      BY <3>1, <3>2
  <2>. QED
    BY <1>1, <2>1, <2>3, <2>4, <2>5, <2>6, GoesTruth
<1>. QED
  BY <1>4, <1>7, <1>8, <1>9, <1>10

LEMMA LogTruth ==
  ASSUME StoresInv, MeaningInv, TruthInv, NEW c \in Calls, Log(c)
  PROVE  TruthInv'
<1>1. /\ CallsShaped /\ call[c].pc = "log" /\ Running(c) /\ Own(c)
      /\ UNCHANGED <<backend, apps, bundles, entrypoints, groups, users, members, cuts>>
      /\ logs' = logs \cup {<<c, call[c].op>>}
  BY DEF StoresInv, Log, Running, tables, LogsCreateOne
<1>2. \A op \in call[c].wrote \ {"bootstrap"} : <<c, op>> \in logs'
  <2>1. Logging(c) /\ call[c].answer = None
    BY <1>1 DEF TruthInv, AnswersInv, Own, Preparing
  <2>. QED
    BY <1>1, <2>1, StatusAssumption DEF Logging, CutOff, Statuses
<1>3. CASE call[c].rest = None
  <2>1. Ends(c, 200)
    BY <1>1, <1>3, AnswerEnds DEF Log
  <2>2. /\ Stepped(c) /\ call'[c].pc = "done" /\ call'[c].answer = 200 /\ CutOff = 0
        /\ call'[c].wrote = call[c].wrote /\ call'[c].op = call[c].op /\ Req(c)' = Req(c)
    BY <1>1, <2>1, Steppings DEF Ends, Became, Keeps, Req, CutOff
  <2>3. RootsRule' /\ PeopleStay(c) /\ (Undisturbed => Tidy')
    BY <1>1, RootsStay, NobodyNew, TidyStays DEF TruthInv, AnswersInv, CalmInv
  <2>4. Logging(c)'
    BY <1>2, <2>2 DEF Logging
  <2>5. Again(c)' /\ Checked(c)' /\ Refusing(c)'
    BY <2>2 DEF Again, Checked, Running, Refusing
  <2>6. People(c)'
    BY <2>2 DEF TruthInv, AnswersInv, People
  <2>7. cuts' \in Nat /\ cuts <= cuts' /\ logs \subseteq logs'
    BY <1>1 DEF StoresInv, TablesTyped
  <2>. QED
    BY <2>2, <2>3, <2>4, <2>5, <2>6, <2>7, TruthSteps
<1>4. CASE call[c].rest # None
  <2>1. Continues(c, call[c].rest, None)
    BY <1>1, <1>4, RunsContinues DEF Log
  <2>2. /\ call[c].asked.op = "deploy" /\ call[c].op = "createApp"
        /\ call[c].rest.op = "createEntrypoint" /\ call[c].wrote \subseteq {"createApp"}
        /\ call[c].rest.app = c
    BY <1>1, <1>4 DEF Own, Asking, RequestTyped, Writing, MeaningInv, Meant, Deploying
  <2>3. /\ call'[c].op = "createEntrypoint" /\ call'[c].req = call[c].rest
        /\ call'[c].rest = None /\ call'[c].by = call[c].by /\ call'[c].alone = call[c].alone
    BY <2>1, <2>2 DEF Continues, Became
  <2>4. Again(c)'
    <3>. SUFFICES ASSUME call[c].alone
                  PROVE  /\ call[c].rest.app \in DOMAIN apps /\ call[c].rest.bundle \in DOMAIN bundles
                         /\ EntrypointAt(call[c].rest.url) = {} /\ RulesAgain(c)'
      BY <1>1, <2>3 DEF Again, Req, EntrypointAt
    <3>1. /\ call[c].rest.app \in DOMAIN apps /\ call[c].rest.bundle \in DOMAIN bundles
          /\ EntrypointAt(call[c].rest.url) = {} /\ RulesAgain(c)
      BY <1>1, <1>4, <2>2 DEF TruthInv, AnswersInv, Again
    <3>2. RulesAgain(c)'
      BY <1>1, <2>3, <3>1, RulesStay
    <3>. QED
      BY <3>1, <3>2
  <2>5. call[c].rest.op \in DeployOps \ {"deploy"} /\ \A op \in call[c].wrote : <<c, op>> \in logs'
    BY <1>2, <2>2 DEF DeployOps
  <2>. QED
    BY <1>1, <2>1, <2>4, <2>5, ContinuesTruth
<1>. QED
  BY <1>3, <1>4

LEMMA CutTruth ==
  ASSUME StoresInv, TruthInv, NEW c \in Calls, Cut(c)
  PROVE  TruthInv'
<1>1. /\ Ends(c, CutOff) /\ UNCHANGED db /\ Running(c) /\ CutOff = 0
      /\ cuts' \in Nat /\ cuts <= cuts' /\ cuts' > 0
  BY AnswerEnds DEF StoresInv, Cut, TablesTyped, CutOff
<1>. QED
  BY <1>1, EndsTruth

LEMMA StartTruth ==
  ASSUME StoresInv, TruthInv, NEW c \in Calls, NEW r \in Requests, NEW by \in Callers(r.op),
         Start(c, r, by)
  PROVE  TruthInv'
<1>1. /\ call[c] = Idle /\ UNCHANGED <<db, cuts>>
      /\ UNCHANGED <<backend, apps, bundles, entrypoints, groups, users, members, logs, cuts>>
      /\ Began(c, r, by) /\ \A d \in Calls : d # c => Disturbed(d)
  BY StartBegins DEF StoresInv, db, tables
<1>2. call'[c].pc = First(r.op) /\ call'[c].op = r.op /\ First(r.op) \in {"find", "auth"}
      /\ call'[c].wrote = {} /\ call'[c].answer = None /\ call'[c].saw = None
      /\ call'[c].asked = r /\ call'[c].rest = None
  BY <1>1 DEF Began, Keeps, First
<1>3. RootsRule'
  BY <1>1, RootsStay DEF TruthInv, AnswersInv
<1>4. Undisturbed' => Undisturbed /\ \A d \in Calls : ~Running(d)
  <2>. SUFFICES ASSUME Undisturbed'
                PROVE  Undisturbed /\ \A d \in Calls : ~Running(d)
    OBVIOUS
  <2>1. call[c].alone /\ ~Running(c)
    BY <1>1 DEF Idle, Running
  <2>2. \A d \in Calls : d # c => call[d].alone /\ ~Running(d)
    BY <1>1 DEF Undisturbed, Disturbed
  <2>. QED
    BY <1>1, <2>1, <2>2 DEF Undisturbed
<1>5. Logging(c)' /\ Refusing(c)'
  BY <1>2, StatusAssumption DEF Logging, Refusing, Statuses
<1>6. Again(c)'
  BY <1>2 DEF Again, Second, Seen, Nothing
<1>7. People(c)'
  <2>1. People(c) /\ call[c].pc = "idle"
    BY <1>1 DEF TruthInv, AnswersInv, Idle
  <2>. QED
    BY <1>1, <1>2, <2>1, UseCasesAssumption DEF People, GroupsOf
<1>8. Checked(c)'
  <2>1. Unchecked(r.op, First(r.op))
    BY DEF Unchecked, First, FindsFirst
  <2>. QED
    BY <1>2, <2>1, NothingChecked
<1>9. ASSUME NEW d \in Calls, d # c
      PROVE  Logging(d)' /\ Refusing(d)' /\ Again(d)' /\ People(d)'
  <2>1. Disturbed(d) /\ Logging(d) /\ Refusing(d) /\ People(d)
    BY <1>1, <1>9 DEF TruthInv, AnswersInv
  <2>2. ~(Running(d)' /\ call'[d].alone)
    BY <2>1 DEF Disturbed, Running
  <2>3. Logging(d)' /\ Refusing(d)'
    BY <1>1, <2>1 DEF Logging, Refusing, Disturbed, Keeps, Running
  <2>4. People(d)'
    BY <1>1, <2>1 DEF People, Disturbed, Keeps, GroupsOf, Req, Constrained
  <2>. QED
    BY <2>2, <2>3, <2>4 DEF Again
<1>10. ASSUME Undisturbed', NEW d \in Calls
       PROVE  Checked(d)'
  <2>1. d # c => ~Running(d)'
    BY <1>1, <1>4, <1>10 DEF Disturbed, Running
  <2>. QED
    BY <1>8, <2>1 DEF Checked
<1>11. FailsOnlyInARace'
  <2>1. ASSUME Undisturbed', NEW d \in Calls, call'[d].answer = 500
        PROVE  Excused(d)'
    <3>1. d # c
      BY <1>2, <2>1, StatusAssumption DEF Statuses
    <3>. QED
      BY <1>1, <1>4, <2>1, <3>1
         DEF TruthInv, CalmInv, FailsOnlyInARace, Disturbed, Keeps, Excused, Req
  <2>. QED
    BY <2>1 DEF FailsOnlyInARace, Excused
<1>12. \A d \in Calls : call'[d].answer = CutOff => cuts' > 0
  BY <1>1, <1>2, StatusAssumption DEF TruthInv, CalmInv, Disturbed, Keeps, Statuses
<1>13. Undisturbed' => Tidy'
  BY <1>1, <1>4, TidyStays DEF TruthInv, CalmInv
<1>14. AnswersInv'
  BY <1>3, <1>5, <1>6, <1>7, <1>9 DEF AnswersInv
<1>15. CalmInv'
  BY <1>10, <1>11, <1>12, <1>13 DEF CalmInv
<1>. QED
  BY <1>14, <1>15 DEF TruthInv

LEMMA InitTruth == Init => TruthInv
<1>. SUFFICES ASSUME Init
              PROVE  TruthInv
  OBVIOUS
<1>1. /\ cuts = 0 /\ (EmptyInit \/ SeedInit(App, Tag, Url, DevRoles))
      /\ \A c \in Calls :
           /\ ~Running(c) /\ call[c].pc = "idle" /\ call[c].wrote = {}
           /\ call[c].answer = None
  BY DEF Init, Idle, Running
<1>2. "seed" \in Ids /\ "dev" \in Ids /\ "seed" # "dev" /\ {"seed", "dev"} \cap Calls = {}
  BY IdsAssumption DEF Ids
<1>3. RootsRule /\ Tidy /\ (\A c \in Calls : c \notin DOMAIN users /\ GroupsOf(c) = {})
  <2>1. CASE EmptyInit
    BY <2>1 DEF EmptyInit, Nothing, RootsRule, Tidy, GroupsOf
  <2>2. CASE SeedInit(App, Tag, Url, DevRoles)
    <3>1. /\ DOMAIN apps = {"seed"} /\ DOMAIN bundles = {"seed"}
          /\ groups = [i \in {"seed", "dev"} |->
                         IF i = "dev" THEN [name |-> "devs", roles |-> DevRoles]
                         ELSE [name |-> "root", roles |-> RootRoles]]
          /\ users = [i \in {"seed", "dev"} |->
                        IF i = "dev" THEN [login |-> "dev"] ELSE [login |-> "root"]]
          /\ members = {<<"seed", "seed">>, <<"dev", "dev">>}
      BY <2>2 DEF SeedInit, With, Nothing
    <3>2. \A e \in DOMAIN entrypoints :
            entrypoints[e].app = "seed" /\ entrypoints[e].bundle \in {"seed", None}
      BY <2>2 DEF SeedInit, With, Nothing
    <3>3. GroupsOf("seed") = {"seed"} /\ \A c \in Calls : GroupsOf(c) = {}
      BY <1>2, <3>1 DEF GroupsOf
    <3>4. RootsRule
      BY <1>2, <3>1, <3>3 DEF RootsRule
    <3>5. Tidy
      BY <3>1, <3>2 DEF Tidy, References
    <3>. QED
      BY <1>2, <3>1, <3>3, <3>4, <3>5
  <2>. QED
    BY <1>1, <2>1, <2>2
<1>4. AnswersInv
  BY <1>1, <1>3, StatusAssumption
     DEF AnswersInv, Logging, Again, Refusing, People, Statuses
<1>5. CalmInv
  BY <1>1, <1>3, StatusAssumption DEF CalmInv, Checked, FailsOnlyInARace, Statuses, CutOff
<1>. QED
  BY <1>4, <1>5 DEF TruthInv

LEMMA StepTruth ==
  ASSUME StoresInv, MeaningInv, TruthInv, NEW c \in Calls, Step(c)
  PROVE  TruthInv'
BY AuthorizeTruth, LogTruth, CreateAppTruth, UpdateAppTruth, DeleteAppTruth, CreateBundleTruth,
   DeleteBundlesTruth, CreateEntrypointTruth, UpdateEntrypointTruth, DeleteEntrypointTruth,
   DeployReadsTruth, DeployTruth, RespondTruth, CreateGroupTruth, UpdateGroupTruth,
   DeleteGroupTruth, CreateUserTruth, UpdateUserTruth, DeleteUserTruth, BootstrapTruth DEF Step

\* The invariant of the answers holds in every reachable state: what a call has checked is
\* so until it acts, unless another call overlapped or one was cut off.
THEOREM TruthInductive == Spec => []TruthInv
<1>1. Init => TruthInv
  BY InitTruth
<1>2. StoresInv /\ MeaningInv /\ TruthInv /\ [Next]_vars => TruthInv'
  <2>. SUFFICES ASSUME StoresInv, MeaningInv, TruthInv, [Next]_vars
                PROVE  TruthInv'
    OBVIOUS
  <2>1. ASSUME NEW c \in Calls, NEW r \in Requests, NEW by \in Callers(r.op), Start(c, r, by)
        PROVE  TruthInv'
    BY <2>1, StartTruth
  <2>2. ASSUME NEW c \in Calls, Step(c)
        PROVE  TruthInv'
    BY <2>2, StepTruth
  <2>3. ASSUME NEW c \in Calls, Cut(c)
        PROVE  TruthInv'
    BY <2>3, CutTruth
  <2>4. CASE UNCHANGED vars
    BY <2>4, ObjectsTruth DEF vars, db, tables
  <2>. QED
    BY <2>1, <2>2, <2>3, <2>4 DEF Next
<1>. QED
  BY <1>1, <1>2, StoresInductive, MeaningInductive, PTL DEF Spec

\* An answer says what happened, over either storage and however many calls there are: none
\* fails that was not disturbed, but an update of a user's groups; a refused call that was
\* alone has changed nothing, but for a deploy to an invalid address; and what a call that
\* was answered has changed is in the operation log.
THEOREM CallsAlwaysAnswerTruly == Spec => []CallsAnswerTruly
<1>1. StoresInv /\ TruthInv => CallsAnswerTruly
  <2>. SUFFICES ASSUME StoresInv, TruthInv
                PROVE  CallsAnswerTruly
    OBVIOUS
  <2>1. FailsOnlyInARace
    BY DEF TruthInv, CalmInv
  <2>2. RefusedChangesNothing
    BY DEF TruthInv, AnswersInv, Refusing, RefusedChangesNothing
  <2>3. ASSUME NEW c \in Calls, call[c].answer \notin {None, 500, CutOff},
               NEW op \in call[c].wrote \ {"bootstrap"}
        PROVE  <<c, op>> \in logs
    <3>1. Logging(c) /\ ~Running(c)
      BY <2>3 DEF TruthInv, AnswersInv, StoresInv, Own, Preparing
    <3>. QED
      BY <2>3, <3>1 DEF Logging
  <2>4. ChangesAreLogged
    BY <2>3 DEF ChangesAreLogged
  <2>. QED
    BY <2>1, <2>2, <2>4 DEF CallsAnswerTruly
<1>. QED
  BY <1>1, StoresInductive, TruthInductive, PTL

=============================================================================
