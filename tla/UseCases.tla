------------------------------ MODULE UseCases ------------------------------
(***************************************************************************)
(* The use cases of core as the management API and the static server call  *)
(* them.  A use case checks and then acts, with an await and no            *)
(* transaction between one step and the next, so calls interleave at every *)
(* await and a process may die at any of them.  A call is [op, req, pc,    *)
(* ...]: the use case it is in, the request, the await it stands at.       *)
(* DeployBundle runs up to two other use cases; the second waits in rest.  *)
(* Names and configurations are valid (validateAppName and its like answer *)
(* 400 and touch nothing), authentication is enforced, and every token     *)
(* carries a login.                                                        *)
(***************************************************************************)
EXTENDS LegacyStorages, Naturals

CONSTANTS AppNames, Urls, Tags,   \* a set each; App, Url and Tag are the seed's
          App, Url, Tag,
          InvalidUrls,            \* addresses that validateEntrypointUrlMatcher refuses
          MaxCuts                 \* calls that are cut off

ASSUME UseCasesAssumption ==
  /\ App \in AppNames /\ Url \in Urls \ InvalidUrls /\ Tag \in Tags
  /\ None \notin AppNames \cup Urls
  /\ \A e \in Ids, a \in Ids \cup {None} : <<e, a>> # None
  /\ MaxCuts \in Nat

VARIABLES call, cuts

vars == <<db, call, cuts>>

DevRoles == {<<"app-manager", App>>, <<"entrypoint-manager", Url>>, <<"bundle-manager", Tag>>}

Logins == {"root", "dev", "new"}
Bundle == {"seed", None}

-----------------------------------------------------------------------------
(* What the routes ask for. *)

CreateAppRequests == [op : {"createApp"}, name : AppNames]
UpdateAppRequests == [op : {"updateApp"}, id : {"seed"}]
DeleteAppRequests == [op : {"deleteApp"}, id : {"seed"}]
CreateBundleRequests == [op : {"createBundle"}, tag : Tags]
DeleteBundlesRequests == [op : {"deleteBundles"}, tag : Tags]
CreateEntrypointRequests ==
  [op : {"createEntrypoint"}, url : Urls, app : {"seed"}, bundle : Bundle]
UpdateEntrypointRequests == [op : {"updateEntrypoint"}, id : {"seed"}, bundle : Bundle]
DeleteEntrypointRequests == [op : {"deleteEntrypoint"}, id : {"seed"}]
DeployRequests == [op : {"deploy"}, tag : Tags, name : AppNames, url : Urls]
CreateGroupRequests == [op : {"createGroup"}, name : {"root", "new"}, roles : {RootRoles}]
UpdateGroupRequests ==
  [op : {"updateGroup"}, id : {"dev"}, name : {"devs", "new"}, roles : {{}}]
DeleteGroupRequests == [op : {"deleteGroup"}, id : {"dev"}]
CreateUserRequests == [op : {"createUser"}, login : {"new"}, groups : {{}, {"dev"}}]
UpdateUserRequests ==
  [op : {"updateUser"}, id : {"dev"}, groups : {{}, {"seed"}, {"dev"}, {"dev", "seed"}}]
DeleteUserRequests == [op : {"deleteUser"}, id : {"dev"}]
RespondRequests == [op : {"respond"}, url : Urls]
BootstrapRequests == [op : {"bootstrap"}]

Requests ==
  UNION {CreateAppRequests, UpdateAppRequests, DeleteAppRequests,
         CreateBundleRequests, DeleteBundlesRequests, CreateEntrypointRequests,
         UpdateEntrypointRequests, DeleteEntrypointRequests, DeployRequests,
         CreateGroupRequests, UpdateGroupRequests, DeleteGroupRequests,
         CreateUserRequests, UpdateUserRequests, DeleteUserRequests,
         RespondRequests, BootstrapRequests}

\* The use cases that read what they change before they ask who is calling.
FindsFirst == {"updateApp", "deleteApp", "createEntrypoint", "updateEntrypoint",
               "deleteEntrypoint", "deploy", "respond", "bootstrap"}

First(op) == IF op \in FindsFirst THEN "find" ELSE "auth"

\* handleUsecaseErrors: the statuses of the errors the use cases throw; what
\* a storage throws, and StoragesInconsistencyError, answer 500.
CutOff == 0   \* no answer
Statuses == {200, 400, 403, 404, 409, 500, CutOff}
Answers == {None} \cup Statuses

ASSUME StatusAssumption == None \notin Statuses /\ None \notin Logins

-----------------------------------------------------------------------------
(* The machine of one call. *)

\* asked is the route's request, req that of the use case it is in; roles and
\* saw are what it read; wrote, the use cases whose changes it made; alone says
\* that no other call ran meanwhile.
Idle == [op |-> None, asked |-> None, req |-> None, by |-> None, pc |-> "idle",
         rest |-> None, roles |-> {}, saw |-> None, wrote |-> {}, answer |-> None,
         alone |-> TRUE]

Running(c) == call[c].pc \notin {"idle", "done"}
At(c, op, pc) == call[c].op = op /\ call[c].pc = pc
Req(c) == call[c].req

Goto(c, pc) == call' = [call EXCEPT ![c].pc = pc]
See(c, pc, what) == call' = [call EXCEPT ![c].pc = pc, ![c].saw = what]
Answer(c, status) ==
  call' = [call EXCEPT ![c].pc = "done", ![c].answer = status, ![c].rest = None]

\* await the storage, and go on when it finds what it must.
Ensure(c, holds, pc, status) ==
  /\ IF holds THEN Goto(c, pc) ELSE Answer(c, status)
  /\ UNCHANGED <<db, cuts>>

\* A statement that a constraint refuses throws, and nothing is changed.
Attempt(c, allowed, pc, change, others) ==
  /\ UNCHANGED <<backend, logs, cuts, others>>
  /\ IF allowed
     THEN change /\ call' = [call EXCEPT ![c].pc = pc, ![c].wrote = @ \cup {call[c].op}]
     ELSE UNCHANGED tables /\ Answer(c, 500)

Callers(op) == IF op \in {"respond", "bootstrap"} THEN {None} ELSE {"root", "dev"}

Start(c, r, by) ==
  LET others == {d \in Calls : Running(d)}
  IN  /\ call[c] = Idle
      /\ call' = [d \in Calls |->
            CASE d = c -> [Idle EXCEPT !.op = r.op, !.asked = r, !.req = r, !.by = by,
                                       !.pc = First(r.op), !.alone = others = {}]
              [] d \in others -> [call[d] EXCEPT !.alone = FALSE]
              [] OTHER -> call[d]]
      /\ UNCHANGED <<db, cuts>>

-----------------------------------------------------------------------------
(* Authorizer and OperationLogger. *)

Manages(roles, kind, target) == <<"root", None>> \in roles \/ <<kind, target>> \in roles

\* Mutated form: managing the address is enough, whatever the application.
PermittedByAddress(c, roles) ==
  \/ <<"root", None>> \in roles
  \/ /\ call[c].op \in {"createEntrypoint", "updateEntrypoint", "deleteEntrypoint"}
     /\ \E url \in Urls : <<"entrypoint-manager", url>> \in roles
                         /\ url = IF call[c].op = "createEntrypoint" THEN Req(c).url ELSE call[c].saw

\* saw is what the use case found before it asks: a name or an address.
Permitted(c, roles) ==
  CASE call[c].op \in {"updateApp", "deleteApp"} ->
         Manages(roles, "app-manager", call[c].saw)
    [] call[c].op \in {"createBundle", "deleteBundles"} ->
         Manages(roles, "bundle-manager", Req(c).tag)
    [] call[c].op = "createEntrypoint" ->
         /\ Manages(roles, "app-manager", call[c].saw)
         /\ Manages(roles, "entrypoint-manager", Req(c).url)
    [] call[c].op \in {"updateEntrypoint", "deleteEntrypoint"} ->
         Manages(roles, "entrypoint-manager", call[c].saw)
    [] OTHER -> <<"root", None>> \in roles

\* Where a use case goes once it is authorized.
Authorized(op) ==
  CASE op \in {"updateApp", "deleteEntrypoint"} -> "act"
    [] op = "createBundle" -> IF Constrained THEN "upload" ELSE "act"
    [] op \in {"deleteBundles", "updateGroup", "deleteGroup", "updateUser", "deleteUser"} -> "find"
    [] OTHER -> "check"

OneOf(ids) == IF ids = {} THEN {None} ELSE ids

Authorize(c) ==
  /\ call[c].pc = "auth"
  /\ \E caller \in OneOf(UserWith(call[c].by)) :
       LET roles == RolesOf(caller)
       IN  CASE caller = None -> Answer(c, 403)
             [] caller # None /\ ~RolesReadable(caller) -> Answer(c, 500)
             [] caller # None /\ RolesReadable(caller) /\ ~Permitted(c, roles) -> Answer(c, 403)
             [] OTHER -> call' = [call EXCEPT ![c].roles = roles, ![c].pc = Authorized(call[c].op)]
  /\ UNCHANGED <<db, cuts>>

\* A deploy runs a use case now, and perhaps another when that is done.
Runs(c, now, then) ==
  call' = [call EXCEPT ![c].op = now.op, ![c].req = now, ![c].rest = then,
                       ![c].pc = First(now.op), ![c].saw = None]

\* logOperation, and what DeployBundle has left to do.
Log(c) ==
  /\ call[c].pc = "log"
  /\ LogsCreateOne(c, call[c].op)
  /\ IF call[c].rest = None THEN Answer(c, 200) ELSE Runs(c, call[c].rest, None)
  /\ UNCHANGED <<backend, tables, cuts>>

-----------------------------------------------------------------------------
(* Applications *)

CreateApp(c) ==
  \/ /\ At(c, "createApp", "check")
     /\ Ensure(c, AppNamed(Req(c).name) = {}, "act", 409)
  \/ /\ At(c, "createApp", "act")
     /\ Attempt(c, AppsCreatable(Req(c).name), "log", AppsCreateOne(c, Req(c).name),
                <<bundles, files, entrypoints, groups, users, members>>)

FindApp(c, id) ==
  /\ IF id \in DOMAIN apps THEN See(c, "auth", apps[id].name) ELSE Answer(c, 404)
  /\ UNCHANGED <<db, cuts>>

UpdateApp(c) ==
  \/ At(c, "updateApp", "find") /\ FindApp(c, Req(c).id)
  \/ /\ At(c, "updateApp", "act")
     /\ Attempt(c, TRUE, "log", AppsUpdateOne(Req(c).id, c),
                <<bundles, files, entrypoints, groups, users, members>>)

DeleteApp(c) ==
  \/ At(c, "deleteApp", "find") /\ FindApp(c, Req(c).id)
  \/ /\ At(c, "deleteApp", "check")
     /\ Ensure(c, \A e \in DOMAIN entrypoints : entrypoints[e].app # Req(c).id, "act", 409)
  \/ /\ At(c, "deleteApp", "act")
     /\ Attempt(c, AppsDeletable(Req(c).id), "log", AppsDeleteOne(Req(c).id),
                <<bundles, files, entrypoints, groups, users, members>>)

-----------------------------------------------------------------------------
(* Bundles *)

Upload(c) ==
  /\ At(c, "createBundle", "upload")
  /\ \E asset \in Assets :
       /\ <<c, asset>> \notin files
       /\ files' = files \cup {<<c, asset>>}
       /\ Goto(c, IF {a \in Assets : <<c, a>> \notin files} = {asset} THEN "act" ELSE "upload")
  /\ UNCHANGED <<backend, apps, bundles, entrypoints, groups, users, members, logs, cuts>>

CreateBundle(c) ==
  \/ Upload(c)
  \/ /\ At(c, "createBundle", "act")
     /\ IF Constrained
        THEN Attempt(c, TRUE, "log", BundlesCreateRow(c, Req(c).tag),
                     <<apps, files, entrypoints, groups, users, members>>)
        ELSE Attempt(c, TRUE, "log", BundlesCreateInMemory(c, Req(c).tag),
                     <<apps, entrypoints, groups, users, members>>)

\* Mutated form: no entrypoint counts as using them.
InUseByNone(ids) == ids = {}

InUse(ids) == \E e \in DOMAIN entrypoints : entrypoints[e].bundle \in ids

\* deleteMany reads the rows, removes the objects and then the rows.
Unlink(c) ==
  /\ At(c, "deleteBundles", "unlink")
  /\ LET left == FilesOf(call[c].saw)
     IN  \/ /\ left = {} /\ Goto(c, "act") /\ UNCHANGED files
         \/ \E f \in left : files' = files \ {f} /\ UNCHANGED call
  /\ UNCHANGED <<backend, apps, bundles, entrypoints, groups, users, members, logs, cuts>>

DeleteBundles(c) ==
  \/ /\ At(c, "deleteBundles", "find")
     /\ See(c, "check", Tagged(Req(c).tag))
     /\ UNCHANGED <<db, cuts>>
  \/ /\ At(c, "deleteBundles", "check")
     /\ Ensure(c, ~InUse(call[c].saw), IF Constrained THEN "unlink" ELSE "act", 409)
  \/ Unlink(c)
  \/ /\ At(c, "deleteBundles", "act")
     /\ IF Constrained
        THEN Attempt(c, BundlesDeletable(call[c].saw), "log", BundlesDeleteRows(call[c].saw),
                     <<apps, files, entrypoints, groups, users, members>>)
        ELSE Attempt(c, TRUE, "log", BundlesDeleteInMemory(call[c].saw),
                     <<apps, entrypoints, groups, users, members>>)

-----------------------------------------------------------------------------
(* Entrypoints *)

BundleFound(bundle) == bundle = None \/ bundle \in DOMAIN bundles

CreateEntrypoint(c) ==
  \/ At(c, "createEntrypoint", "find") /\ FindApp(c, Req(c).app)
  \/ /\ At(c, "createEntrypoint", "check")
     /\ Ensure(c, Req(c).url \notin InvalidUrls /\ BundleFound(Req(c).bundle), "checkUrl",
               IF Req(c).url \in InvalidUrls THEN 400 ELSE 404)
  \/ /\ At(c, "createEntrypoint", "checkUrl")
     /\ Ensure(c, EntrypointAt(Req(c).url) = {}, "act", 409)
  \/ /\ At(c, "createEntrypoint", "act")
     /\ Attempt(c, EntrypointsCreatable(Req(c).url, Req(c).app, Req(c).bundle), "log",
                EntrypointsCreateOne(c, Req(c).url, Req(c).app, Req(c).bundle),
                <<apps, bundles, files, groups, users, members>>)

FindEntrypoint(c) ==
  /\ IF Req(c).id \in DOMAIN entrypoints THEN See(c, "auth", entrypoints[Req(c).id].url)
     ELSE Answer(c, 404)
  /\ UNCHANGED <<db, cuts>>

UpdateEntrypoint(c) ==
  \/ At(c, "updateEntrypoint", "find") /\ FindEntrypoint(c)
  \/ /\ At(c, "updateEntrypoint", "check")
     /\ Ensure(c, BundleFound(Req(c).bundle), "act", 404)
  \/ /\ At(c, "updateEntrypoint", "act")
     /\ Attempt(c, EntrypointsUpdatable(Req(c).id, Req(c).bundle), "log",
                EntrypointsUpdateOne(Req(c).id, Req(c).bundle),
                <<apps, bundles, files, groups, users, members>>)

DeleteEntrypoint(c) ==
  \/ At(c, "deleteEntrypoint", "find") /\ FindEntrypoint(c)
  \/ /\ At(c, "deleteEntrypoint", "act")
     /\ Attempt(c, TRUE, "log", EntrypointsDeleteOne(Req(c).id),
                <<apps, bundles, files, groups, users, members>>)

-----------------------------------------------------------------------------
(* DeployBundle reads the bundle, the application and the entrypoint at    *)
(* once, in any order, and then runs the use cases that are needed.        *)

Reads == {"bundle", "app", "entrypoint"}
Readings == UNION {[some -> Ids \cup {None} \cup (Ids \X (Ids \cup {None}))] :
                     some \in SUBSET Reads}

ASSUME ReadsAssumption == None \notin Readings

Seen(c) == IF call[c].saw = None THEN Nothing ELSE call[c].saw

Read(c, what, id) ==
  /\ what \notin DOMAIN Seen(c)
  /\ See(c, "find", With(Seen(c), what, id))

DeployReads(c) ==
  /\ At(c, "deploy", "find")
  /\ \/ \E b \in OneOf(LatestTagged(Req(c).tag)) : Read(c, "bundle", b)
     \/ \E a \in OneOf(AppNamed(Req(c).name)) : Read(c, "app", a)
     \/ \E e \in OneOf(EntrypointAt(Req(c).url)) :
          Read(c, "entrypoint", IF e = None THEN None ELSE <<e, entrypoints[e].app>>)
  /\ UNCHANGED <<db, cuts>>

Mismatched(seen) ==
  seen["entrypoint"] # None /\ (seen["app"] = None \/ seen["app"] # seen["entrypoint"][2])

\* The use cases to run: CreateApp, and CreateEntrypoint or UpdateEntrypoint.
Deployment(c, seen) ==
  LET link(app) == [op |-> "createEntrypoint", url |-> Req(c).url, app |-> app,
                    bundle |-> seen["bundle"]]
  IN  CASE seen["entrypoint"] # None ->
             [now |-> [op |-> "updateEntrypoint", id |-> seen["entrypoint"][1],
                       bundle |-> seen["bundle"]],
              then |-> None]
        [] seen["entrypoint"] = None /\ seen["app"] # None ->
             [now |-> link(seen["app"]), then |-> None]
        [] OTHER -> [now |-> [op |-> "createApp", name |-> Req(c).name], then |-> link(c)]

\* Mutated form: the application is created before the bundle is looked for.
DeployAppFirst(c) ==
  /\ At(c, "deploy", "find")
  /\ DOMAIN Seen(c) = Reads
  /\ LET seen == Seen(c)
         create == [op |-> "createApp", name |-> Req(c).name]
     IN  CASE Mismatched(seen) -> Answer(c, 400)
           [] seen["bundle"] = None /\ seen["app"] # None -> Answer(c, 404)
           [] seen["app"] = None /\ ~Mismatched(seen) -> Runs(c, create, Req(c))
           [] OTHER -> Runs(c, Deployment(c, seen).now, Deployment(c, seen).then)
  /\ UNCHANGED <<db, cuts>>

Deploy(c) ==
  /\ At(c, "deploy", "find")
  /\ DOMAIN Seen(c) = Reads
  /\ LET seen == Seen(c)
     IN  CASE seen["bundle"] = None -> Answer(c, 404)
           [] seen["bundle"] # None /\ Mismatched(seen) -> Answer(c, 400)
           [] OTHER -> Runs(c, Deployment(c, seen).now, Deployment(c, seen).then)
  /\ UNCHANGED <<db, cuts>>

-----------------------------------------------------------------------------
(* RespondToEndpointRequest, for a path that the fallback asset answers.   *)

Respond(c) ==
  /\ call[c].op = "respond"
  /\ \/ /\ call[c].pc = "find"
        /\ \E e \in OneOf(EntrypointAt(Req(c).url)) :
             IF e = None \/ entrypoints[e].bundle = None THEN Answer(c, 404)
             ELSE See(c, "bundle", entrypoints[e])
     \/ /\ call[c].pc = "bundle"
        /\ IF call[c].saw.bundle \in DOMAIN bundles THEN Goto(c, "content") ELSE Answer(c, 500)
     \/ /\ call[c].pc = "content"
        /\ \E asset \in Assets :
             IF <<call[c].saw.bundle, asset>> \in files THEN Goto(c, "config") ELSE Answer(c, 500)
     \/ /\ call[c].pc = "config"
        /\ Answer(c, IF call[c].saw.app \in DOMAIN apps THEN 200 ELSE 500)
  /\ UNCHANGED <<db, cuts>>

-----------------------------------------------------------------------------
(* Groups and users *)

CreateGroup(c) ==
  \/ /\ At(c, "createGroup", "check")
     /\ Ensure(c, GroupNamed(Req(c).name) = {}, "act", 409)
  \/ /\ At(c, "createGroup", "act")
     /\ Attempt(c, GroupsCreatable(Req(c).name), "log",
                GroupsCreateOne(c, Req(c).name, Req(c).roles),
                <<apps, bundles, files, entrypoints, users, members>>)

FindGroup(c, pc) ==
  /\ IF Req(c).id \in DOMAIN groups THEN See(c, pc, groups[Req(c).id].name) ELSE Answer(c, 404)
  /\ UNCHANGED <<db, cuts>>

UpdateGroup(c) ==
  \/ At(c, "updateGroup", "find") /\ FindGroup(c, "check")
  \/ /\ At(c, "updateGroup", "check")
     /\ Ensure(c, Req(c).name = call[c].saw \/ GroupNamed(Req(c).name) = {}, "act", 409)
  \/ /\ At(c, "updateGroup", "act")
     /\ Attempt(c, GroupsUpdatable(Req(c).id, Req(c).name), "log",
                GroupsUpdateOne(Req(c).id, Req(c).name, Req(c).roles),
                <<apps, bundles, files, entrypoints, users, members>>)

DeleteGroup(c) ==
  \/ At(c, "deleteGroup", "find") /\ FindGroup(c, "check")
  \/ /\ At(c, "deleteGroup", "check")
     /\ Ensure(c, \A m \in members : m[2] # Req(c).id, "act", 409)
  \/ /\ At(c, "deleteGroup", "act")
     /\ Attempt(c, GroupsDeletable(Req(c).id), "log", GroupsDeleteOne(Req(c).id),
                <<apps, bundles, files, entrypoints, users, members>>)

\* The row, then the pairs of the relation, one statement each; in memory both at once.
InsertUser(c, login, gs, next) ==
  IF Constrained
  THEN Attempt(c, UsersCreatable(login), IF gs = {} THEN next ELSE "link", UsersCreateRow(c, login),
               <<apps, bundles, files, entrypoints, groups, members>>)
  ELSE Attempt(c, TRUE, next, UsersCreateRow(c, login) /\ MembersInsert(c, gs),
               <<apps, bundles, files, entrypoints, groups>>)

LinkUser(c, user, gs, next) ==
  Attempt(c, MembersInsertable(user, gs), next, MembersInsert(user, gs),
          <<apps, bundles, files, entrypoints, groups, users>>)

GroupsFound(gs) == gs \subseteq DOMAIN groups

CreateUser(c) ==
  \/ /\ At(c, "createUser", "check")
     /\ Ensure(c, UserWith(Req(c).login) = {}, "checkGroups", 409)
  \/ /\ At(c, "createUser", "checkGroups")
     /\ Ensure(c, GroupsFound(Req(c).groups), "act", 404)
  \/ /\ At(c, "createUser", "act")
     /\ InsertUser(c, Req(c).login, Req(c).groups, "log")
  \/ /\ At(c, "createUser", "link")
     /\ LinkUser(c, c, Req(c).groups, "log")

FindUser(c, pc) == Ensure(c, Req(c).id \in DOMAIN users, pc, 404)

\* The users' row; then the requested pairs are inserted; then the others go.
ReplaceGroups(c) ==
  \/ /\ At(c, "updateUser", "act")
     /\ IF Constrained
        THEN Goto(c, IF Req(c).groups = {} THEN "unlink" ELSE "link") /\ UNCHANGED <<db, cuts>>
        ELSE Attempt(c, TRUE, "log", UsersUpdateInMemory(Req(c).id, Req(c).groups),
                     <<apps, bundles, files, entrypoints, groups>>)
  \/ At(c, "updateUser", "link") /\ LinkUser(c, Req(c).id, Req(c).groups, "unlink")
  \/ /\ At(c, "updateUser", "unlink")
     /\ Attempt(c, TRUE, "log", MembersKeepOnly(Req(c).id, Req(c).groups),
                <<apps, bundles, files, entrypoints, groups, users>>)

UpdateUser(c) ==
  \/ At(c, "updateUser", "find") /\ FindUser(c, "check")
  \/ /\ At(c, "updateUser", "check")
     /\ Ensure(c, GroupsFound(Req(c).groups), "act", 404)
  \/ ReplaceGroups(c)

DeleteUser(c) ==
  \/ At(c, "deleteUser", "find") /\ FindUser(c, "act")
  \/ /\ At(c, "deleteUser", "act")
     /\ Attempt(c, TRUE, "log", UsersDeleteOne(Req(c).id),
                <<apps, bundles, files, entrypoints, groups>>)

-----------------------------------------------------------------------------
(* CreateRootUserAndGroup, which every start of a server runs; it is       *)
(* neither authorized nor logged.                                          *)

Bootstrap(c) ==
  \/ /\ At(c, "bootstrap", "find")
     /\ \E g \in OneOf(GroupNamed("root")) :
          IF g = None THEN See(c, "group", c) ELSE See(c, "user", g)
     /\ UNCHANGED <<db, cuts>>
  \/ /\ At(c, "bootstrap", "group")
     /\ Attempt(c, GroupsCreatable("root"), "user", GroupsCreateOne(c, "root", RootRoles),
                <<apps, bundles, files, entrypoints, users, members>>)
  \/ /\ At(c, "bootstrap", "user")
     /\ IF UserWith("root") = {} THEN Goto(c, "act") ELSE Answer(c, 200)
     /\ UNCHANGED <<db, cuts>>
  \/ At(c, "bootstrap", "act") /\ InsertUser(c, "root", {call[c].saw}, "end")
  \/ At(c, "bootstrap", "link") /\ LinkUser(c, c, {call[c].saw}, "end")
  \/ At(c, "bootstrap", "end") /\ Answer(c, 200) /\ UNCHANGED <<db, cuts>>

-----------------------------------------------------------------------------
(* The process dies, or the storage does not answer; the answer is lost.   *)

Cut(c) ==
  /\ Running(c) /\ cuts < MaxCuts
  /\ cuts' = cuts + 1
  /\ Answer(c, CutOff)
  /\ UNCHANGED db

Init ==
  /\ backend \in {"pg", "memory"}
  /\ EmptyInit \/ SeedInit(App, Tag, Url, DevRoles)
  /\ logs = {}
  /\ call = [c \in Calls |-> Idle]
  /\ cuts = 0

Step(c) ==
  \/ Authorize(c) \/ Log(c)
  \/ CreateApp(c) \/ UpdateApp(c) \/ DeleteApp(c)
  \/ CreateBundle(c) \/ DeleteBundles(c)
  \/ CreateEntrypoint(c) \/ UpdateEntrypoint(c) \/ DeleteEntrypoint(c)
  \/ DeployReads(c) \/ Deploy(c) \/ Respond(c)
  \/ CreateGroup(c) \/ UpdateGroup(c) \/ DeleteGroup(c)
  \/ CreateUser(c) \/ UpdateUser(c) \/ DeleteUser(c)
  \/ Bootstrap(c)

Next ==
  \E c \in Calls :
     \/ \E r \in Requests : \E by \in Callers(r.op) : Start(c, r, by)
     \/ Step(c)
     \/ Cut(c)

Spec == Init /\ [][Next]_vars

-----------------------------------------------------------------------------
(* Properties *)

\* Type invariant.  Only in memory may a row lack what names it.
UseCasesTypeOK ==
  LET orNone == IF Constrained THEN {} ELSE {None}
  IN  /\ DOMAIN apps \cup DOMAIN bundles \cup DOMAIN entrypoints
           \cup DOMAIN groups \cup DOMAIN users \subseteq Ids
      /\ \A i \in DOMAIN apps : apps[i].name \in AppNames \cup orNone
      /\ \A i \in DOMAIN bundles : bundles[i].tag \in Tags
      /\ \A i \in DOMAIN entrypoints :
           entrypoints[i] \in [url : (Urls \ InvalidUrls) \cup orNone,
                                app : Ids \cup orNone, bundle : Ids \cup {None}]
      /\ \A i \in DOMAIN users : users[i].login \in Logins \cup orNone
      /\ files \subseteq Ids \X Assets
      /\ members \subseteq Ids \X Ids
      /\ logs \subseteq Calls \X {r.op : r \in Requests}
      /\ \A c \in Calls : call[c].answer \in Answers

\* What PostgreSQL's tables hold at any time: names, addresses and logins name
\* one row, and whatever a row refers to is there.
TablesAgree ==
  Constrained =>
    /\ \A i, j \in DOMAIN apps : apps[i].name = apps[j].name => i = j
    /\ \A i, j \in DOMAIN entrypoints : entrypoints[i].url = entrypoints[j].url => i = j
    /\ \A i, j \in DOMAIN groups : groups[i].name = groups[j].name => i = j
    /\ \A i, j \in DOMAIN users : users[i].login = users[j].login => i = j
    /\ \A e \in DOMAIN entrypoints : References(entrypoints[e].app, entrypoints[e].bundle)
    /\ members \subseteq (DOMAIN users) \X (DOMAIN groups)

Undisturbed == cuts = 0 /\ \A c \in Calls : call[c].alone

\* The checks of a use case cover what its changes need: as long as no two calls
\* overlap and none is cut off, none runs into a constraint or an inconsistency of
\* the storages.  (What overlapping calls leave behind may fail a later one.)
\* UpdateUser is the exception: it inserts the groups the user is in already.
FailsOnlyInARace ==
  \A c \in Calls :
    call[c].answer = 500 /\ Undisturbed =>
      call[c].op = "updateUser" /\ Req(c).groups # {}

\* The same of UpdateUser alone, which answers 200 or 404 by its route.
UpdateUserAnswers ==
  \A c \in Calls :
    call[c].op = "updateUser" /\ Undisturbed => call[c].answer # 500

\* A refused call has changed nothing, but for a deploy to an invalid address,
\* which has created the application by then.
RefusedChangesNothing ==
  \A c \in Calls :
    call[c].answer \in {400, 403, 404, 409} /\ call[c].alone =>
      \/ call[c].wrote = {}
      \/ call[c].asked.op = "deploy" /\ call[c].asked.url \in InvalidUrls

\* A deletion of the bundle that has begun to remove objects and has not said, nor
\* will, that it is done.
Removing(c, b) ==
  /\ call[c].op = "deleteBundles" /\ call[c].saw # None /\ b \in call[c].saw
  /\ call[c].pc \in {"unlink", "act"} \/ call[c].answer \in {500, CutOff}

\* An entrypoint's bundle has all its assets, unless a deletion that found the
\* bundle unused was overlapped by another call or cut off; and then it is still
\* under way or it failed.  A deletion that answered that it is done, or that the
\* bundle is in use, has cost no linked bundle its content.
LinkedBundlesAreComplete ==
  \A e \in DOMAIN entrypoints :
    LET b == entrypoints[e].bundle
    IN  b \in DOMAIN bundles /\ ~Complete(b) =>
          \E c \in Calls : Removing(c, b) /\ (~call[c].alone \/ call[c].answer = CutOff)

\* Objects are there for a row, or for the row that an unfinished upload would
\* have made: a deletion that fails half way can be made again.
ObjectsHaveRows ==
  \A f \in files :
    \/ f[1] \in DOMAIN bundles
    \/ /\ f[1] \in Calls /\ call[f[1]].op = "createBundle"
       /\ call[f[1]].pc \in {"upload", "act"} \/ call[f[1]].answer = CutOff

\* What a call has changed is in the operation log once it is answered, unless
\* it was cut off or the second of its statements failed.
ChangesAreLogged ==
  \A c \in Calls :
    call[c].answer \notin {None, 500, CutOff} =>
      \A op \in call[c].wrote \ {"bootstrap"} : <<c, op>> \in logs

Makes(c, change) == call'[c] # call[c] /\ change

Holds(roles, kind, target) == target = None \/ Manages(roles, kind, target)

AuthorizedChange(c) ==
  LET roles == call[c].roles
      op == call[c].op
  IN  Makes(c, tables' # tables) /\ op # "bootstrap" =>
        CASE op \in {"updateApp", "deleteApp"} ->
               Req(c).id \in DOMAIN apps => Holds(roles, "app-manager", apps[Req(c).id].name)
          [] op \in {"createBundle", "deleteBundles"} ->
               Manages(roles, "bundle-manager", Req(c).tag)
          [] op = "createEntrypoint" ->
               /\ Manages(roles, "entrypoint-manager", Req(c).url)
               /\ Req(c).app \in DOMAIN apps =>
                    Holds(roles, "app-manager", apps[Req(c).app].name)
          [] op \in {"updateEntrypoint", "deleteEntrypoint"} ->
               Req(c).id \in DOMAIN entrypoints =>
                 Holds(roles, "entrypoint-manager", entrypoints[Req(c).id].url)
          [] OTHER -> <<"root", None>> \in roles

\* A change of a row is made by a caller who was found to hold the role for that
\* row, as it is named now, whatever was created, renamed or removed meanwhile.
\* (A row that an update of memory-storages brought back has no name.)
ChangesAreAuthorized == [][\A c \in Calls : AuthorizedChange(c)]_vars

DeployedWhereAsked(c) ==
  LET asked == call[c].asked
  IN  Constrained /\ Makes(c, entrypoints' # entrypoints) /\ asked.op = "deploy" =>
        \E e \in DOMAIN entrypoints' :
          /\ Without(entrypoints', {e}) = Without(entrypoints, {e})
          /\ entrypoints'[e].url = asked.url
          /\ apps[entrypoints'[e].app].name = asked.name
          /\ bundles[entrypoints'[e].bundle].tag = asked.tag

\* A deploy sets the one entrypoint at the address it names, of the application
\* it names, to a bundle of the tag it names, whoever else deploys meanwhile.
DeploysWhereAsked == [][\A c \in Calls : DeployedWhereAsked(c)]_vars

KeepsOrReplaces(u) ==
  \/ GroupsOf(u) \subseteq GroupsOf(u)'
  \/ \E c \in Calls :
       /\ call'[c] # call[c] /\ call[c].op = "updateUser"
       /\ GroupsOf(u)' = Req(c).groups \/ ~call[c].alone

\* A user loses groups only when an update is complete: as long as it is not,
\* or when it fails half way, the user has all of the old groups.
GroupsLostWhenReplaced ==
  [][\A u \in DOMAIN users \cap DOMAIN users' : KeepsOrReplaces(u)]_vars

\* Rows agree with rows, and objects with rows, whatever overlapped or was cut off.
StoresAgree ==
  /\ UseCasesTypeOK
  /\ TablesAgree
  /\ LinkedBundlesAreComplete
  /\ ObjectsHaveRows

\* An answer says what happened: an error that nothing was changed, and was there for
\* a reason, anything else what the log says too.
CallsAnswerTruly == FailsOnlyInARace /\ RefusedChangesNothing /\ ChangesAreLogged

\* Every change is one that its caller may make and meant to make.
ChangesAreMeant == ChangesAreAuthorized /\ DeploysWhereAsked /\ GroupsLostWhenReplaced

=============================================================================
