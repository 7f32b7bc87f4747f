--------------------------- MODULE LegacyStorages ---------------------------
(***************************************************************************)
(* The storages behind the use cases of core: five tables, the objects of  *)
(* the bundles' assets and the operation log, in the two builds the server *)
(* chooses from.  "pg" is pg-s3-storages: every statement commits by       *)
(* itself, PostgreSQL enforces the constraints of the first migrations,    *)
(* and the assets are objects of a bucket.  "memory" is memory-storages:   *)
(* plain maps, no constraint, and an update of a row that is gone makes a  *)
(* row of the patch alone.  Ids are fresh (generateId): a row takes the    *)
(* call that creates it as its id.  Texts, dates, hashes and the           *)
(* configurations' content are left out.                                   *)
(***************************************************************************)
EXTENDS FiniteSets

CONSTANTS Calls,     \* calls of use cases
          Assets,    \* paths of the assets of every bundle
          None

Ids == Calls \cup {"seed", "dev"}

ASSUME IdsAssumption ==
  /\ {"seed", "dev"} \cap Calls = {}
  /\ None \notin Ids
  /\ \A ids \in SUBSET Ids : ids # None

VARIABLES backend,      \* "pg" or "memory"
          apps,         \* id -> [name, conf]: conf is who wrote the configuration last
          bundles,      \* id -> [tag]: the name:tag combination
          files,        \* <<bundle, asset>> that have content
          entrypoints,  \* id -> [url, app, bundle]
          groups,       \* id -> [name, roles]
          users,        \* id -> [login]: the pair of idp and idpId
          members,      \* <<user, group>>
          logs          \* <<call, operation>>

tables == <<apps, bundles, files, entrypoints, groups, users, members>>
db == <<backend, tables, logs>>

Constrained == backend = "pg"

\* An update of the maps of memory-storages: {...row, ...defaults(patch, row)}.
With(table, id, row) ==
  [i \in DOMAIN table \cup {id} |-> IF i = id THEN row ELSE table[i]]
Without(table, ids) == [i \in DOMAIN table \ ids |-> table[i]]
Nothing == [i \in {} |-> None]

-----------------------------------------------------------------------------
(* apps *)

AppNamed(name) == {i \in DOMAIN apps : apps[i].name = name}

AppsCreatable(name) == Constrained => AppNamed(name) = {}

AppsCreateOne(id, name) == apps' = With(apps, id, [name |-> name, conf |-> id])

AppsUpdateInMemory(id, by) ==
  With(apps, id, [name |-> IF id \in DOMAIN apps THEN apps[id].name ELSE None, conf |-> by])

AppsUpdateOne(id, by) ==
  apps' = IF Constrained /\ id \notin DOMAIN apps THEN apps ELSE AppsUpdateInMemory(id, by)

AppsDeletable(id) ==
  Constrained => \A e \in DOMAIN entrypoints : entrypoints[e].app # id

AppsDeleteOne(id) == apps' = Without(apps, {id})

-----------------------------------------------------------------------------
(* bundles and their objects *)

Tagged(tag) == {i \in DOMAIN bundles : bundles[i].tag = tag}
FilesOf(ids) == {f \in files : f[1] \in ids}
Complete(id) == \A asset \in Assets : <<id, asset>> \in files

\* findLatestByNameAndTag: a bundle that a call made is later than the seed.
LatestTagged(tag) ==
  LET made == Tagged(tag) \ {"seed"}
  IN  IF made # {} THEN made ELSE Tagged(tag)

BundlesCreateRow(id, tag) == bundles' = With(bundles, id, [tag |-> tag])

BundlesCreateInMemory(id, tag) ==
  /\ BundlesCreateRow(id, tag)
  /\ files' = files \cup ({id} \X Assets)

BundlesDeletable(ids) ==
  Constrained => \A e \in DOMAIN entrypoints : entrypoints[e].bundle \notin ids

BundlesDeleteRows(ids) == bundles' = Without(bundles, ids)

BundlesDeleteInMemory(ids) ==
  /\ BundlesDeleteRows(ids)
  /\ files' = files \ FilesOf(ids)

-----------------------------------------------------------------------------
(* entrypoints *)

EntrypointAt(url) == {i \in DOMAIN entrypoints : entrypoints[i].url = url}

References(app, bundle) ==
  /\ app \in DOMAIN apps
  /\ bundle \in DOMAIN bundles \cup {None}

EntrypointsCreatable(url, app, bundle) ==
  Constrained => EntrypointAt(url) = {} /\ References(app, bundle)

EntrypointsCreateOne(id, url, app, bundle) ==
  entrypoints' = With(entrypoints, id, [url |-> url, app |-> app, bundle |-> bundle])

EntrypointsUpdatable(id, bundle) ==
  Constrained => (id \in DOMAIN entrypoints => bundle \in DOMAIN bundles \cup {None})

EntrypointsUpdateInMemory(id, bundle) ==
  With(entrypoints, id,
       IF id \in DOMAIN entrypoints THEN [entrypoints[id] EXCEPT !.bundle = bundle]
                                    ELSE [url |-> None, app |-> None, bundle |-> bundle])

EntrypointsUpdateOne(id, bundle) ==
  entrypoints' = IF Constrained /\ id \notin DOMAIN entrypoints
                 THEN entrypoints ELSE EntrypointsUpdateInMemory(id, bundle)

EntrypointsDeleteOne(id) == entrypoints' = Without(entrypoints, {id})

-----------------------------------------------------------------------------
(* groups, users and their relation *)

GroupNamed(name) == {i \in DOMAIN groups : groups[i].name = name}

GroupsCreatable(name) == Constrained => GroupNamed(name) = {}

GroupsCreateOne(id, name, roles) ==
  groups' = With(groups, id, [name |-> name, roles |-> roles])

GroupsUpdatable(id, name) ==
  Constrained => (id \in DOMAIN groups => GroupNamed(name) \subseteq {id})

GroupsUpdateInMemory(id, name, roles) == With(groups, id, [name |-> name, roles |-> roles])

GroupsUpdateOne(id, name, roles) ==
  groups' = IF Constrained /\ id \notin DOMAIN groups
            THEN groups ELSE GroupsUpdateInMemory(id, name, roles)

GroupsDeletable(id) == Constrained => \A m \in members : m[2] # id

GroupsDeleteOne(id) == groups' = Without(groups, {id})

UserWith(login) == {i \in DOMAIN users : users[i].login = login}
GroupsOf(id) == {g \in Ids : <<id, g>> \in members}

\* findOneWithRolesByIdpAndIdpId; in memory a group that is gone throws.
RolesReadable(id) == Constrained \/ GroupsOf(id) \subseteq DOMAIN groups
RolesOf(id) == UNION {groups[g].roles : g \in GroupsOf(id) \cap DOMAIN groups}

UsersCreatable(login) == Constrained => UserWith(login) = {}

UsersCreateRow(id, login) == users' = With(users, id, [login |-> login])

UsersUpdateInMemory(id, gs) ==
  /\ users' = IF id \in DOMAIN users THEN users ELSE With(users, id, [login |-> None])
  /\ members' = {m \in members : m[1] # id} \cup ({id} \X gs)

\* INSERT of all the requested pairs: the primary key refuses one that is there.
MembersInsertable(id, gs) ==
  /\ id \in DOMAIN users
  /\ gs \subseteq DOMAIN groups
  /\ gs \cap GroupsOf(id) = {}

MembersInsert(id, gs) == members' = members \cup ({id} \X gs)

MembersKeepOnly(id, gs) == members' = {m \in members : m[1] = id => m[2] \in gs}

\* ON DELETE CASCADE, or the groupsIds that the deleted map entry held.
UsersDeleteOne(id) ==
  /\ users' = Without(users, {id})
  /\ members' = {m \in members : m[1] # id}

-----------------------------------------------------------------------------
(* the operation log *)

LogsCreateOne(c, op) == logs' = logs \cup {<<c, op>>}

-----------------------------------------------------------------------------
(* The database is empty, or it holds an application, a bundle, perhaps an *)
(* entrypoint (with the bundle or with none), and two users in a group     *)
(* each: the root user, and one who manages what the seed is about.        *)

RootRoles == {<<"root", None>>}

SeedFiles == {"seed"} \X Assets

EmptyInit ==
  /\ apps = Nothing /\ bundles = Nothing /\ entrypoints = Nothing
  /\ groups = Nothing /\ users = Nothing
  /\ files = {} /\ members = {}

SeedInit(app, tag, url, devRoles) ==
  /\ apps = With(Nothing, "seed", [name |-> app, conf |-> "seed"])
  /\ bundles = With(Nothing, "seed", [tag |-> tag])
  /\ files = SeedFiles
  /\ \/ entrypoints = Nothing
     \/ \E b \in {"seed", None} :
          entrypoints = With(Nothing, "seed", [url |-> url, app |-> "seed", bundle |-> b])
  /\ groups = With(With(Nothing, "seed", [name |-> "root", roles |-> RootRoles]),
                   "dev", [name |-> "devs", roles |-> devRoles])
  /\ users = With(With(Nothing, "seed", [login |-> "root"]), "dev", [login |-> "dev"])
  /\ members = {<<"seed", "seed">>, <<"dev", "dev">>}

=============================================================================
