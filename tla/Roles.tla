------------------------------- MODULE Roles -------------------------------
(***************************************************************************)
(* Capabilities and roles of the v2 control plane, and the role that the   *)
(* groups of an actor have in an application.  A set of bindings is a      *)
(* function from the groups it binds to their roles, which is what the     *)
(* unique constraint of v2_bindings makes it.                              *)
(*                                                                         *)
(* Left out: the claims version, which is 1 in every session and in every  *)
(* policy that can be provisioned, so STALE_CLAIMS is never the source.    *)
(***************************************************************************)
EXTENDS Naturals

Capabilities ==
    {"APPLICATION_CREATE", "APPLICATION_READ", "APPLICATION_UPDATE",
     "APPLICATION_ARCHIVE", "BINDINGS_READ", "BINDINGS_REPLACE",
     "RELEASE_READ", "RELEASE_CREATE", "RELEASE_PROCESS", "PREVIEW",
     "PUBLISH", "RESTORE", "UNPUBLISH", "AUDIT_READ", "SOURCE_DOWNLOAD"}

BindingRoles == {"OWNER", "PUBLISHER", "VIEWER"}

ViewerCapabilities ==
    {"APPLICATION_READ", "RELEASE_READ", "PREVIEW", "AUDIT_READ",
     "SOURCE_DOWNLOAD"}

PublisherCapabilities ==
    ViewerCapabilities \cup
    {"RELEASE_CREATE", "RELEASE_PROCESS", "PUBLISH", "RESTORE", "UNPUBLISH"}

OwnerCapabilities ==
    Capabilities \ {"APPLICATION_CREATE", "APPLICATION_ARCHIVE"}

RoleCapabilities(role) ==
    CASE role = "ADMINISTRATOR" -> Capabilities
      [] role = "OWNER"         -> OwnerCapabilities
      [] role = "PUBLISHER"     -> PublisherCapabilities
      [] role = "VIEWER"        -> ViewerCapabilities
      [] role = "DENIED"        -> {}

Bindings(groups) == UNION {[G -> BindingRoles] : G \in SUBSET groups}

\* The highest role that the bindings give to one of the groups.
BoundRole(bindings, groups) ==
    LET held == {bindings[g] : g \in groups \cap DOMAIN bindings}
    IN  CASE "OWNER" \in held -> "OWNER"
          [] "OWNER" \notin held /\ "PUBLISHER" \in held -> "PUBLISHER"
          [] held = {"VIEWER"} -> "VIEWER"
          [] held = {} -> "DENIED"

\* An administrator group goes before any binding.
EffectiveRole(bindings, groups, administrators) ==
    IF groups \cap administrators # {} THEN "ADMINISTRATOR"
    ELSE BoundRole(bindings, groups)

\* v2_replace_bindings: a rank of 3 or more.
MayReplace(role) == role \in {"ADMINISTRATOR", "OWNER"}

\* v2_authorize_operation: only an administrator creates an application, and
\* any other capability is about one that exists.
Allows(capability, exists, role) ==
    IF capability = "APPLICATION_CREATE" THEN role = "ADMINISTRATOR"
    ELSE exists /\ capability \in RoleCapabilities(role)
=============================================================================
