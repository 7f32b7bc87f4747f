-------------------------- MODULE BindingRegister --------------------------
(***************************************************************************)
(* What replacing the bindings of an application promises, however the     *)
(* requests interleave: one step replaces the whole set, it is the step of *)
(* an owner of the set it replaces or of an administrator, it names the    *)
(* version it replaces, and what an actor asked for under one key happens  *)
(* once and keeps its outcome.                                             *)
(***************************************************************************)
EXTENDS Roles

CONSTANTS
    Applications,
    Actors,         \* subjects of the identity provider
    GroupSets,      \* groups that their sessions may carry
    Configurations, \* administrator groups a policy may name
    Requests        \* replacements asked for: key, expected version, bindings

VARIABLES
    policy,     \* administrator groups, {} until they are provisioned
    bound,      \* [Applications -> their version and bindings]
    request     \* [<<application, actor, key>> -> outcome, or Unasked]

Keys == {ask.key : ask \in Requests}

Unasked == [outcome |-> "NONE", expected |-> 0, desired |-> <<>>, version |-> 0]

BInit ==
    /\ policy = {}
    /\ bound = [a \in Applications |-> [version |-> 1, bindings |-> <<>>]]
    /\ request = [k \in Applications \X Actors \X Keys |-> Unasked]

Provision(configuration) ==
    /\ policy = {}
    /\ policy' = configuration
    /\ UNCHANGED <<bound, request>>

Replace(a, actor, groups, ask) ==
    LET old == bound[a]
        new == IF old.version # ask.expected \/ old.bindings = ask.desired THEN old
               ELSE [version |-> old.version + 1, bindings |-> ask.desired]
    IN  /\ request[<<a, actor, ask.key>>] = Unasked
        /\ MayReplace(EffectiveRole(old.bindings, groups, policy))
        /\ bound' = [bound EXCEPT ![a] = new]
        /\ request' = [request EXCEPT ![<<a, actor, ask.key>>] =
              [outcome |-> IF old.version = ask.expected THEN "APPLIED"
                           ELSE "VERSION_CONFLICT",
               expected |-> ask.expected, desired |-> ask.desired,
               version |-> new.version]]
        /\ UNCHANGED policy

BNext ==
    \/ \E configuration \in Configurations : Provision(configuration)
    \/ \E a \in Applications, actor \in Actors, groups \in GroupSets,
          ask \in Requests : Replace(a, actor, groups, ask)

BSpec == BInit /\ [][BNext]_<<policy, bound, request>>
=============================================================================
